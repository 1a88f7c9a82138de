----------------------------- MODULE PlayProofs ------------------------------
(***************************************************************************)
(* PLAY and SOUND where the tick is an interrupt, proved for any notes and *)
(* any ring: the wait for foreground music, the silence at the end, and    *)
(* that the ring implements Music.  `Inv` says for each place the program  *)
(* or the tick can be at what the tests before it have made sure of, and   *)
(* that no tick, wherever it came, has undone it since.                    *)
(***************************************************************************)
EXTENDS Play, TLAPS

(* The platforms of DOS.                                                   *)
Interrupt == ~Threaded

Steps == {"begin", "silence", "tone", "tail", "advance"}

(* The tick is where it does not take a note.                              *)
TakesNone == tpc \notin Steps /\ tpc # "take"

(* The tick counts a tone out, or ends it.                                 *)
CountsOut == tpc \in {"sound", "less", "hush"}

(* What the tick has read of a count, or of tail, is so until it stores.   *)
CountIsKept ==
  /\ tpc \in {"sound", "less"} => sound_left > 0
  /\ tpc = "less" => loaded = sound_left
  /\ tpc \in {"quiet", "fewer"} => quiet_left > 0
  /\ tpc = "fewer" => loaded = quiet_left
  /\ tpc = "advance" => loaded = tail

(* dev_tick_hold and dev_tick_release.                                     *)
HoldIsKept ==
  /\ held => pc \in {"drop", "calm", "still", "hush", "release"} /\ tpc = "away"
  /\ pc = "release" => held

(* What the foreground wait has seen stays so until the note is queued.    *)
WaitIsKept ==
  /\ pc = "sound" => Empty /\ TakesNone
  /\ pc \in {"room", "store", "publish"} /\ foreground =>
       /\ Empty /\ TakesNone /\ ~CountsOut
       /\ sound_left = 0 /\ tone = 0

RoomIsKept ==
  /\ pc \in {"store", "publish"} => Following(head) # tail
  /\ pc = "publish" => queue[head] \in Notes

(* What SOUND of no duration and the end have silenced stays silent.       *)
SilenceIsKept ==
  /\ pc \in {"calm", "still", "hush", "release", "off", "join", "ended"} =>
       Empty /\ TakesNone
  /\ pc \in {"hush", "release", "off", "join", "ended"} =>
       sound_left = 0 /\ ~CountsOut
  /\ pc \in {"release", "off", "join", "ended"} => tone = 0

(* What the tick has done of the note it begins.                           *)
NoteIsBegun ==
  /\ tpc = "take" => ~Empty
  /\ tpc \in Steps => ~Empty /\ next = tail
  /\ tpc \in {"take", "begin", "silence", "tone"} => tone = 0
  /\ tpc \in {"take", "begin"} => sound_left = 0
  /\ tpc \in {"take", "begin", "silence"} => quiet_left = 0
  /\ tpc \in {"silence", "tone"} => sound_left = queue[next].sound
  /\ tpc = "tone" => quiet_left = queue[next].quiet

ToneIsOwed ==
  tone # 0 => sound_left > 0 \/ tpc = "hush" \/ pc = "hush"

Inv ==
  /\ TypeOK
  /\ HoldIsKept /\ WaitIsKept /\ RoomIsKept /\ SilenceIsKept
  /\ CountIsKept /\ NoteIsBegun /\ ToneIsOwed
-----------------------------------------------------------------------------
LEMMA FollowingFacts ==
  /\ \A at \in Places : Following(at) \in Places
  /\ \A at, to \in Places : Following(at) = Following(to) => at = to
  /\ \A at \in Places : Following(at) # at
BY PlayAssumption, SMT DEF Places, Following

LEMMA PlacesAreNat == Places \subseteq Nat
BY PlayAssumption DEF Places

LEMMA NoteFields ==
  \A n \in Notes \cup {Blank} : n.hertz \in Nat /\ n.sound \in Nat /\ n.quiet \in Nat
BY PlayAssumption DEF Blank

LEMMA InitInv == Init => Inv
<1> SUFFICES ASSUME Init PROVE Inv
  OBVIOUS
<1>1. 0 \in Places
  BY PlayAssumption, SMT DEF Places
<1>2. TypeOK
  BY <1>1 DEF Init, TypeOK
<1>3. HoldIsKept /\ WaitIsKept /\ RoomIsKept /\ SilenceIsKept
  BY DEF Init, HoldIsKept, WaitIsKept, RoomIsKept, SilenceIsKept, TakesNone, CountsOut, Steps
<1>4. CountIsKept /\ NoteIsBegun /\ ToneIsOwed
  BY DEF Init, CountIsKept, NoteIsBegun, ToneIsOwed, Steps
<1> QED
  BY <1>2, <1>3, <1>4 DEF Inv

(* The steps of the program: a tick is not under way.                      *)
LEMMA ProgramInv == Interrupt /\ Inv /\ (Statement \/ Continue) => Inv'
<1> SUFFICES ASSUME Interrupt, Inv, Statement \/ Continue PROVE Inv'
  OBVIOUS
<1> USE FollowingFacts
    DEF Interrupt, Inv, TypeOK, HoldIsKept, WaitIsKept, RoomIsKept, SilenceIsKept,
        CountIsKept, NoteIsBegun, ToneIsOwed, Empty, TakesNone, CountsOut, Steps,
        Step, ring, counts
<1>1. CASE Style
  BY <1>1 DEF Style
<1>2. CASE PlayNote
  BY <1>2 DEF PlayNote
<1>3. CASE Hold
  BY <1>3 DEF Hold
<1>4. CASE End
  BY <1>4 DEF End
<1>5. CASE WaitForQueue
  BY <1>5 DEF WaitForQueue
<1>6. CASE WaitForSound
  BY <1>6 DEF WaitForSound
<1>7. CASE WaitForRoom
  BY <1>7 DEF WaitForRoom
<1>8. CASE Store
  BY <1>8 DEF Store
<1>9. CASE Publish
  BY <1>9 DEF Publish
<1>10. CASE DropNotes
  BY <1>10 DEF DropNotes
<1>11. CASE ClearQuiet
  BY <1>11 DEF ClearQuiet
<1>12. CASE ClearSound
  BY <1>12 DEF ClearSound
<1>13. CASE QuietSpeaker
  BY <1>13 DEF QuietSpeaker
<1>14. CASE Release
  BY <1>14 DEF Release
<1>15. CASE TickOff
  BY <1>15 DEF TickOff
<1>16. CASE Join
  BY <1>16 DEF Join
<1>17. CASE Restore
  BY <1>17 DEF Restore
<1> QED
  BY <1>1, <1>2, <1>3, <1>4, <1>5, <1>6, <1>7, <1>8, <1>9, <1>10, <1>11,
     <1>12, <1>13, <1>14, <1>15, <1>16, <1>17 DEF Statement, Continue

(* The steps of the tick: the program stays where it is.                   *)
LEMMA TickInv == Interrupt /\ Inv /\ Tick => Inv'
<1> SUFFICES ASSUME Interrupt, Inv, Tick PROVE Inv'
  OBVIOUS
<1> USE FollowingFacts, NoteFields
    DEF Interrupt, Inv, TypeOK, HoldIsKept, WaitIsKept, RoomIsKept, SilenceIsKept,
        CountIsKept, NoteIsBegun, ToneIsOwed, Empty, TakesNone, CountsOut, Steps,
        TickStep, OneLess,
        program, ring, counts
<1>1. CASE TestSound
  BY <1>1 DEF TestSound
<1>2. CASE LoadSound
  BY <1>2 DEF LoadSound
<1>3. CASE CountSound
  BY <1>3 DEF CountSound
<1>4. CASE HushNote
  BY <1>4 DEF HushNote
<1>5. CASE TestQuiet
  BY <1>5 DEF TestQuiet
<1>6. CASE LoadQuiet
  BY <1>6 DEF LoadQuiet
<1>7. CASE CountQuiet
  BY <1>7 DEF CountQuiet
<1>8. CASE TestNext
  BY <1>8 DEF TestNext
<1>9. CASE Return
  BY <1>9 DEF Return
<1>10. CASE TakeNext
  BY <1>10 DEF TakeNext
<1>11. CASE BeginSound
  BY <1>11 DEF BeginSound
<1>12. CASE BeginQuiet
  BY <1>12 DEF BeginQuiet
<1>13. CASE StartTone
  BY <1>13 DEF StartTone
<1>14. CASE LoadTail
  BY <1>14, PlacesAreNat DEF LoadTail
<1>15. CASE Advance
  BY <1>15 DEF Advance
<1> QED
  BY <1>1, <1>2, <1>3, <1>4, <1>5, <1>6, <1>7, <1>8, <1>9, <1>10, <1>11,
     <1>12, <1>13, <1>14, <1>15 DEF Tick

LEMMA NextInv == Interrupt /\ Inv /\ [Next]_vars => Inv'
<1> SUFFICES ASSUME Interrupt, Inv, [Next]_vars PROVE Inv'
  OBVIOUS
<1>1. CASE UNCHANGED vars
  BY <1>1 DEF vars, program, ring, counts, Inv, TypeOK, HoldIsKept, WaitIsKept,
       RoomIsKept, SilenceIsKept, CountIsKept, NoteIsBegun, ToneIsOwed, Empty, TakesNone,
       CountsOut
<1> QED
  BY <1>1, ProgramInv, TickInv DEF Next

(* Every state of the program and the tick is as `Inv` says.               *)
THEOREM PlayInvariance == ASSUME Interrupt PROVE Spec => []Inv
<1>1. Init => Inv
  BY InitInv
<1>2. Inv /\ [Next]_vars => Inv'
  BY NextInv
<1> QED
  BY <1>1, <1>2, PTL DEF Spec

(* The speaker is quiet when the program has ended.                        *)
THEOREM EndIsQuiet == ASSUME Interrupt PROVE Spec => []QuietAfterEnd
<1>1. Inv => QuietAfterEnd
  BY DEF Inv, SilenceIsKept, QuietAfterEnd
<1> QED
  BY <1>1, PlayInvariance, PTL

(* A tone has a note counted out for it, between any two ticks.            *)
THEOREM TonesAreCounted == ASSUME Interrupt PROVE Spec => []ToneIsCounted
<1>1. Inv => ToneIsCounted
  BY DEF Inv, ToneIsOwed, ToneIsCounted
<1> QED
  BY <1>1, PlayInvariance, PTL

(* A note of the foreground joins an empty queue, and nothing sounds.      *)
THEOREM ForegroundIsAlone == ASSUME Interrupt PROVE Spec => ForegroundWaits
<1> DEFINE Alone == head' # head /\ foreground => Empty /\ sound_left = 0 /\ tone = 0
<1>1. Inv /\ [Next]_vars => [Alone]_vars
  <2> SUFFICES ASSUME Inv, Next PROVE Alone
    OBVIOUS
  <2>1. CASE Publish
    BY <2>1 DEF Publish, Step, Inv, WaitIsKept
  <2>2. CASE (Statement \/ Continue) /\ ~Publish
    BY <2>2 DEF Statement, Continue, Style, PlayNote, Hold, End, WaitForQueue,
         WaitForSound, WaitForRoom, Store, DropNotes, ClearQuiet, ClearSound,
         QuietSpeaker, Release, TickOff, Join, Restore, ring
  <2>3. CASE Tick
    BY <2>3 DEF Tick, TickStep, TestSound, LoadSound, CountSound, HushNote, TestQuiet,
         LoadQuiet, CountQuiet, TestNext, Return, TakeNext, BeginSound, BeginQuiet,
         StartTone, LoadTail, Advance
  <2> QED
    BY <2>1, <2>2, <2>3 DEF Next
<1> QED
  BY <1>1, PlayInvariance, PTL DEF Spec, ForegroundWaits
-----------------------------------------------------------------------------
(* The ring implements Music.                                              *)

Gone == IF tpc \in {"tail", "advance"} THEN Following(tail) ELSE tail
Many(from, to) == IF to >= from THEN to - from ELSE to + QUEUE - from
Place(from, n) == IF from + n - 1 < QUEUE THEN from + n - 1 ELSE from + n - 1 - QUEUE
Slice(q, from, to) == [n \in 1 .. Many(from, to) |-> q[Place(from, n)]]

LEMMA SliceFacts ==
  ASSUME NEW q \in [Places -> Notes \cup {Blank}], NEW from \in Places, NEW to \in Places
  PROVE  /\ Many(from, to) \in 0 .. QUEUE - 1
         /\ Slice(q, from, to) \in Seq(Notes \cup {Blank})
         /\ Len(Slice(q, from, to)) = Many(from, to)
         /\ \A n \in 1 .. Many(from, to) :
              Place(from, n) \in Places /\ Slice(q, from, to)[n] = q[Place(from, n)]
<1>1. Many(from, to) \in 0 .. QUEUE - 1
  BY PlayAssumption, SMT DEF Many, Places
<1>2. \A n \in 1 .. Many(from, to) : Place(from, n) \in Places
  BY PlayAssumption, SMT DEF Many, Places, Place
<1>3. Slice(q, from, to) \in [1 .. Many(from, to) -> Notes \cup {Blank}]
  BY <1>2 DEF Slice
<1> QED
  BY <1>1, <1>2, <1>3 DEF Slice

(* A note stored at the end of the slice and published joins it.           *)
LEMMA SlicePut ==
  ASSUME NEW q \in [Places -> Notes \cup {Blank}], NEW from \in Places, NEW to \in Places,
         Following(to) # from
  PROVE  /\ Many(from, to) < QUEUE - 1
         /\ Slice(q, from, Following(to)) = Append(Slice(q, from, to), q[to])
<1>1. /\ Many(from, to) < QUEUE - 1
      /\ Many(from, Following(to)) = Many(from, to) + 1
      /\ Place(from, Many(from, to) + 1) = to
  BY PlayAssumption, SMT DEF Many, Places, Following, Place
<1>2. Following(to) \in Places
  BY FollowingFacts
<1> DEFINE old == Slice(q, from, to)
           new == Slice(q, from, Following(to))
<1>3. /\ old \in Seq(Notes \cup {Blank}) /\ Len(old) = Many(from, to)
      /\ Many(from, to) \in Nat
      /\ \A n \in 1 .. Many(from, to) : old[n] = q[Place(from, n)]
  BY SliceFacts
<1>4. /\ new \in Seq(Notes \cup {Blank}) /\ Len(new) = Many(from, Following(to))
      /\ \A n \in 1 .. Many(from, Following(to)) : new[n] = q[Place(from, n)]
  BY <1>2, SliceFacts
<1>5. q[to] \in Notes \cup {Blank}
  OBVIOUS
<1> HIDE DEF old, new
<1>6. new = Append(old, q[to])
  BY <1>1, <1>3, <1>4, <1>5
<1> QED
  BY <1>1, <1>6 DEF old, new

(* A note taken from the front leaves the rest.                            *)
LEMMA SliceTake ==
  ASSUME NEW q \in [Places -> Notes \cup {Blank}], NEW from \in Places, NEW to \in Places,
         from # to
  PROVE  /\ Slice(q, from, to) # <<>>
         /\ Head(Slice(q, from, to)) = q[from]
         /\ Slice(q, Following(from), to) = Tail(Slice(q, from, to))
<1>1. /\ Many(from, to) > 0
      /\ Many(Following(from), to) = Many(from, to) - 1
      /\ Place(from, 1) = from
      /\ \A n \in 1 .. Many(from, to) - 1 : Place(Following(from), n) = Place(from, n + 1)
  BY PlayAssumption, SMT DEF Many, Places, Following, Place
<1>2. Following(from) \in Places
  BY FollowingFacts
<1> QED
  BY <1>1, <1>2, SliceFacts DEF Slice

(* What is stored past the slice is not of it.                             *)
LEMMA SliceStore ==
  ASSUME NEW q \in [Places -> Notes \cup {Blank}], NEW from \in Places, NEW to \in Places,
         NEW n \in Notes
  PROVE  Slice([q EXCEPT ![to] = n], from, to) = Slice(q, from, to)
<1>1. \A k \in 1 .. Many(from, to) : Place(from, k) \in Places /\ Place(from, k) # to
  BY PlayAssumption, SMT DEF Many, Places, Place
<1> QED
  BY <1>1 DEF Slice

(* Empty in the ring's own words, and what the refinement makes of Held.   *)
LEMMA HeldIsSlice == Held = Slice(queue, Gone, head)
BY DEF Held, Slice, Gone, Many, Place

LEMMA EmptySlice ==
  ASSUME NEW q, NEW at \in Places PROVE Slice(q, at, at) = <<>>
BY PlayAssumption, SMT DEF Slice, Many, Places

mapped == Ring!mvars

LEMMA MapInit == Init => Ring!MusicInit
<1> SUFFICES ASSUME Init PROVE Ring!MusicInit
  OBVIOUS
<1>1. Held = <<>>
  BY PlayAssumption, EmptySlice, HeldIsSlice DEF Init, Gone, Places
<1> QED
  BY <1>1 DEF Init, Ring!MusicInit, Lasts

(* What leaves the ring and the place of its next note alone.              *)
LEMMA HeldStays == UNCHANGED <<queue, head, Gone>> => UNCHANGED Held
BY DEF Held, Gone

(* What the program does between two ticks, in the words of Music.         *)
LEMMA ProgramMaps ==
  Interrupt /\ Inv /\ (Statement \/ Continue) => [Ring!MusicNext]_mapped
<1> SUFFICES ASSUME Interrupt, Inv, Statement \/ Continue PROVE [Ring!MusicNext]_mapped
  OBVIOUS
<1> USE DEF Step, Interrupt
<1>a. tpc = "away" /\ tpc' = tpc /\ Gone = tail /\ Gone' = tail'
  BY DEF Statement, Continue, Style, PlayNote, Hold, End, WaitForQueue, WaitForSound,
     WaitForRoom, Store, Publish, DropNotes, ClearQuiet, ClearSound, QuietSpeaker,
     Release, TickOff, Join, Restore, Gone
<1>b. TypeOK
  BY DEF Inv
<1>1. CASE Style \/ PlayNote \/ WaitForQueue \/ WaitForSound \/ WaitForRoom
           \/ Release \/ TickOff \/ Join \/ Restore
  <2>1. UNCHANGED <<ring, counts, tone>> /\ (pc' = "drop") = (pc = "drop")
    BY <1>1 DEF Style, PlayNote, WaitForQueue, WaitForSound, WaitForRoom, Release,
       TickOff, Join, Restore
  <2>2. UNCHANGED Held
    BY <2>1, <1>a, HeldStays DEF ring
  <2> QED
    BY <2>1, <2>2, <1>a DEF mapped, Ring!mvars, Lasts, counts
<1>2. CASE Store
  <2>1. UNCHANGED Held
    <3>1. PICK note \in Notes : queue' = [queue EXCEPT ![head] = note]
      BY <1>2 DEF Store
    <3>2. Slice(queue', tail, head) = Slice(queue, tail, head)
      BY <3>1, <1>b, SliceStore DEF TypeOK
    <3> QED
      BY <3>2, <1>2, <1>a, HeldIsSlice DEF Store, Slice, Many, Place, Held
  <2> QED
    BY <2>1, <1>2, <1>a DEF Store, mapped, Ring!mvars, Lasts, counts
<1>3. CASE Publish
  <2>1. Following(head) # tail /\ queue[head] \in Notes
    BY <1>3 DEF Publish, Inv, RoomIsKept
  <2>2. /\ Many(tail, head) < QUEUE - 1
        /\ Slice(queue, tail, Following(head)) = Append(Slice(queue, tail, head), queue[head])
    BY <2>1, <1>b, SlicePut DEF TypeOK
  <2>3. Len(Held) < QUEUE - 1
    BY <2>2, <1>a, <1>b, SliceFacts, HeldIsSlice DEF TypeOK
  <2>4. Held' = Append(Held, queue[head])
    BY <2>2, <1>3, <1>a, HeldIsSlice DEF Publish, Held, Slice, Many, Place, Gone
  <2>5. Ring!Queue(queue[head])
    BY <2>3, <2>4, <1>3, <1>a DEF Publish, Ring!Queue, Lasts, counts
  <2> QED
    BY <2>1, <2>5 DEF Ring!MusicNext
<1>4. CASE Hold \/ End
  <2>1. UNCHANGED <<ring, counts, tone>> /\ pc = "idle" /\ pc' = "drop"
    BY <1>4 DEF Hold, End
  <2>2. UNCHANGED Held
    BY <2>1, <1>a, HeldStays DEF ring
  <2>3. Ring!Silence
    BY <2>1, <2>2, <1>a DEF Ring!Silence, Lasts, counts
  <2> QED
    BY <2>3 DEF Ring!MusicNext
<1>5. CASE DropNotes
  <2>1. Held' = <<>>
    <3>1. Held' = Slice(queue, head, head)
      BY <1>5, <1>a DEF DropNotes, Held, Slice, Many, Place, Gone
    <3> QED
      BY <3>1, <1>b, EmptySlice DEF TypeOK
  <2>2. Ring!Drop
    BY <2>1, <1>5, <1>a DEF DropNotes, Ring!Drop, Lasts, counts
  <2> QED
    BY <2>2 DEF Ring!MusicNext
<1>6. CASE ClearQuiet \/ ClearSound
  <2>1. /\ UNCHANGED <<queue, head, tail, tone>> /\ pc # "drop" /\ pc' # "drop"
        /\ sound_left' \in {0, sound_left} /\ quiet_left' \in {0, quiet_left}
    BY <1>6 DEF ClearQuiet, ClearSound, ring
  <2>2. UNCHANGED Held
    BY <2>1, <1>a, HeldStays
  <2>3. Lasts' = Lasts \/ (Lasts /\ tone = 0 /\ ~Lasts')
    BY <2>1, <1>a, <1>b DEF Lasts, TypeOK
  <2> QED
    BY <2>1, <2>2, <2>3 DEF mapped, Ring!mvars, Ring!MusicNext, Ring!Over
<1>7. CASE QuietSpeaker
  <2>1. UNCHANGED <<ring, counts>> /\ tone' = 0 /\ pc # "drop" /\ pc' # "drop"
    BY <1>7 DEF QuietSpeaker
  <2>2. UNCHANGED Held
    BY <2>1, <1>a, HeldStays DEF ring
  <2>3. Lasts' \in BOOLEAN /\ (tone # 0 => Lasts) /\ (tone = 0 => Lasts' = Lasts)
    BY <2>1, <1>a DEF Lasts, counts
  <2> QED
    BY <2>1, <2>2, <2>3 DEF mapped, Ring!mvars, Ring!MusicNext, Ring!Hush
<1> QED
  BY <1>1, <1>2, <1>3, <1>4, <1>5, <1>6, <1>7 DEF Statement, Continue

(* What a tick does, in the words of Music: a note begins with its tone.   *)
LEMMA TickMaps == Interrupt /\ Inv /\ Tick => [Ring!MusicNext]_mapped
<1> SUFFICES ASSUME Interrupt, Inv, Tick PROVE [Ring!MusicNext]_mapped
  OBVIOUS
<1> USE DEF TickStep
<1>a. UNCHANGED <<pc, queue, head>>
  BY DEF Tick, TestSound, LoadSound, CountSound, HushNote, TestQuiet, LoadQuiet,
     CountQuiet, TestNext, Return, TakeNext, BeginSound, BeginQuiet, StartTone,
     LoadTail, Advance, program
<1>b. TypeOK /\ CountIsKept
  BY DEF Inv
<1>1. CASE CountSound \/ CountQuiet
  <2>1. /\ UNCHANGED <<tail, tone>>
        /\ tpc \in {"less", "fewer"} /\ tpc' \in {"hush", "rest", "test"}
        /\ sound_left' > 0 => sound_left > 0
        /\ quiet_left' > 0 => quiet_left > 0
    BY <1>1, <1>b, SMT DEF CountSound, CountQuiet, TypeOK, CountIsKept, OneLess
  <2>2. UNCHANGED Held
    BY <2>1, <1>a, HeldStays DEF Gone
  <2>3. Lasts' = Lasts \/ (Lasts /\ tone = 0 /\ ~Lasts')
    BY <2>1, SMT DEF Lasts
  <2> QED
    BY <1>a, <2>1, <2>2, <2>3 DEF mapped, Ring!mvars, Ring!MusicNext, Ring!Over
<1>2. CASE HushNote
  <2>1. UNCHANGED <<tail, counts>> /\ tone' = 0 /\ tpc = "hush" /\ tpc' = "test"
    BY <1>2 DEF HushNote
  <2>2. UNCHANGED Held
    BY <2>1, <1>a, HeldStays DEF Gone
  <2>3. Lasts' \in BOOLEAN /\ (tone # 0 => Lasts) /\ (tone = 0 => Lasts' = Lasts)
    BY <2>1 DEF Lasts, counts
  <2> QED
    BY <1>a, <2>1, <2>2, <2>3 DEF mapped, Ring!mvars, Ring!MusicNext, Ring!Hush
<1>3. CASE \/ TestSound \/ LoadSound \/ TestQuiet \/ LoadQuiet \/ TestNext \/ Return
           \/ TakeNext \/ BeginSound \/ BeginQuiet \/ LoadTail
  <2>1. UNCHANGED <<tail, tone>> /\ UNCHANGED Gone
    BY <1>3 DEF TestSound, LoadSound, TestQuiet, LoadQuiet, TestNext, Return, TakeNext,
       BeginSound, BeginQuiet, LoadTail, Gone
  <2>2. UNCHANGED Held
    BY <2>1, <1>a, HeldStays
  <2>3. CASE BeginSound \/ BeginQuiet
    <3>1. ~Lasts /\ ~Lasts'
      BY <2>3, <2>1, <1>b, SMT DEF BeginSound, BeginQuiet, Lasts, Inv, NoteIsBegun
    <3> QED
      BY <1>a, <2>1, <2>2, <3>1 DEF mapped, Ring!mvars, Lasts
  <2>4. CASE ~(BeginSound \/ BeginQuiet)
    <3>1. /\ UNCHANGED <<sound_left, quiet_left>>
          /\ tpc \notin {"silence", "tone"} /\ tpc' \notin {"silence", "tone"}
      BY <1>3, <2>4 DEF TestSound, LoadSound, TestQuiet, LoadQuiet, TestNext, Return,
         TakeNext, LoadTail, counts
    <3> QED
      BY <1>a, <2>1, <2>2, <3>1 DEF mapped, Ring!mvars, Lasts
  <2> QED
    BY <2>3, <2>4
<1>4. CASE StartTone
  <2>1. ~Empty /\ next = tail /\ tone = 0 /\ tpc = "tone" /\ tpc' = "tail"
    BY <1>4 DEF StartTone, Inv, NoteIsBegun, Steps
  <2>2. sound_left = queue[tail].sound /\ quiet_left = queue[tail].quiet
    BY <2>1 DEF Inv, NoteIsBegun
  <2>3. /\ Held # <<>> /\ Head(Held) = queue[tail]
        /\ Slice(queue, Following(tail), head) = Tail(Held)
    BY <2>1, <1>b, SliceTake, HeldIsSlice DEF TypeOK, Empty, Gone
  <2>4. Held' = Tail(Held)
    BY <2>1, <2>3, <1>4, <1>a DEF StartTone, Held, Slice, Many, Place, Gone
  <2>5. queue[tail].hertz \in Nat /\ queue[tail].sound \in Nat /\ queue[tail].quiet \in Nat
    BY <1>b, NoteFields DEF TypeOK
  <2>6. tone' = IF queue[tail].sound > 0 THEN queue[tail].hertz ELSE 0
    BY <1>4, <2>1, <2>2, <2>5, SMT DEF StartTone
  <2>7. Lasts' = (queue[tail].sound > 0 \/ queue[tail].quiet > 0)
    <3>1. sound_left' = sound_left /\ quiet_left' = quiet_left
      BY <1>4 DEF StartTone, counts
    <3>2. tone' # 0 => queue[tail].sound > 0
      BY <2>6
    <3>3. tpc' \notin {"silence", "tone"}
      BY <2>1
    <3>4. Lasts' = (tone' # 0 \/ sound_left' > 0 \/ quiet_left' > 0)
      BY <3>3 DEF Lasts
    <3> QED
      BY <2>2, <3>1, <3>2, <3>4
  <2>8. ~Lasts
    BY <2>1 DEF Lasts
  <2>9. Ring!Begin
    BY <1>a, <2>3, <2>4, <2>6, <2>7, <2>8 DEF Ring!Begin
  <2> QED
    BY <2>9 DEF Ring!MusicNext
<1>5. CASE Advance
  <2>1. /\ tpc = "advance" /\ tpc' = "test" /\ tail' = Following(tail)
        /\ UNCHANGED <<counts, tone>>
    BY <1>5, <1>b DEF Advance, CountIsKept
  <2>2. UNCHANGED Gone
    BY <2>1 DEF Gone
  <2>3. UNCHANGED Held
    BY <1>a, <2>2, HeldStays
  <2> QED
    BY <1>a, <2>1, <2>3 DEF mapped, Ring!mvars, Lasts, counts
<1> QED
  BY <1>1, <1>2, <1>3, <1>4, <1>5 DEF Tick

(* The ring, the counts and the speaker implement Music, for any notes and *)
(* any size of ring: notes begin in the order they were queued, each once, *)
(* none while the one before it lasts, and none is lost.                   *)
THEOREM RingImplementsMusic == ASSUME Interrupt PROVE Spec => Ring!MusicSafe
<1>1. Inv /\ [Next]_vars => [Ring!MusicNext]_mapped
  <2> SUFFICES ASSUME Inv, [Next]_vars PROVE [Ring!MusicNext]_mapped
    OBVIOUS
  <2>1. CASE Statement \/ Continue
    BY <2>1, ProgramMaps
  <2>2. CASE Tick
    BY <2>2, TickMaps
  <2>3. CASE UNCHANGED vars
    <3>1. UNCHANGED <<Held, Lasts, tone, pc>>
      BY <2>3 DEF vars, program, ring, counts, Held, Lasts
    <3> QED
      BY <3>1 DEF mapped, Ring!mvars
  <2> QED
    BY <2>1, <2>2, <2>3 DEF Next
<1> QED
  BY <1>1, MapInit, PlayInvariance, PTL DEF Spec, Ring!MusicSafe, mapped

(* Every state of a run is well typed, whatever the notes and the ring.    *)
THEOREM TypeCorrect == ASSUME Interrupt PROVE Spec => []TypeOK
<1>1. Inv => TypeOK
  BY DEF Inv
<1> QED
  BY <1>1, PlayInvariance, PTL

=============================================================================
