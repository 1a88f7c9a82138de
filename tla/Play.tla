-------------------------------- MODULE Play ---------------------------------
(***************************************************************************)
(* PLAY and SOUND (runtime/qb/play.c): the program puts notes in a ring,   *)
(* the clock's tick takes them out and works the speaker.  The program     *)
(* writes head and the tick writes tail, except that SOUND of no duration  *)
(* and the end of the program write tail as well.                          *)
(*                                                                         *)
(* Each store and each test another process can fall between is a step of  *)
(* its own, and so is the load of what the tick changes and stores again.  *)
(* On DOS the tick is an interrupt: the program takes no step until it has *)
(* returned.  On a host it is a thread (dev/host/tick.c), whose steps are  *)
(* interleaved with the program's one load or store at a time.             *)
(*                                                                         *)
(* How a command string is read is left out: it yields notes and the style *)
(* F or B.  So is the conversion of lengths to ticks.                      *)
(***************************************************************************)
EXTENDS Naturals, Sequences

CONSTANTS
  Notes,      (* [hertz, sound, quiet]: pitch, ticks of tone, of silence.  *)
  QUEUE,      (* Places in the ring, one of which is always empty.         *)
  UINT_MAX,   (* The greatest unsigned, which 0 less one wraps to.         *)
  Threaded    (* Whether the tick is a thread, not an interrupt.           *)

ASSUME PlayAssumption ==
  /\ Notes \subseteq [hertz : Nat, sound : Nat, quiet : Nat]
  /\ QUEUE \in Nat /\ QUEUE > 1
  /\ UINT_MAX \in Nat
  /\ Threaded \in BOOLEAN

VARIABLES
  pc,           (* Where the program is: "idle" between statements.        *)
  foreground,   (* PLAY's MF or MB.                                        *)
  queue, head, tail,
  sound_left, quiet_left,
  tone,         (* The last dev_tone.                                      *)
  ticking,      (* dev_tick_start was called, and the clock is not given   *)
                (* back (dev_tick_stop, LL$RESTORE_VECTORS).               *)
  held,         (* Between dev_tick_hold and dev_tick_release.             *)
  tpc,          (* Where the tick is: "away" between ticks.                *)
  next,         (* The place of the note the tick begins.                  *)
  loaded        (* A count, or tail, as the tick read it to change it.     *)

program == <<pc, foreground, ticking, held>>
ring == <<queue, head, tail>>
counts == <<sound_left, quiet_left>>
vars == <<program, ring, counts, tone, tpc, next, loaded>>

Places == 0 .. QUEUE - 1

(* Mutant: the ring's end is not followed by its beginning.                *)
FollowingUnwrapped(at) == at + 1

(* (at + 1) % QUEUE *)
Following(at) == IF at = QUEUE - 1 THEN 0 ELSE at + 1

Empty == tail = head

Blank == [hertz |-> 0, sound |-> 0, quiet |-> 0]

Init ==
  /\ pc = "idle" /\ foreground = TRUE
  /\ queue = [place \in Places |-> Blank]
  /\ head = 0 /\ tail = 0
  /\ sound_left = 0 /\ quiet_left = 0
  /\ tone = 0
  /\ ticking = FALSE /\ held = FALSE
  /\ tpc = "away" /\ next = 0 /\ loaded = 0
-----------------------------------------------------------------------------
(* The program.                                                            *)

Step(from, to) ==
  /\ pc = from
  /\ Threaded \/ tpc = "away"
  /\ pc' = to

(* MF and MB.                                                              *)
Style ==
  /\ Step("idle", "idle")
  /\ foreground' \in BOOLEAN
  /\ UNCHANGED <<ticking, held, ring, counts, tone, tpc, next, loaded>>

(* Mutant: the clock's tick is not asked for.                              *)
PlayNoteUnheard ==
  /\ Step("idle", IF foreground THEN "queue" ELSE "room")
  /\ UNCHANGED <<foreground, ticking, held, ring, counts, tone, tpc, next, loaded>>

(* A note of PLAY, or SOUND of some duration.                              *)
PlayNote ==
  /\ Step("idle", IF foreground THEN "queue" ELSE "room")
  /\ ticking' = TRUE
  /\ UNCHANGED <<foreground, held, ring, counts, tone, tpc, next, loaded>>

(* Mutant: the note sounding is not waited for.                            *)
WaitForSoundOnly ==
  /\ Step("sound", "room")
  /\ UNCHANGED <<foreground, ticking, held, ring, counts, tone, tpc, next, loaded>>

(* while (tail != head || sound_left), one test at a time.                 *)
WaitForQueue ==
  /\ Step("queue", "sound")
  /\ Empty
  /\ UNCHANGED <<foreground, ticking, held, ring, counts, tone, tpc, next, loaded>>

WaitForSound ==
  /\ Step("sound", IF sound_left = 0 THEN "room" ELSE "queue")
  /\ UNCHANGED <<foreground, ticking, held, ring, counts, tone, tpc, next, loaded>>

(* Mutant: a note is put in a ring that is full.                           *)
WaitForNoRoom ==
  /\ Step("room", "store")
  /\ UNCHANGED <<foreground, ticking, held, ring, counts, tone, tpc, next, loaded>>

WaitForRoom ==
  /\ Step("room", "store")
  /\ Following(head) # tail
  /\ UNCHANGED <<foreground, ticking, held, ring, counts, tone, tpc, next, loaded>>

Store ==
  /\ Step("store", "publish")
  /\ \E note \in Notes : queue' = [queue EXCEPT ![head] = note]
  /\ UNCHANGED <<foreground, ticking, held, head, tail, counts, tone, tpc, next, loaded>>

Publish ==
  /\ Step("publish", "idle")
  /\ head' = Following(head)
  /\ UNCHANGED <<foreground, ticking, held, queue, tail, counts, tone, tpc, next, loaded>>

(* SOUND of no duration keeps the tick away while it works; on a host it   *)
(* takes the lock a tick under way has.                                    *)
Hold ==
  /\ Step("idle", "drop")
  /\ tpc = "away"
  /\ held' = TRUE
  /\ UNCHANGED <<foreground, ticking, ring, counts, tone, tpc, next, loaded>>

(* music_stop, as END and the end of the module call it.                   *)
End ==
  /\ Step("idle", "drop")
  /\ UNCHANGED <<foreground, ticking, held, ring, counts, tone, tpc, next, loaded>>

(* Mutant: what waits is kept.                                             *)
DropNothing ==
  /\ Step("drop", "calm")
  /\ UNCHANGED <<foreground, ticking, held, ring, counts, tone, tpc, next, loaded>>

DropNotes ==
  /\ Step("drop", "calm")
  /\ tail' = head
  /\ UNCHANGED <<foreground, ticking, held, queue, head, counts, tone, tpc, next, loaded>>

(* sound_left = quiet_left = 0: two stores.                                *)
ClearQuiet ==
  /\ Step("calm", "still")
  /\ quiet_left' = 0
  /\ UNCHANGED <<foreground, ticking, held, ring, sound_left, tone, tpc, next, loaded>>

ClearSound ==
  /\ Step("still", "hush")
  /\ sound_left' = 0
  /\ UNCHANGED <<foreground, ticking, held, ring, quiet_left, tone, tpc, next, loaded>>

QuietSpeaker ==
  /\ Step("hush", IF held THEN "release" ELSE "off")
  /\ tone' = 0
  /\ UNCHANGED <<foreground, ticking, held, ring, counts, tpc, next, loaded>>

Release ==
  /\ Step("release", "idle")
  /\ held' = FALSE
  /\ UNCHANGED <<foreground, ticking, ring, counts, tone, tpc, next, loaded>>

(* dev_tick_stop, if the tick was started.  A host stops its thread and    *)
(* dos/m32 gives the clock back; dos/m16 leaves that to the exit.          *)
TickOff ==
  /\ Step("off", "join")
  /\ ticking' \in {FALSE, ticking /\ ~Threaded}
  /\ UNCHANGED <<foreground, held, ring, counts, tone, tpc, next, loaded>>

Join ==
  /\ Step("join", "ended")
  /\ tpc = "away"
  /\ UNCHANGED <<foreground, ticking, held, ring, counts, tone, tpc, next, loaded>>

(* LL$RESTORE_VECTORS, on every way out of a program of dos/m16.           *)
Restore ==
  /\ Step("ended", "ended")
  /\ ticking
  /\ ticking' = FALSE
  /\ UNCHANGED <<foreground, held, ring, counts, tone, tpc, next, loaded>>

(* A statement of the program, and the rest of one it has begun.           *)
Statement == Style \/ PlayNote \/ Hold \/ End

Continue ==
  \/ WaitForQueue \/ WaitForSound \/ WaitForRoom \/ Store \/ Publish
  \/ DropNotes \/ ClearQuiet \/ ClearSound \/ QuietSpeaker \/ Release
  \/ TickOff \/ Join \/ Restore
-----------------------------------------------------------------------------
(* music_tick.                                                             *)

TickStep(from, to) ==
  /\ tpc = from
  /\ tpc' = to
  /\ UNCHANGED <<program, queue, head>>

OneLess(count) == IF count = 0 THEN UINT_MAX ELSE count - 1

(* if (sound_left && --sound_left == 0)                                    *)
TestSound ==
  /\ ticking /\ ~held
  /\ TickStep("away", IF sound_left > 0 THEN "sound" ELSE "rest")
  /\ UNCHANGED <<tail, counts, tone, next, loaded>>

LoadSound ==
  /\ TickStep("sound", "less")
  /\ loaded' = sound_left
  /\ UNCHANGED <<tail, counts, tone, next>>

(* Mutant: the tone of a note counted out is left on.                      *)
CountOnly ==
  /\ TickStep("less", "rest")
  /\ sound_left' = OneLess(loaded)
  /\ UNCHANGED <<tail, quiet_left, tone, next, loaded>>

CountSound ==
  /\ TickStep("less", IF loaded = 1 THEN "hush" ELSE "rest")
  /\ sound_left' = OneLess(loaded)
  /\ UNCHANGED <<tail, quiet_left, tone, next, loaded>>

HushNote ==
  /\ TickStep("hush", "test")
  /\ tone' = 0
  /\ UNCHANGED <<tail, counts, next, loaded>>

(* else if (!sound_left && quiet_left)                                     *)
TestQuiet ==
  /\ TickStep("rest", IF sound_left = 0 /\ quiet_left > 0 THEN "quiet" ELSE "test")
  /\ UNCHANGED <<tail, counts, tone, next, loaded>>

LoadQuiet ==
  /\ TickStep("quiet", "fewer")
  /\ loaded' = quiet_left
  /\ UNCHANGED <<tail, counts, tone, next>>

CountQuiet ==
  /\ TickStep("fewer", "test")
  /\ quiet_left' = OneLess(loaded)
  /\ UNCHANGED <<tail, sound_left, tone, next, loaded>>

(* The loop's test; the tick returns when it fails.  The program stores    *)
(* nothing but 0 in the counts: tested one after another, they and the     *)
(* ring are found as they are when the last is.                            *)
TestNext ==
  /\ TickStep("test", "take")
  /\ sound_left = 0 /\ quiet_left = 0 /\ ~Empty
  /\ UNCHANGED <<tail, counts, tone, next, loaded>>

Return ==
  /\ TickStep("test", "away")
  /\ sound_left > 0 \/ quiet_left > 0 \/ Empty
  /\ UNCHANGED <<tail, counts, tone, next, loaded>>

TakeNext ==
  /\ TickStep("take", "begin")
  /\ next' = tail
  /\ UNCHANGED <<tail, counts, tone, loaded>>

BeginSound ==
  /\ TickStep("begin", "silence")
  /\ sound_left' = queue[next].sound
  /\ UNCHANGED <<tail, quiet_left, tone, next, loaded>>

BeginQuiet ==
  /\ TickStep("silence", "tone")
  /\ quiet_left' = queue[next].quiet
  /\ UNCHANGED <<tail, sound_left, tone, next, loaded>>

StartTone ==
  /\ TickStep("tone", "tail")
  /\ tone' = IF sound_left > 0 /\ queue[next].hertz > 0 THEN queue[next].hertz ELSE tone
  /\ UNCHANGED <<tail, counts, next, loaded>>

(* tail = (tail + 1) % QUEUE                                               *)
LoadTail ==
  /\ TickStep("tail", "advance")
  /\ loaded' = tail
  /\ UNCHANGED <<tail, counts, tone, next>>

Advance ==
  /\ TickStep("advance", "test")
  /\ tail' = Following(loaded)
  /\ UNCHANGED <<counts, tone, next, loaded>>

Tick ==
  \/ TestSound \/ LoadSound \/ CountSound \/ HushNote
  \/ TestQuiet \/ LoadQuiet \/ CountQuiet
  \/ TestNext \/ Return \/ TakeNext
  \/ BeginSound \/ BeginQuiet \/ StartTone \/ LoadTail \/ Advance
-----------------------------------------------------------------------------
Next == Statement \/ Continue \/ Tick

(* The clock ticks 18.2 times a second for as long as it is on, and an     *)
(* interrupt returns to the program it came from.                          *)
Fairness == WF_vars(Tick) /\ SF_vars(Continue)

Spec == Init /\ [][Next]_vars /\ Fairness
-----------------------------------------------------------------------------
TypeOK ==
  /\ pc \in {"idle", "queue", "sound", "room", "store", "publish", "drop", "calm",
             "still", "hush", "release", "off", "join", "ended"}
  /\ foreground \in BOOLEAN
  /\ queue \in [Places -> Notes \cup {Blank}]
  /\ head \in Places /\ tail \in Places /\ next \in Places
  /\ sound_left \in Nat /\ quiet_left \in Nat
  /\ tone \in Nat /\ loaded \in Nat
  /\ ticking \in BOOLEAN /\ held \in BOOLEAN
  /\ tpc \in {"away", "sound", "less", "hush", "rest", "quiet", "fewer", "test",
              "take", "begin", "silence", "tone", "tail", "advance"}

(* A speaker that sounds has a note counted out for it: no tone is left on *)
(* by a tick that came between two steps of the program.                   *)
ToneIsCounted ==
  (tpc = "away" /\ pc # "hush" /\ tone # 0) => sound_left > 0

(* The program has ended: what is queued is not played, and the speaker is *)
(* quiet (music_stop's comment), whatever the tick was doing meanwhile.    *)
QuietAfterEnd == pc = "ended" => tone = 0

(* play.c:145: in the foreground a note waits for the queue ahead of it    *)
(* and for the note sounding: it joins an empty queue, and nothing sounds  *)
(* when it does, though ticks came between the two tests of the wait.      *)
ForegroundWaits ==
  [][head' # head /\ foreground => Empty /\ sound_left = 0 /\ tone = 0]_vars

(* A statement comes to its end: a wait for the queue, for the note        *)
(* sounding or for room is over when the tick has played enough.           *)
StatementsEnd == pc # "idle" ~> pc \in {"idle", "ended"}

(* The ring, the counts and the speaker do what Music says.  A note begins *)
(* when the tick has set its counts and started its tone.                  *)
Held ==
  LET gone == IF tpc \in {"tail", "advance"} THEN Following(tail) ELSE tail
      many == IF head >= gone THEN head - gone ELSE head + QUEUE - gone
  IN  [n \in 1 .. many |->
         queue[IF gone + n - 1 < QUEUE THEN gone + n - 1 ELSE gone + n - 1 - QUEUE]]

Lasts ==
  \/ tone # 0
  \/ tpc \notin {"silence", "tone"} /\ (sound_left > 0 \/ quiet_left > 0)

Ring == INSTANCE Music WITH
          Capacity <- QUEUE - 1, waiting <- Held, lasts <- Lasts,
          silencing <- (pc = "drop")

PlaysInOrder == Ring!MusicSpec

=============================================================================
