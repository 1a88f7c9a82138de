----------------------------- MODULE TrapsProofs ------------------------------
(***************************************************************************)
(* Event traps, each with a handler of its own, proved for any keys, any   *)
(* order of `traps`, any day and any bounds: a trap's `running` says       *)
(* whether its handler is on the stack, and INKEY$ reads no trapped key.   *)
(*                                                                         *)
(* That B$EVDN clears the right flag depends on what the stack looks like: *)
(* handlers are called by dispatchers only, and dispatchers by the module  *)
(* or a handler; the number a handler was called by is its trap's, and the *)
(* trap keeps that number while it runs.  `StackIs` and `Flags` say so.    *)
(***************************************************************************)
EXTENDS Traps, SequenceTheorems, FiniteSetTheorems, WellFoundedInduction, TLAPS

(* Each trap has a handler of its own, which it keeps while it runs.       *)
OwnHandlers ==
  /\ ~Rebinds
  /\ \A s, t \in Traps : HandlerOf[s] = HandlerOf[t] => s = t

Trap ==
  [handler : Nat, state : {"OFF", "ON", "STOP"}, due : BOOLEAN, running : BOOLEAN,
   number : Nat, next : 0 .. DAY - 1, last : 0 .. MaxNotes]

Ats == {"check", "statement", "hook", "ready", "again", "read", "wait", "poll", "take"}
Frame == [at : Ats \cup {"ask"}, handler : Nat, trap : Traps \cup {None}]

(* The module is at the bottom; above it dispatchers ("ask") and handlers  *)
(* take turns.                                                             *)
StackIs(st) ==
  /\ st \in Seq(Frame)
  /\ Len(st) > 0
  /\ st[1].at # "ask" /\ st[1].handler = 0 /\ st[1].trap = None
  /\ \A i \in 2 .. Len(st) :
       IF st[i].at = "ask" THEN st[i].trap = None
       ELSE st[i].trap \in Traps /\ st[i].handler = HandlerOf[st[i].trap]
  /\ \A i \in 2 .. Len(st) : st[i - 1].at = "ask" <=> st[i].at # "ask"

(* No trap's handler is called twice, and those called are those running,  *)
(* by the number they have.                                                *)
Flags(st, ts) ==
  /\ \A i, j \in 1 .. Len(st) : st[i].trap = st[j].trap /\ st[i].trap # None => i = j
  /\ \A t \in Traps :
       /\ ts[t].running <=> \E i \in 1 .. Len(st) : st[i].trap = t
       /\ ts[t].running => ts[t].handler = HandlerOf[t]

Registered(ts) == \A t \in Traps : ts[t].handler \in {0, HandlerOf[t]}

Machinery ==
  /\ clock \in 0 .. DAY - 1 /\ waiting \in 0 .. MaxNotes
  /\ typed \in Seq(Keys \cup {Plain}) /\ Len(typed) <= MaxTyped

(* INKEY$ reads a key that is there and no trap's.                         *)
Reading ==
  /\ Top.at \in {"again", "read"} => typed # <<>>
  /\ Top.at = "read" => ~Trapped(traps, typed[1])

Inv ==
  /\ traps \in [Traps -> Trap] /\ Registered(traps)
  /\ StackIs(stack) /\ Flags(stack, traps)
  /\ Machinery
  /\ Reading
-----------------------------------------------------------------------------
LEMMA HandlerFacts ==
  /\ None \notin Traps
  /\ HandlerOf \in [Traps -> Nat \ {0}]
  /\ \A t \in Traps : HandlerOf[t] \in Handlers
  /\ DAY \in Nat /\ DAY > 0 /\ MaxNotes \in Nat /\ MaxTyped \in Nat /\ Notes \in Nat
  /\ Seconds \subseteq Nat /\ Handlers \subseteq Nat
  /\ Timer \in Traps /\ Play \in Traps /\ Timer # Play /\ Keys \subseteq Traps
BY TrapsAssumption DEF Handlers, Traps

(* The least of numbers.                                                   *)
LEMMA MinOf ==
  ASSUME NEW S \in SUBSET Nat, S # {}
  PROVE  Min(S) \in S /\ \A y \in S : Min(S) <= y
<1>1. PICK x \in S : \A y \in S : ~(<<y, x>> \in OpToRel(<, Nat))
  BY NatLessThanWellFounded, WFMin, Zenon
<1>2. ASSUME NEW y \in S PROVE x <= y
  <2>1. <<y, x>> \in Nat \X Nat /\ <<y, x>>[1] = y /\ <<y, x>>[2] = x
    OBVIOUS
  <2>2. y < x => <<y, x>> \in OpToRel(<, Nat)
    BY <2>1 DEF OpToRel
  <2>3. ~(y < x)
    BY <1>1, <2>2, Zenon
  <2>4. x \in Nat /\ y \in Nat
    OBVIOUS
  <2> QED
    BY <2>3, <2>4, SMT
<1> QED
  BY <1>2 DEF Min
-----------------------------------------------------------------------------
(* The stack.                                                              *)

(* The frame at the top goes to its next step.                             *)
LEMMA StackStays ==
  ASSUME NEW st, StackIs(st), st[Len(st)].at # "ask", NEW at \in Ats
  PROVE  LET to == [st EXCEPT ![Len(st)].at = at]
         IN  /\ StackIs(to) /\ Len(to) = Len(st) /\ to[Len(st)].at = at
             /\ \A i \in 1 .. Len(st) : to[i].trap = st[i].trap
<1> DEFINE n == Len(st)
           e == [st[n] EXCEPT !.at = at]
           to == [st EXCEPT ![n] = e]
<1>1. n \in Nat \ {0} /\ st \in [1 .. n -> Frame] /\ n \in 1 .. n
  BY LenProperties DEF StackIs
<1>2. e \in Frame /\ e.at = at /\ e.trap = st[n].trap /\ e.handler = st[n].handler
  BY <1>1 DEF Frame
<1>3. /\ to \in Seq(Frame) /\ Len(to) = n
      /\ \A j \in 1 .. n : to[j] = IF j = n THEN e ELSE st[j]
  BY <1>1, <1>2, ExceptSeq DEF StackIs
<1>4. to = [st EXCEPT ![Len(st)].at = at]
  BY <1>1
<1>5. at # "ask"
  BY DEF Ats
<1> HIDE DEF e, to
<1>6. \A i \in 1 .. n : to[i].trap = st[i].trap /\ to[i].handler = st[i].handler
                         /\ (to[i].at = "ask" <=> st[i].at = "ask")
  BY <1>1, <1>2, <1>3, <1>5
<1>7. \A i \in 2 .. n : i \in 1 .. n /\ i - 1 \in 1 .. n
  BY <1>1
<1>8. to[1].at # "ask" /\ to[1].handler = 0 /\ to[1].trap = None
  BY <1>1, <1>6 DEF StackIs
<1>9. ASSUME NEW i \in 2 .. n
      PROVE  /\ IF to[i].at = "ask" THEN to[i].trap = None
                ELSE to[i].trap \in Traps /\ to[i].handler = HandlerOf[to[i].trap]
             /\ to[i - 1].at = "ask" <=> to[i].at # "ask"
  BY <1>6, <1>7 DEF StackIs
<1>10. StackIs(to)
  BY <1>1, <1>3, <1>8, <1>9 DEF StackIs
<1> QED
  BY <1>1, <1>2, <1>3, <1>4, <1>6, <1>10

(* A dispatcher, or of a dispatcher a handler, is called.                  *)
LEMMA StackGrows ==
  ASSUME NEW st, StackIs(st), NEW f \in Frame,
         f.at = "ask" <=> st[Len(st)].at # "ask",
         IF f.at = "ask" THEN f.trap = None
         ELSE f.trap \in Traps /\ f.handler = HandlerOf[f.trap]
  PROVE  LET to == Append(st, f)
         IN  /\ StackIs(to) /\ Len(to) = Len(st) + 1
             /\ \A i \in 1 .. Len(st) : to[i] = st[i]
             /\ to[Len(st) + 1] = f
<1> DEFINE n == Len(st)
           to == Append(st, f)
<1>1. n \in Nat \ {0}
  BY LenProperties DEF StackIs
<1>2. /\ to \in Seq(Frame) /\ Len(to) = n + 1
      /\ \A i \in 1 .. n : to[i] = st[i]
      /\ to[n + 1] = f
  BY AppendProperties DEF StackIs
<1> HIDE DEF to
<1>3. to[1] = st[1]
  BY <1>1, <1>2
<1>4. ASSUME NEW i \in 2 .. Len(to)
      PROVE  /\ IF to[i].at = "ask" THEN to[i].trap = None
                ELSE to[i].trap \in Traps /\ to[i].handler = HandlerOf[to[i].trap]
             /\ to[i - 1].at = "ask" <=> to[i].at # "ask"
  <2>1. i - 1 \in 1 .. n /\ to[i - 1] = st[i - 1]
    BY <1>1, <1>2
  <2>2. CASE i = n + 1
    BY <1>1, <1>2, <2>1, <2>2
  <2>3. CASE i \in 2 .. n
    BY <1>1, <1>2, <2>1, <2>3 DEF StackIs
  <2> QED
    BY <1>1, <1>2, <2>2, <2>3
<1> QED
  BY <1>1, <1>2, <1>3, <1>4 DEF StackIs

(* The top frame returns, and the one below it goes on: a dispatcher with  *)
(* the next handler, the module or a handler with its statement.           *)
LEMMA StackShrinks ==
  ASSUME NEW st, StackIs(st), Len(st) > 1, NEW e \in Frame,
         e.trap = st[Len(st) - 1].trap,
         e.at = "ask" <=> st[Len(st) - 1].at = "ask",
         e.at # "ask" => e.handler = st[Len(st) - 1].handler
  PROVE  LET to == [Front(st) EXCEPT ![Len(st) - 1] = e]
         IN  /\ StackIs(to) /\ Len(to) = Len(st) - 1
             /\ \A i \in 1 .. Len(st) - 1 : to[i].trap = st[i].trap
             /\ to[Len(st) - 1] = e
<1> DEFINE n == Len(st)
           front == Front(st)
           to == [front EXCEPT ![n - 1] = e]
<1>1. n \in Nat /\ n > 1 /\ st \in [1 .. n -> Frame]
  BY LenProperties DEF StackIs
<1>2. /\ front \in Seq(Frame) /\ Len(front) = n - 1
      /\ \A i \in 1 .. n - 1 : front[i] = st[i]
  BY <1>1, SubSeqProperties DEF Front
<1>3. to = [Front(st) EXCEPT ![Len(st) - 1] = e]
  OBVIOUS
<1> HIDE DEF front
<1>4. n - 1 \in 1 .. Len(front)
  BY <1>1, <1>2
<1>5. /\ to \in Seq(Frame) /\ Len(to) = n - 1
      /\ \A j \in 1 .. n - 1 : to[j] = IF j = n - 1 THEN e ELSE front[j]
  BY <1>2, <1>4, ExceptSeq
<1> HIDE DEF to
<1>6. \A i \in 1 .. n - 1 :
        /\ to[i].trap = st[i].trap
        /\ to[i].at = "ask" <=> st[i].at = "ask"
        /\ to[i].at # "ask" => to[i].handler = st[i].handler
  BY <1>1, <1>2, <1>5
<1>7. \A i \in 2 .. n - 1 : i \in 1 .. n - 1 /\ i - 1 \in 1 .. n - 1 /\ i \in 2 .. n
  BY <1>1
<1>8. 1 \in 1 .. n - 1 /\ n - 1 \in 1 .. n - 1 /\ n - 1 > 0
  BY <1>1
<1>9. to[n - 1] = e
  BY <1>5, <1>8
<1>10. to[1].at # "ask" /\ to[1].handler = 0 /\ to[1].trap = None
  BY <1>6, <1>8 DEF StackIs
<1>11. ASSUME NEW i \in 2 .. n - 1
       PROVE  /\ IF to[i].at = "ask" THEN to[i].trap = None
                 ELSE to[i].trap \in Traps /\ to[i].handler = HandlerOf[to[i].trap]
              /\ to[i - 1].at = "ask" <=> to[i].at # "ask"
  BY <1>6, <1>7 DEF StackIs
<1>12. StackIs(to)
  BY <1>5, <1>8, <1>10, <1>11 DEF StackIs
<1> QED
  BY <1>3, <1>5, <1>6, <1>9, <1>12

(* Who is at the top, and that a dispatcher or a handler has one below.    *)
LEMMA TopFacts ==
  ASSUME NEW st, StackIs(st)
  PROVE  /\ Len(st) \in Nat \ {0} /\ st[Len(st)] \in Frame
         /\ st[Len(st)].at # "ask" /\ st[Len(st)].handler # 0 =>
              /\ Len(st) > 1 /\ st[Len(st)].trap \in Traps
              /\ st[Len(st)].handler = HandlerOf[st[Len(st)].trap]
              /\ st[Len(st) - 1].at = "ask" /\ st[Len(st) - 1] \in Frame
         /\ st[Len(st)].at = "ask" =>
              /\ Len(st) > 1 /\ st[Len(st)].trap = None
              /\ st[Len(st) - 1].at # "ask" /\ st[Len(st) - 1] \in Frame
<1>1. Len(st) \in Nat \ {0} /\ st \in [1 .. Len(st) -> Frame]
  BY LenProperties DEF StackIs
<1> QED
  BY <1>1 DEF StackIs
-----------------------------------------------------------------------------
(* The traps.                                                              *)

Same(ts, us) ==
  \A t \in Traps : /\ us[t].running = ts[t].running
                   /\ us[t].handler = ts[t].handler
                   /\ us[t].state = ts[t].state

LEMMA TypedFacts ==
  ASSUME Machinery
  PROVE  /\ typed \in [1 .. Len(typed) -> Keys \cup {Plain}] /\ Len(typed) \in Nat
         /\ DOMAIN typed = 1 .. Len(typed)
         /\ typed # <<>> <=> Len(typed) > 0
BY LenProperties, EmptySeq DEF Machinery

(* What is taken is at the front of the buffer; where nothing is, the next *)
(* key, if there is one, is no trap's.                                     *)
LEMMA TakenFacts ==
  ASSUME NEW ts, Machinery
  PROVE  /\ Taken(ts) \in 0 .. Len(typed)
         /\ Taken(ts) = 0 /\ typed # <<>> => ~Trapped(ts, typed[1])
<1> DEFINE plain == {i \in DOMAIN typed : ~Trapped(ts, typed[i])}
<1>1. plain \in SUBSET Nat /\ plain \subseteq 1 .. Len(typed) /\ Len(typed) \in Nat
  BY TypedFacts
<1>2. CASE plain = {}
  BY <1>1, <1>2, TypedFacts DEF Taken
<1>3. CASE plain # {}
  <2>1. Min(plain) \in plain
    BY <1>1, <1>3, MinOf
  <2>2. Taken(ts) = Min(plain) - 1
    BY <1>3 DEF Taken
  <2>3. Min(plain) \in 1 .. Len(typed) /\ ~Trapped(ts, typed[Min(plain)])
    BY <1>1, <2>1
  <2> QED
    BY <1>1, <2>2, <2>3
<1> QED
  BY <1>2, <1>3

LEMMA RestTyped ==
  ASSUME Machinery, NEW n \in 0 .. Len(typed)
  PROVE  /\ SubSeq(typed, n + 1, Len(typed)) \in Seq(Keys \cup {Plain})
         /\ Len(SubSeq(typed, n + 1, Len(typed))) <= MaxTyped
         /\ n = 0 => SubSeq(typed, n + 1, Len(typed)) = typed
<1>1. Len(typed) \in Nat /\ n \in Int /\ MaxTyped \in Nat /\ Len(typed) <= MaxTyped
  BY TypedFacts, HandlerFacts DEF Machinery
<1>2. \A i \in n + 1 .. Len(typed) : typed[i] \in Keys \cup {Plain}
  BY <1>1, TypedFacts
<1>3. /\ SubSeq(typed, n + 1, Len(typed)) \in Seq(Keys \cup {Plain})
      /\ Len(SubSeq(typed, n + 1, Len(typed)))
           = IF n + 1 <= Len(typed) THEN Len(typed) - (n + 1) + 1 ELSE 0
  BY <1>1, <1>2, SubSeqProperties
<1>4. n = 0 => SubSeq(typed, n + 1, Len(typed)) = typed
  BY SubSeqFull DEF Machinery
<1> QED
  BY <1>1, <1>3, <1>4

LEMMA WithKeysTraps ==
  ASSUME NEW ts \in [Traps -> Trap]
  PROVE  WithKeys(ts) \in [Traps -> Trap] /\ Same(ts, WithKeys(ts))
BY DEF WithKeys, Trap, Same

LEMMA InDay ==
  ASSUME NEW n \in Nat
  PROVE  n % DAY \in 0 .. DAY - 1
BY HandlerFacts

LEMMA SeenTraps ==
  ASSUME traps \in [Traps -> Trap], Machinery
  PROVE  Seen \in [Traps -> Trap] /\ Same(traps, Seen)
<1>1. clock + traps[Timer].number \in Nat
  BY HandlerFacts DEF Machinery, Trap
<1>2. (clock + traps[Timer].number) % DAY \in 0 .. DAY - 1
  BY <1>1, InDay
<1>3. waiting \in 0 .. MaxNotes
  BY DEF Machinery
<1> QED
  BY <1>2, <1>3 DEF Seen, Trap, Same
-----------------------------------------------------------------------------
(* The flags follow the stack.                                             *)

(* A step that calls nothing and returns from nothing.                     *)
LEMMA FlagsStay ==
  ASSUME NEW st, NEW to, NEW ts, NEW us, Flags(st, ts), Len(to) = Len(st),
         \A i \in 1 .. Len(st) : to[i].trap = st[i].trap,
         \A t \in Traps : /\ us[t].running = ts[t].running
                          /\ ts[t].running => us[t].handler = ts[t].handler
  PROVE  Flags(to, us)
BY DEF Flags

LEMMA FlagsDispatch ==
  ASSUME NEW st, NEW to, NEW ts, NEW us, Flags(st, ts), Len(st) \in Nat,
         Len(to) = Len(st) + 1, to[Len(st) + 1].trap = None,
         \A i \in 1 .. Len(st) : to[i] = st[i],
         Same(ts, us)
  PROVE  Flags(to, us)
<1>1. \A i \in 1 .. Len(to) : i \in 1 .. Len(st) \/ (i = Len(st) + 1)
  OBVIOUS
<1>2. \A i \in 1 .. Len(to) : to[i].trap # None => i \in 1 .. Len(st) /\ to[i].trap = st[i].trap
  BY <1>1
<1>3. \A i \in 1 .. Len(st) : i \in 1 .. Len(to) /\ to[i].trap = st[i].trap
  OBVIOUS
<1>4. \A i, j \in 1 .. Len(to) : to[i].trap = to[j].trap /\ to[i].trap # None => i = j
  BY <1>2, Zenon DEF Flags
<1>5. ASSUME NEW s \in Traps
      PROVE  (\E i \in 1 .. Len(to) : to[i].trap = s) <=> \E i \in 1 .. Len(st) : st[i].trap = s
  <2>1. s # None
    BY HandlerFacts
  <2> QED
    BY <1>2, <1>3, <2>1, Zenon
<1> QED
  BY <1>4, <1>5, Zenon DEF Flags, Same

LEMMA FlagsCall ==
  ASSUME NEW st, NEW to, NEW ts \in [Traps -> Trap], NEW t \in Traps,
         Flags(st, ts), Len(st) \in Nat, Len(to) = Len(st) + 1,
         to[Len(st) + 1].trap = t,
         \A i \in 1 .. Len(st) : to[i] = st[i],
         ~ts[t].running, ts[t].handler = HandlerOf[t]
  PROVE  Flags(to, [ts EXCEPT ![t].due = FALSE, ![t].running = TRUE])
<1> DEFINE us == [ts EXCEPT ![t].due = FALSE, ![t].running = TRUE]
<1>1. \A s \in Traps : /\ s # t => us[s] = ts[s]
                       /\ s = t => us[s].running /\ us[s].handler = HandlerOf[t]
  BY DEF Trap
<1> HIDE DEF us
<1>2. \A i \in 1 .. Len(to) : i \in 1 .. Len(st) \/ (i = Len(st) + 1)
  OBVIOUS
<1>3. \A i \in 1 .. Len(st) : i \in 1 .. Len(to) /\ st[i].trap # t
  BY DEF Flags
<1>4. Len(st) + 1 \in 1 .. Len(to)
  OBVIOUS
<1>5. \A i, j \in 1 .. Len(to) : to[i].trap = to[j].trap /\ to[i].trap # None => i = j
  BY <1>2, <1>3 DEF Flags
<1>6. ASSUME NEW s \in Traps
      PROVE  /\ us[s].running <=> \E i \in 1 .. Len(to) : to[i].trap = s
             /\ us[s].running => us[s].handler = HandlerOf[s]
  <2>1. CASE s = t
    BY <1>1, <1>4, <2>1
  <2>2. CASE s # t
    <3>1. (\E i \in 1 .. Len(to) : to[i].trap = s) <=> \E i \in 1 .. Len(st) : st[i].trap = s
      <4>1. \A i \in 1 .. Len(to) : to[i].trap = s => i \in 1 .. Len(st) /\ st[i].trap = s
        BY <1>2, <2>2
      <4>2. \A i \in 1 .. Len(st) : i \in 1 .. Len(to) /\ to[i].trap = st[i].trap
        BY <1>3
      <4> QED
        BY <4>1, <4>2, Zenon
    <3>2. us[s] = ts[s]
      BY <1>1, <2>2
    <3> QED
      BY <3>1, <3>2, Zenon DEF Flags
  <2> QED
    BY <2>1, <2>2
<1>7. Flags(to, us)
  BY <1>5, <1>6 DEF Flags
<1> QED
  BY <1>7 DEF us

LEMMA FlagsReturn ==
  ASSUME OwnHandlers, NEW st, NEW to, NEW ts \in [Traps -> Trap], Flags(st, ts),
         Registered(ts), Len(st) \in Nat, Len(st) > 1, Len(to) = Len(st) - 1,
         \A i \in 1 .. Len(st) - 1 : to[i].trap = st[i].trap,
         NEW t \in Traps, st[Len(st)].trap = t
  PROVE  /\ Done(ts, HandlerOf[t]) \in [Traps -> Trap]
         /\ Registered(Done(ts, HandlerOf[t]))
         /\ Flags(to, Done(ts, HandlerOf[t]))
<1> DEFINE us == Done(ts, HandlerOf[t])
<1>1. ts[t].running /\ ts[t].handler = HandlerOf[t]
  BY DEF Flags
<1>2. \A s \in Traps : ts[s].handler = HandlerOf[t] <=> s = t
  BY <1>1, HandlerFacts DEF Registered, OwnHandlers
<1>3. /\ us \in [Traps -> Trap]
      /\ \A s \in Traps : /\ us[s].handler = ts[s].handler
                          /\ s # t => us[s] = ts[s]
                          /\ s = t => ~us[s].running
  BY <1>2 DEF Done, Trap
<1> HIDE DEF us
<1>4. \A i \in 1 .. Len(to) : i \in 1 .. Len(st) /\ i # Len(st)
  OBVIOUS
<1>5. \A i \in 1 .. Len(st) : i \in 1 .. Len(to) \/ i = Len(st)
  OBVIOUS
<1>6. \A i \in 1 .. Len(to) : to[i].trap = st[i].trap /\ st[i].trap # t
  <2>1. Len(st) \in 1 .. Len(st) /\ t # None
    BY HandlerFacts
  <2>2. \A i \in 1 .. Len(st) : st[i].trap = t => i = Len(st)
    BY <2>1, Zenon DEF Flags
  <2>3. \A i \in 1 .. Len(to) : to[i].trap = st[i].trap
    OBVIOUS
  <2> QED
    BY <1>4, <2>2, <2>3
<1>7. \A i, j \in 1 .. Len(to) : to[i].trap = to[j].trap /\ to[i].trap # None => i = j
  BY <1>4, <1>6 DEF Flags
<1>8. ASSUME NEW s \in Traps
      PROVE  /\ us[s].running <=> \E i \in 1 .. Len(to) : to[i].trap = s
             /\ us[s].running => us[s].handler = HandlerOf[s]
  <2>1. CASE s = t
    BY <1>3, <1>6, <2>1
  <2>2. CASE s # t
    <3>1. (\E i \in 1 .. Len(to) : to[i].trap = s) <=> \E i \in 1 .. Len(st) : st[i].trap = s
      <4>1. \A i \in 1 .. Len(st) : st[i].trap = s => i \in 1 .. Len(to)
        BY <1>5, <2>2
      <4> QED
        BY <1>4, <1>6, <4>1, Zenon
    <3>2. us[s] = ts[s]
      BY <1>3, <2>2
    <3>3. /\ ts[s].running <=> \E i \in 1 .. Len(st) : st[i].trap = s
          /\ ts[s].running => ts[s].handler = HandlerOf[s]
      BY Zenon DEF Flags
    <3>4. us[s].running <=> \E i \in 1 .. Len(to) : to[i].trap = s
      BY <3>1, <3>2, <3>3, Zenon
    <3>5. us[s].running => us[s].handler = HandlerOf[s]
      BY <3>2, <3>3, Zenon
    <3> QED
      BY <3>4, <3>5
  <2> QED
    BY <2>1, <2>2
<1>9. Flags(to, us) /\ Registered(us)
  BY <1>3, <1>7, <1>8 DEF Flags, Registered
<1> QED
  BY <1>3, <1>9 DEF us

(* The dispatcher at the top goes on with the next handler.                *)
LEMMA StackAsks ==
  ASSUME NEW st, StackIs(st), st[Len(st)].at = "ask",
         NEW e \in Frame, e.at = "ask", e.trap = None
  PROVE  LET to == [st EXCEPT ![Len(st)] = e]
         IN  /\ StackIs(to) /\ Len(to) = Len(st) /\ to[Len(st)] = e
             /\ \A i \in 1 .. Len(st) : to[i].trap = st[i].trap
<1> DEFINE n == Len(st)
           to == [st EXCEPT ![n] = e]
<1>1. n \in Nat \ {0} /\ st \in [1 .. n -> Frame] /\ n \in 1 .. n /\ n # 1
      /\ st[n].trap = None
  BY LenProperties DEF StackIs
<1>2. /\ to \in Seq(Frame) /\ Len(to) = n
      /\ \A j \in 1 .. n : to[j] = IF j = n THEN e ELSE st[j]
  BY <1>1, ExceptSeq DEF StackIs
<1> HIDE DEF to
<1>3. \A i \in 1 .. n : /\ to[i].trap = st[i].trap
                        /\ to[i].at = "ask" <=> st[i].at = "ask"
                        /\ to[i].at # "ask" => to[i].handler = st[i].handler
  BY <1>1, <1>2
<1>4. \A i \in 2 .. n : i \in 1 .. n /\ i - 1 \in 1 .. n
  BY <1>1
<1>5. to[1] = st[1]
  BY <1>1, <1>2
<1>6. ASSUME NEW i \in 2 .. n
      PROVE  /\ IF to[i].at = "ask" THEN to[i].trap = None
                ELSE to[i].trap \in Traps /\ to[i].handler = HandlerOf[to[i].trap]
             /\ to[i - 1].at = "ask" <=> to[i].at # "ask"
  BY <1>3, <1>4 DEF StackIs
<1>7. StackIs(to)
  BY <1>1, <1>2, <1>5, <1>6 DEF StackIs
<1> QED
  BY <1>1, <1>2, <1>3, <1>7 DEF to

LEMMA FrontBelow ==
  ASSUME NEW st, StackIs(st), Len(st) > 1
  PROVE  Front(st)[Len(st) - 1] = st[Len(st) - 1]
<1>1. Len(st) \in Nat /\ st \in [1 .. Len(st) -> Frame]
  BY LenProperties DEF StackIs
<1>2. \A i \in 1 .. Len(st) - 1 : Front(st)[i] = st[i]
  BY <1>1, SubSeqProperties DEF Front
<1>3. Len(st) - 1 \in 1 .. Len(st) - 1
  BY <1>1
<1> QED
  BY <1>2, <1>3

LEMMA FlagsDispatched ==
  ASSUME NEW st, NEW to, NEW ts, Flags(st, ts), Len(st) \in Nat, Len(st) > 1,
         Len(to) = Len(st) - 1, st[Len(st)].trap = None,
         \A i \in 1 .. Len(st) - 1 : to[i].trap = st[i].trap
  PROVE  Flags(to, ts)
<1>1. \A i \in 1 .. Len(to) : i \in 1 .. Len(st) /\ to[i].trap = st[i].trap
  OBVIOUS
<1>2. \A i \in 1 .. Len(st) : st[i].trap # None => i \in 1 .. Len(to)
  OBVIOUS
<1>3. \A i, j \in 1 .. Len(to) : to[i].trap = to[j].trap /\ to[i].trap # None => i = j
  BY <1>1 DEF Flags
<1>4. ASSUME NEW s \in Traps
      PROVE  (\E i \in 1 .. Len(to) : to[i].trap = s) <=> \E i \in 1 .. Len(st) : st[i].trap = s
  <2>1. s # None
    BY HandlerFacts
  <2> QED
    BY <1>1, <1>2, <2>1, Zenon
<1> QED
  BY <1>3, <1>4, Zenon DEF Flags
-----------------------------------------------------------------------------
(* The steps.                                                              *)

LEMMA TopIs ==
  ASSUME StackIs(stack)
  PROVE  Top = stack[Len(stack)]
BY DEF Top, Last

LEMMA InitInv ==
  ASSUME Init
  PROVE  Inv
<1> DEFINE bottom == [at |-> "check", handler |-> 0, trap |-> None]
<1>1. bottom \in Frame /\ bottom.at = "check" /\ bottom.handler = 0 /\ bottom.trap = None
  BY DEF Frame, Ats
<1>2. stack = <<bottom>>
  BY DEF Init
<1> HIDE DEF bottom
<1>3. stack \in Seq(Frame) /\ Len(stack) = 1 /\ stack[1] = bottom
  BY <1>1, <1>2
<1>4. StackIs(stack)
  BY <1>1, <1>3 DEF StackIs
<1>5. traps \in [Traps -> Trap]
      /\ \A t \in Traps : traps[t].handler = 0 /\ traps[t].running = FALSE
  BY HandlerFacts DEF Init, NoTrap, Trap
<1>6. Registered(traps) /\ Flags(stack, traps)
  BY <1>1, <1>3, <1>5, HandlerFacts DEF Registered, Flags
<1>7. Machinery
  BY HandlerFacts DEF Init, Machinery
<1>8. Top.at = "check"
  BY <1>1, <1>3, <1>4, TopIs
<1> QED
  BY <1>4, <1>5, <1>6, <1>7, <1>8 DEF Inv, Reading

(* A step that goes from one place to another in the same frame and starts *)
(* and ends no handler.                                                    *)
LEMMA Goes ==
  ASSUME Inv, NEW from \in Ats, NEW to \in Ats, GoTo(from, to),
         traps' \in [Traps -> Trap],
         \A t \in Traps : /\ traps'[t].running = traps[t].running
                          /\ traps[t].running => traps'[t].handler = traps[t].handler
  PROVE  StackIs(stack') /\ Flags(stack', traps') /\ Top'.at = to
<1>1. StackIs(stack) /\ Top = stack[Len(stack)] /\ Top.at # "ask" /\ Flags(stack, traps)
  BY TopIs DEF Inv, GoTo, Ats
<1>2. stack' = [stack EXCEPT ![Len(stack)].at = to]
  BY DEF GoTo, At
<1> DEFINE next == [stack EXCEPT ![Len(stack)].at = to]
<1>3. /\ StackIs(next) /\ Len(next) = Len(stack) /\ next[Len(stack)].at = to
      /\ \A i \in 1 .. Len(stack) : next[i].trap = stack[i].trap
  BY <1>1, StackStays, Zenon
<1> HIDE DEF next
<1>4. stack' = next
  BY <1>2 DEF next
<1>5. Flags(stack', traps')
  BY <1>1, <1>3, <1>4, FlagsStay
<1>6. Top'.at = to
  BY <1>3, <1>4 DEF Top, Last
<1> QED
  BY <1>3, <1>4, <1>5, <1>6

(* The traps' own part of the invariant, when what is kept of them is the  *)
(* same.                                                                   *)
LEMMA SameRegistered ==
  ASSUME NEW ts, NEW us, Registered(ts), Same(ts, us)
  PROVE  Registered(us)
BY DEF Registered, Same

LEMMA HookInv ==
  ASSUME Inv, Hook, UNCHANGED <<named, clock, since, wait, waiting>>
  PROVE  /\ traps' \in [Traps -> Trap] /\ Same(traps, traps') /\ Registered(traps')
         /\ Machinery'
         /\ Taken(traps) = 0 => typed' = typed
<1>1. Machinery /\ traps \in [Traps -> Trap] /\ Registered(traps)
  BY DEF Inv
<1>2. traps' \in [Traps -> Trap] /\ Same(traps, traps')
  BY <1>1, WithKeysTraps DEF Hook
<1>3. Taken(traps) \in 0 .. Len(typed)
  BY <1>1, TakenFacts
<1>4. /\ typed' \in Seq(Keys \cup {Plain}) /\ Len(typed') <= MaxTyped
      /\ Taken(traps) = 0 => typed' = typed
  BY <1>1, <1>3, RestTyped DEF Hook
<1> QED
  BY <1>1, <1>2, <1>4, SameRegistered DEF Machinery

(* INKEY$'s and INPUT's steps.                                             *)
LEMMA InkeyHookInv ==
  ASSUME Inv, InkeyHook
  PROVE  Inv'
<1>1. GoTo("hook", "ready") /\ "hook" \in Ats /\ "ready" \in Ats
  BY DEF InkeyHook, Ats
<1>2. traps' \in [Traps -> Trap] /\ Same(traps, traps') /\ Registered(traps') /\ Machinery'
  BY HookInv DEF InkeyHook
<1>3. StackIs(stack') /\ Flags(stack', traps') /\ Top'.at = "ready"
  BY <1>1, <1>2, Goes DEF Same
<1> QED
  BY <1>2, <1>3 DEF Inv, Reading

LEMMA InputHookInv ==
  ASSUME Inv, InputHook
  PROVE  Inv'
<1>1. GoTo("poll", "wait") /\ "poll" \in Ats /\ "wait" \in Ats
  BY DEF InputHook, Ats
<1>2. traps' \in [Traps -> Trap] /\ Same(traps, traps') /\ Registered(traps') /\ Machinery'
  BY HookInv DEF InputHook
<1>3. StackIs(stack') /\ Flags(stack', traps') /\ Top'.at = "wait"
  BY <1>1, <1>2, Goes DEF Same
<1> QED
  BY <1>2, <1>3 DEF Inv, Reading

(* The key that is left once nothing is taken is no trap's, and stays so:  *)
(* keys that come in after it go behind it.                                *)
LEMMA InkeyAgainInv ==
  ASSUME Inv, InkeyAgain
  PROVE  Inv'
<1> DEFINE to == IF Taken(traps) > 0 THEN "hook" ELSE "read"
<1>1. GoTo("again", to) /\ "again" \in Ats /\ to \in Ats
  BY DEF InkeyAgain, Ats
<1>2. /\ traps' \in [Traps -> Trap] /\ Same(traps, traps') /\ Registered(traps') /\ Machinery'
      /\ Taken(traps) = 0 => typed' = typed
  BY HookInv DEF InkeyAgain
<1>3. StackIs(stack') /\ Flags(stack', traps') /\ Top'.at = to
  BY <1>1, <1>2, Goes DEF Same
<1>4. typed # <<>> /\ Machinery
  BY <1>1 DEF Inv, Reading, GoTo
<1>5. Taken(traps) \in Nat /\ (Taken(traps) = 0 => ~Trapped(traps, typed[1]))
  BY <1>4, TakenFacts, TypedFacts
<1>6. Trapped(traps', typed[1]) => Trapped(traps, typed[1])
  BY <1>2, HandlerFacts DEF Trapped, Same
<1>7. Reading'
  <2>1. CASE Taken(traps) > 0
    BY <1>3, <2>1 DEF Reading
  <2>2. CASE Taken(traps) = 0
    BY <1>2, <1>4, <1>5, <1>6, <2>2 DEF Reading
  <2> QED
    BY <1>5, <2>1, <2>2
<1> QED
  BY <1>2, <1>3, <1>7 DEF Inv

LEMMA InkeyReadyInv ==
  ASSUME Inv, InkeyReady
  PROVE  Inv'
<1> DEFINE to == IF typed = <<>> THEN "check" ELSE "again"
<1>1. GoTo("ready", to) /\ "ready" \in Ats /\ to \in Ats
  BY DEF InkeyReady, Ats
<1>2. UNCHANGED <<traps, machine>>
  BY DEF InkeyReady, machine
<1>3. StackIs(stack') /\ Flags(stack', traps') /\ Top'.at = to
  BY <1>1, <1>2, Goes DEF Inv
<1>4. Reading'
  BY <1>2, <1>3 DEF Reading, machine
<1> QED
  BY <1>2, <1>3, <1>4 DEF Inv, Machinery, machine

(* The key that is read goes.                                              *)
LEMMA ReadKeyInv ==
  ASSUME Inv, NEW at \in {"read", "take"}, NEW to \in {"check", "wait"}, ReadKey(at, to)
  PROVE  Inv'
<1>1. GoTo(at, to) /\ at \in Ats /\ to \in Ats /\ typed # <<>> /\ typed' = Tail(typed)
  BY DEF ReadKey, Ats
<1>2. UNCHANGED <<traps, clock, waiting>>
  BY DEF ReadKey
<1>3. StackIs(stack') /\ Flags(stack', traps') /\ Top'.at = to
  BY <1>1, <1>2, Goes DEF Inv
<1>4. typed \in Seq(Keys \cup {Plain}) /\ Len(typed) <= MaxTyped /\ Len(typed) \in Nat
  BY TypedFacts DEF Inv, Machinery
<1>5. typed' \in Seq(Keys \cup {Plain}) /\ Len(typed') <= MaxTyped
  BY <1>1, <1>4, HeadTailProperties, HandlerFacts
<1> QED
  BY <1>2, <1>3, <1>5 DEF Inv, Machinery, Reading

(* A step of a statement that changes neither the traps nor the machine.   *)
LEMMA PlainStep ==
  ASSUME Inv, NEW from \in Ats, NEW to \in Ats \ {"again", "read"}, GoTo(from, to),
         UNCHANGED <<named, traps, machine>>
  PROVE  Inv'
<1>1. StackIs(stack') /\ Flags(stack', traps') /\ Top'.at = to
  BY Goes DEF Inv
<1> QED
  BY <1>1 DEF Inv, Machinery, Reading, machine

LEMMA PlayNoteInv ==
  ASSUME Inv, PlayNote
  PROVE  Inv'
<1>1. GoTo("statement", "check") /\ "statement" \in Ats /\ "check" \in Ats
  BY DEF PlayNote, Ats
<1>2. UNCHANGED <<traps, clock, typed>> /\ waiting' = waiting + 1 /\ waiting < MaxNotes
  BY DEF PlayNote
<1>3. StackIs(stack') /\ Flags(stack', traps') /\ Top'.at = "check"
  BY <1>1, <1>2, Goes DEF Inv
<1>4. waiting' \in 0 .. MaxNotes
  BY <1>2, HandlerFacts DEF Inv, Machinery
<1> QED
  BY <1>2, <1>3, <1>4 DEF Inv, Machinery, Reading

(* A trap takes its own handler's number, and not while it runs.           *)
LEMMA OnInv ==
  ASSUME OwnHandlers, Inv,
         NEW t \in Traps, NEW handler \in {0, HandlerOf[t]}, NEW number \in Nat,
         On(t, handler, number)
  PROVE  Inv'
<1>1. GoTo("statement", "check") /\ "statement" \in Ats /\ "check" \in Ats
  BY DEF On, Ats
<1>2. UNCHANGED machine /\ ~traps[t].running
      /\ traps' = [traps EXCEPT ![t].handler = handler, ![t].number = number]
  BY DEF On, OwnHandlers
<1>3. traps \in [Traps -> Trap] /\ handler \in Nat
  BY HandlerFacts DEF Inv
<1>4. traps' \in [Traps -> Trap]
  BY <1>2, <1>3 DEF Trap
<1>5. \A s \in Traps : /\ s # t => traps'[s] = traps[s]
                       /\ traps'[t].handler = handler /\ traps'[t].running = traps[t].running
  BY <1>2, <1>3 DEF Trap
<1>6. Registered(traps')
  BY <1>5 DEF Inv, Registered
<1>7. \A s \in Traps : /\ traps'[s].running = traps[s].running
                       /\ traps[s].running => traps'[s].handler = traps[s].handler
  BY <1>2, <1>5
<1>8. StackIs(stack') /\ Flags(stack', traps') /\ Top'.at = "check"
  BY <1>1, <1>4, <1>7, Goes
<1> QED
  BY <1>2, <1>4, <1>6, <1>8 DEF Inv, Machinery, Reading, machine

LEMMA SwitchInv ==
  ASSUME Inv, NEW t \in Traps, NEW mode \in {"ON", "OFF", "STOP"}, Switch(t, mode)
  PROVE  Inv'
<1>1. GoTo("statement", "check") /\ "statement" \in Ats /\ "check" \in Ats
  BY DEF Switch, Ats
<1>2. UNCHANGED <<clock, waiting, typed>> /\ traps' = [traps EXCEPT ![t] = Switched(t, mode)]
  BY DEF Switch
<1>3. traps \in [Traps -> Trap] /\ Machinery /\ Registered(traps)
  BY DEF Inv
<1>4. clock + traps[t].number \in Nat
  <2>1. traps[t].number \in Nat
    BY <1>3 DEF Trap
  <2>2. clock \in Nat
    BY <1>3, HandlerFacts DEF Machinery
  <2> QED
    BY <2>1, <2>2
<1>5. (clock + traps[t].number) % DAY \in 0 .. DAY - 1 /\ waiting \in 0 .. MaxNotes
  BY <1>3, <1>4, InDay DEF Machinery
<1>6. /\ Switched(t, mode) \in Trap
      /\ Switched(t, mode).running = traps[t].running
      /\ Switched(t, mode).handler = traps[t].handler
  BY <1>3, <1>5 DEF Switched, Trap
<1>7. traps' \in [Traps -> Trap]
  BY <1>2, <1>3, <1>6
<1>8. \A s \in Traps : /\ traps'[s].running = traps[s].running
                       /\ traps'[s].handler = traps[s].handler
  BY <1>2, <1>3, <1>6
<1>9. StackIs(stack') /\ Flags(stack', traps') /\ Top'.at = "check"
  BY <1>1, <1>7, <1>8, Goes
<1>10. Registered(traps')
  BY <1>3, <1>8 DEF Registered
<1> QED
  BY <1>2, <1>3, <1>7, <1>9, <1>10 DEF Inv, Machinery, Reading
-----------------------------------------------------------------------------
(* The machine's steps: of all the program reads they change only what     *)
(* INKEY$ is not looking at.                                               *)

LEMMA TickInv ==
  ASSUME Inv, Tick
  PROVE  Inv'
<1>1. UNCHANGED <<traps, stack, waiting, typed>> /\ clock' = (clock + 1) % DAY
  BY DEF Tick
<1>2. clock + 1 \in Nat
  BY HandlerFacts DEF Inv, Machinery
<1>3. clock' \in 0 .. DAY - 1
  BY <1>1, <1>2, InDay
<1> QED
  BY <1>1, <1>3 DEF Inv, Machinery, Reading, Top

LEMMA NoteBeginsInv ==
  ASSUME Inv, NoteBegins
  PROVE  Inv'
<1>1. UNCHANGED <<traps, stack, clock, typed>> /\ waiting > 0 /\ waiting' = waiting - 1
  BY DEF NoteBegins
<1>2. waiting' \in 0 .. MaxNotes
  BY <1>1, HandlerFacts DEF Inv, Machinery
<1> QED
  BY <1>1, <1>2 DEF Inv, Machinery, Reading, Top

LEMMA TypeInv ==
  ASSUME Inv, NEW k \in Keys \cup {Plain}, Type(k)
  PROVE  Inv'
<1>1. UNCHANGED <<traps, stack, clock, waiting>> /\ Len(typed) < MaxTyped
      /\ typed' = Append(typed, k)
  BY DEF Type
<1>2. typed \in Seq(Keys \cup {Plain}) /\ Len(typed) \in Nat
  BY TypedFacts DEF Inv, Machinery
<1>3. /\ typed' \in Seq(Keys \cup {Plain}) /\ Len(typed') = Len(typed) + 1
      /\ typed # <<>> => typed'[1] = typed[1]
  BY <1>1, <1>2, AppendProperties, EmptySeq
<1>4. Len(typed') <= MaxTyped /\ typed' # <<>>
  BY <1>1, <1>2, <1>3, HandlerFacts
<1>5. Machinery'
  BY <1>1, <1>3, <1>4 DEF Inv, Machinery
<1>6. Reading'
  BY <1>1, <1>3, <1>4 DEF Inv, Reading, Top
<1> QED
  BY <1>1, <1>5, <1>6 DEF Inv
-----------------------------------------------------------------------------
(* Dispatchers and handlers.                                               *)

(* B$EVAN: the statement runs, or a dispatcher is called above it.         *)
LEMMA CheckInv ==
  ASSUME Inv, Check
  PROVE  Inv'
<1> DEFINE now == WithKeys(Seen)
           ask == [at |-> "ask", handler |-> 1, trap |-> None]
<1>1. traps \in [Traps -> Trap] /\ Machinery /\ Registered(traps)
      /\ StackIs(stack) /\ Flags(stack, traps) /\ Len(stack) \in Nat
  BY TopFacts DEF Inv
<1>2. Seen \in [Traps -> Trap] /\ Same(traps, Seen)
  BY <1>1, SeenTraps
<1>3. now \in [Traps -> Trap] /\ Same(Seen, now)
  BY <1>2, WithKeysTraps
<1>4. Same(traps, now)
  BY <1>2, <1>3 DEF Same
<1>5. traps' \in [Traps -> Trap] /\ Same(traps, traps') /\ Registered(traps')
  BY <1>1, <1>3, <1>4, SameRegistered DEF Check
<1>6. Taken(Seen) \in 0 .. Len(typed)
  BY <1>1, TakenFacts
<1>7. Machinery'
  <2>1. typed' \in Seq(Keys \cup {Plain}) /\ Len(typed') <= MaxTyped
    BY <1>1, <1>6, RestTyped DEF Check
  <2> QED
    BY <1>1, <2>1 DEF Machinery, Check
<1>8. Top.at = "check" /\ Top = stack[Len(stack)] /\ "check" \in Ats /\ "statement" \in Ats
  BY <1>1, TopIs DEF Check, Ats
<1>9. CASE stack' = At("statement")
  <2>1. GoTo("check", "statement")
    BY <1>8, <1>9 DEF GoTo
  <2>2. StackIs(stack') /\ Flags(stack', traps') /\ Top'.at = "statement"
    BY <1>5, <1>8, <2>1, Goes DEF Same
  <2> QED
    BY <1>5, <1>7, <2>2 DEF Inv, Reading
<1>10. CASE stack' = Append(stack, ask)
  <2>1. ask \in Frame /\ ask.at = "ask" /\ ask.trap = None
    BY DEF Frame
  <2> DEFINE next == Append(stack, ask)
  <2> HIDE DEF ask
  <2>2. /\ StackIs(next) /\ Len(next) = Len(stack) + 1 /\ next[Len(stack) + 1] = ask
        /\ \A i \in 1 .. Len(stack) : next[i] = stack[i]
    BY <1>1, <1>8, <2>1, StackGrows
  <2>3. stack' = next
    BY <1>10
  <2> HIDE DEF next
  <2>4. Flags(next, traps')
    BY <1>1, <1>5, <2>1, <2>2, FlagsDispatch
  <2>5. Top'.at = "ask"
    BY <1>1, <2>1, <2>2, <2>3 DEF Top, Last
  <2> QED
    BY <1>5, <1>7, <2>2, <2>3, <2>4, <2>5 DEF Inv, Reading
<1> QED
  BY <1>9, <1>10 DEF Check

(* The trap that is asked for is there, and its number its own.            *)
LEMMA AskedFacts ==
  ASSUME NEW h \in Handlers, Registered(traps), Asked(h) # None
  PROVE  /\ Asked(h) \in Traps /\ traps[Asked(h)].handler = h /\ h = HandlerOf[Asked(h)]
         /\ ~traps[Asked(h)].running
<1> DEFINE theirs == {i \in DOMAIN TrapOrder : /\ traps[TrapOrder[i]].handler = h
                                               /\ Ready(traps[TrapOrder[i]])}
<1>1. TrapOrder \in [1 .. Len(TrapOrder) -> Traps] /\ Len(TrapOrder) \in Nat
  BY TrapsAssumption, LenProperties
<1>2. theirs \in SUBSET Nat /\ theirs # {}
  BY <1>1 DEF Asked
<1>3. Asked(h) = TrapOrder[Min(theirs)]
  BY <1>2 DEF Asked
<1>4. Min(theirs) \in theirs
  BY <1>2, MinOf
<1> DEFINE least == Min(theirs)
<1>5. /\ least \in 1 .. Len(TrapOrder) /\ traps[TrapOrder[least]].handler = h
      /\ Ready(traps[TrapOrder[least]])
  BY <1>1, <1>4
<1> HIDE DEF least
<1>6. TrapOrder[least] \in Traps
  BY <1>1, <1>5
<1>7. traps[TrapOrder[least]].handler # 0 /\ ~traps[TrapOrder[least]].running
  BY <1>5 DEF Ready
<1>8. h = HandlerOf[TrapOrder[least]]
  BY <1>5, <1>6, <1>7 DEF Registered
<1> QED
  BY <1>3, <1>5, <1>6, <1>7, <1>8 DEF least

(* B$EVPD: the next handler is asked about, or one is called.              *)
LEMMA AskInv ==
  ASSUME Inv, Ask
  PROVE  Inv'
<1>1. traps \in [Traps -> Trap] /\ Machinery /\ Registered(traps)
      /\ StackIs(stack) /\ Flags(stack, traps)
  BY DEF Inv
<1>2. /\ Top = stack[Len(stack)] /\ Top.at = "ask" /\ Top.handler \in Handlers
      /\ Len(stack) \in Nat \ {0} /\ Len(stack) > 1 /\ Top \in Frame /\ Top.trap = None
  BY <1>1, TopIs, TopFacts DEF Ask
<1>3. Machinery'
  BY <1>1 DEF Ask, machine, Machinery
<1>4. CASE Asked(Top.handler) = None
  <2> DEFINE e == [Top EXCEPT !.handler = @ + 1]
             next == [stack EXCEPT ![Len(stack)] = e]
  <2>1. stack' = next /\ traps' = traps
    BY <1>2, <1>4 DEF Ask
  <2>2. e \in Frame /\ e.at = "ask" /\ e.trap = None
    BY <1>2 DEF Frame
  <2> HIDE DEF e
  <2>3. /\ StackIs(next) /\ Len(next) = Len(stack) /\ next[Len(stack)] = e
        /\ \A i \in 1 .. Len(stack) : next[i].trap = stack[i].trap
    BY <1>1, <1>2, <2>2, StackAsks
  <2> HIDE DEF next
  <2>4. Flags(stack', traps')
    BY <1>1, <2>1, <2>3, FlagsStay
  <2>5. Top'.at = "ask"
    BY <2>1, <2>2, <2>3 DEF Top, Last
  <2> QED
    BY <1>1, <1>3, <2>1, <2>3, <2>4, <2>5 DEF Inv, Reading
<1>5. CASE Asked(Top.handler) # None
  <2> DEFINE t == Asked(Top.handler)
             f == [at |-> "check", handler |-> Top.handler, trap |-> t]
             next == Append(stack, f)
             us == [traps EXCEPT ![t].due = FALSE, ![t].running = TRUE]
  <2>1. stack' = next /\ traps' = us
    BY <1>5 DEF Ask
  <2>2. /\ t \in Traps /\ traps[t].handler = HandlerOf[t] /\ Top.handler = HandlerOf[t]
        /\ ~traps[t].running
    BY <1>1, <1>2, <1>5, AskedFacts
  <2> HIDE DEF t
  <2>3. f \in Frame /\ f.at = "check" /\ f.trap = t /\ f.handler = HandlerOf[t]
    BY <2>2, HandlerFacts DEF Frame, Ats
  <2> HIDE DEF f
  <2>4. /\ StackIs(next) /\ Len(next) = Len(stack) + 1 /\ next[Len(stack) + 1] = f
        /\ \A i \in 1 .. Len(stack) : next[i] = stack[i]
    BY <1>1, <1>2, <2>2, <2>3, StackGrows
  <2> HIDE DEF next
  <2>5. Flags(next, us)
    BY <1>1, <1>2, <2>2, <2>3, <2>4, FlagsCall
  <2>6. us \in [Traps -> Trap] /\ \A s \in Traps : us[s].handler = traps[s].handler
    BY <1>1, <2>2 DEF Trap
  <2> HIDE DEF us
  <2>7. Top'.at = "check"
    BY <1>2, <2>1, <2>3, <2>4 DEF Top, Last
  <2>8. Registered(us)
    BY <1>1, <2>6 DEF Registered
  <2> QED
    BY <1>3, <2>1, <2>4, <2>5, <2>6, <2>7, <2>8 DEF Inv, Reading
<1> QED
  BY <1>4, <1>5

(* The dispatcher returns: what it was called before goes on.              *)
LEMMA DispatchedInv ==
  ASSUME Inv, Dispatched
  PROVE  Inv'
<1> DEFINE n == Len(stack)
           e == [stack[n - 1] EXCEPT !.at = "statement"]
           next == [Front(stack) EXCEPT ![n - 1] = e]
<1>1. StackIs(stack) /\ Flags(stack, traps) /\ Top = stack[n] /\ Top.at = "ask"
  BY TopIs DEF Inv, Dispatched
<1>2. /\ n \in Nat /\ n > 1 /\ stack[n].trap = None
      /\ stack[n - 1].at # "ask" /\ stack[n - 1] \in Frame
  BY <1>1, TopFacts
<1>3. /\ e \in Frame /\ e.trap = stack[n - 1].trap /\ e.at = "statement"
      /\ e.handler = stack[n - 1].handler
  BY <1>2 DEF Frame, Ats
<1>4. stack' = next
  BY <1>1, <1>2, FrontBelow DEF Dispatched
<1> HIDE DEF e
<1>5. /\ StackIs(next) /\ Len(next) = n - 1 /\ next[n - 1] = e
      /\ \A i \in 1 .. n - 1 : next[i].trap = stack[i].trap
  BY <1>1, <1>2, <1>3, StackShrinks
<1> HIDE DEF next
<1>6. Flags(next, traps)
  BY <1>1, <1>2, <1>5, FlagsDispatched
<1>7. Top'.at = "statement"
  BY <1>3, <1>4, <1>5 DEF Top, Last
<1>8. UNCHANGED <<traps, machine>>
  BY DEF Dispatched
<1> QED
  BY <1>4, <1>5, <1>6, <1>7, <1>8 DEF Inv, Machinery, Reading, machine

(* B$EVDN: the handler that returns is its own trap's only.                *)
LEMMA ReturnInv ==
  ASSUME OwnHandlers, Inv, Return
  PROVE  Inv'
<1> DEFINE n == Len(stack)
           t == stack[n].trap
           e == [stack[n - 1] EXCEPT !.handler = @ + 1]
           next == [Front(stack) EXCEPT ![n - 1] = e]
<1>1. /\ StackIs(stack) /\ Flags(stack, traps) /\ traps \in [Traps -> Trap] /\ Registered(traps)
      /\ Top = stack[n] /\ Top.at = "statement" /\ Top.handler # 0
  BY TopIs DEF Inv, Return
<1>2. /\ n \in Nat /\ n > 1 /\ t \in Traps /\ Top.handler = HandlerOf[t]
      /\ stack[n - 1].at = "ask" /\ stack[n - 1] \in Frame
  BY <1>1, TopFacts
<1>3. e \in Frame /\ e.trap = stack[n - 1].trap /\ e.at = "ask"
  BY <1>2 DEF Frame
<1>4. stack' = next
  BY <1>1, <1>2, FrontBelow DEF Return
<1> HIDE DEF e
<1>5. /\ StackIs(next) /\ Len(next) = n - 1 /\ next[n - 1] = e
      /\ \A i \in 1 .. n - 1 : next[i].trap = stack[i].trap
  BY <1>1, <1>2, <1>3, StackShrinks
<1> HIDE DEF next, t
<1>6. stack[n].trap = t
  BY DEF t
<1>7. traps' = Done(traps, HandlerOf[t])
  BY <1>2 DEF Return
<1>8. traps' \in [Traps -> Trap] /\ Registered(traps') /\ Flags(next, traps')
  BY <1>1, <1>2, <1>5, <1>6, <1>7, FlagsReturn
<1>9. Top'.at = "ask"
  BY <1>3, <1>4, <1>5 DEF Top, Last
<1>10. UNCHANGED machine
  BY DEF Return
<1> QED
  BY <1>4, <1>5, <1>8, <1>9, <1>10 DEF Inv, Machinery, Reading, machine

LEMMA StatementInv ==
  ASSUME OwnHandlers, Inv, Statement
  PROVE  Inv'
<1>1. {"statement", "check", "hook", "wait"} \subseteq Ats
  BY DEF Ats
<1>2. ASSUME NEW t \in Traps, NEW mode \in {"ON", "OFF", "STOP"}, Switch(t, mode)
      PROVE  Inv'
  BY <1>2, SwitchInv
<1>3. ASSUME NEW handler \in {0, HandlerOf[Play]}, On(Play, handler, Notes)
      PROVE  Inv'
  BY <1>3, OnInv, HandlerFacts
<1>4. ASSUME NEW handler \in {0, HandlerOf[Timer]}, NEW number \in Seconds,
             On(Timer, handler, number)
      PROVE  Inv'
  <2>1. number \in Nat /\ Timer \in Traps
    BY HandlerFacts
  <2> QED
    BY <1>4, <2>1, OnInv
<1>5. ASSUME NEW k \in Keys, NEW handler \in {0, HandlerOf[k]}, On(k, handler, 0)
      PROVE  Inv'
  <2>1. k \in Traps
    BY HandlerFacts
  <2> QED
    BY <1>5, <2>1, OnInv
<1>6. ASSUME PlayNote
      PROVE  Inv'
  BY <1>6, PlayNoteInv
<1>7. ASSUME OtherStatement
      PROVE  Inv'
  BY <1>1, <1>7, PlainStep DEF OtherStatement
<1>8. ASSUME Inkey
      PROVE  Inv'
  BY <1>1, <1>8, PlainStep DEF Inkey
<1>9. ASSUME Input
       PROVE  Inv'
  BY <1>1, <1>9, PlainStep DEF Input
<1>10. ASSUME Return
       PROVE  Inv'
  BY <1>10, ReturnInv
<1> QED
  BY <1>2, <1>3, <1>4, <1>5, <1>6, <1>7, <1>8, <1>9, <1>10 DEF Statement

LEMMA ContinueInv ==
  ASSUME Inv, Continue
  PROVE  Inv'
<1>1. ASSUME InputReady
      PROVE  Inv'
  <2>1. {"wait", "poll", "take"} \subseteq Ats
    BY DEF Ats
  <2>2. GoTo("wait", IF typed = <<>> THEN "poll" ELSE "take")
        /\ UNCHANGED <<named, traps, machine>>
    BY <1>1 DEF InputReady
  <2> QED
    BY <2>1, <2>2, PlainStep
<1>2. ASSUME ReadKey("read", "check") \/ ReadKey("take", "wait") \/ ReadKey("take", "check")
      PROVE  Inv'
  BY <1>2, ReadKeyInv
<1> QED
  BY <1>1, <1>2, CheckInv, AskInv, DispatchedInv, InkeyHookInv, InkeyReadyInv,
     InkeyAgainInv, InputHookInv DEF Continue

LEMMA MachineInv ==
  ASSUME Inv, Machine
  PROVE  Inv'
<1>1. ASSUME NEW k \in (Keys \cap named) \cup {Plain}, Type(k)
      PROVE  Inv'
  BY <1>1, TypeInv
<1> QED
  BY <1>1, TickInv, NoteBeginsInv DEF Machine

LEMMA Stutter ==
  ASSUME Inv, UNCHANGED vars
  PROVE  Inv'
BY DEF vars, machine, Inv, Machinery, Reading, Top

THEOREM Invariant ==
  ASSUME OwnHandlers
  PROVE  Spec => []Inv
<1>1. Init => Inv
  BY InitInv
<1>2. Inv /\ [Next]_vars => Inv'
  BY StatementInv, ContinueInv, MachineInv, Stutter DEF Next
<1> QED
  BY <1>1, <1>2, PTL DEF Spec
-----------------------------------------------------------------------------
(* Every trap, the stack and the buffer keep what they can hold: the time  *)
(* the timer's event is due stays within the day, the handler is the       *)
(* trap's own or none, and there is always the module on the stack.        *)
THEOREM TypeCorrect ==
  ASSUME OwnHandlers
  PROVE  Spec => []TypeOK
<1>1. Inv => TypeOK
  <2> SUFFICES ASSUME Inv PROVE TypeOK
    OBVIOUS
  <2>1. ASSUME NEW t \in Traps
        PROVE  /\ traps[t].handler \in {0, HandlerOf[t]}
               /\ traps[t].state \in {"OFF", "ON", "STOP"}
               /\ traps[t].due \in BOOLEAN /\ traps[t].running \in BOOLEAN
               /\ traps[t].next \in 0 .. DAY - 1 /\ traps[t].last \in 0 .. MaxNotes
    <3>1. traps[t] \in Trap /\ traps[t].handler \in {0, HandlerOf[t]}
      BY DEF Inv, Registered
    <3> QED
      BY <3>1 DEF Trap
  <2>2. stack # <<>>
    BY EmptySeq DEF Inv, StackIs
  <2>3. Machinery
    BY DEF Inv
  <2> QED
    BY <2>1, <2>2, <2>3 DEF TypeOK, Machinery
<1> QED
  BY <1>1, Invariant, PTL

(* B$EVPD sets a trap's `running` and B$EVDN clears it: it says whether    *)
(* the trap's handler has been called and has not returned, and no trap's  *)
(* handler is called again while it runs, however many handlers there are  *)
(* and however they interrupt one another.                                 *)
THEOREM RunningMeansCalled ==
  ASSUME OwnHandlers
  PROVE  Spec => []RunningIsCalled
<1>1. Inv => RunningIsCalled
  <2> SUFFICES ASSUME Inv, NEW t \in Traps
               PROVE  Cardinality(Calls(t)) = IF traps[t].running THEN 1 ELSE 0
    BY DEF RunningIsCalled
  <2>1. Calls(t) = {i \in 1 .. Len(stack) : stack[i].trap = t} /\ Flags(stack, traps)
    BY LenProperties DEF Calls, Inv, StackIs
  <2>2. CASE traps[t].running
    <3>1. PICK i \in 1 .. Len(stack) : stack[i].trap = t
      BY <2>1, <2>2 DEF Flags
    <3>2. \A j \in 1 .. Len(stack) : stack[j].trap = t => j = i
      BY <2>1, <3>1, HandlerFacts, Zenon DEF Flags
    <3>3. Calls(t) = {i}
      BY <2>1, <3>1, <3>2
    <3> QED
      BY <2>2, <3>3, FS_Singleton
  <2>3. CASE ~traps[t].running
    <3>1. Calls(t) = {}
      BY <2>1, <2>3 DEF Flags
    <3> QED
      BY <2>3, <3>1, FS_EmptySet
  <2> QED
    BY <2>2, <2>3
<1> QED
  BY <1>1, Invariant, PTL

(* INKEY$ asks the hook until nothing was taken and only then reads: a     *)
(* trapped key is never what it reads, whenever keys are struck.           *)
THEOREM InkeyIsClean ==
  ASSUME OwnHandlers
  PROVE  Spec => InkeyReadsNoTrap
<1>1. Inv /\ [Next]_vars => [~ReadsTrap("read")]_vars
  <2> SUFFICES ASSUME Inv, Top.at = "read" PROVE ~Trapped(traps, Head(typed))
    BY DEF ReadsTrap
  <2>1. typed # <<>> /\ ~Trapped(traps, typed[1]) /\ typed \in Seq(Keys \cup {Plain})
    BY DEF Inv, Reading, Machinery
  <2>2. Head(typed) = typed[1]
    BY <2>1, HeadTailProperties
  <2> QED
    BY <2>1, <2>2
<1>2. Spec => [][Next]_vars
  BY DEF Spec
<1> QED
  BY <1>1, <1>2, Invariant, PTL DEF InkeyReadsNoTrap
-----------------------------------------------------------------------------
(* The timer.  Whoever's handlers the traps have, what is left of the      *)
(* timer's time is how far ahead its next event is.                        *)
TimeIs ==
  /\ wait \in Nat /\ since \in 0 .. wait
  /\ since < wait => traps[Timer].next = (clock + (wait - since)) % DAY

Timed == traps \in [Traps -> Trap] /\ Machinery /\ TimeIs

(* What is due of the timer became due in its time.                        *)
InTime ==
  traps'[Timer].due /\ ~traps[Timer].due /\ wait <= DAY \div 2 => since >= wait

LEMMA InitTimed == Init => Timed
<1> SUFFICES ASSUME Init PROVE Timed
  OBVIOUS
<1>1. NoTrap \in Trap
  BY HandlerFacts DEF NoTrap, Trap
<1>2. Machinery
  BY HandlerFacts, EmptySeq DEF Init, Machinery
<1> QED
  BY <1>1, <1>2, HandlerFacts DEF Init, Timed, TimeIs

(* A time that is at most half a day ahead is not past.                    *)
LEMMA AheadIsNotPast ==
  ASSUME NEW day \in Nat, day > 0, NEW now \in 0 .. day - 1, NEW left \in Nat,
         0 < left, left <= day \div 2
  PROVE  ~((now - ((now + left) % day) + day) % day < day \div 2)
<1>1. left < day /\ day - left < day /\ day - left >= day \div 2
  BY SMT
<1>2. CASE now + left < day
  <2>1. (now + left) % day = now + left
    BY <1>2, SMT
  <2>2. now - (now + left) + day = day - left
    BY SMT
  <2>3. (day - left) % day = day - left
    BY <1>1, SMT
  <2> QED
    BY <1>1, <2>1, <2>2, <2>3
<1>3. CASE now + left >= day
  <2>1. (now + left) % day = now + left - day
    BY <1>1, <1>3, SMT
  <2>2. now - (now + left - day) + day = 2 * day - left
    BY SMT
  <2>3. (2 * day - left) % day = day - left
    BY <1>1, SMT
  <2> QED
    BY <1>1, <2>1, <2>2, <2>3
<1> QED
  BY <1>2, <1>3, SMT

LEMMA LateIsInTime ==
  ASSUME Timed, TimerIsLate, wait <= DAY \div 2
  PROVE  since >= wait
<1> SUFFICES ASSUME since < wait PROVE FALSE
  BY DEF Timed, TimeIs
<1> DEFINE left == wait - since
<1>1. left \in Nat /\ 0 < left /\ left <= DAY \div 2
  BY HandlerFacts DEF Timed, TimeIs
<1>2. traps[Timer].next = (clock + left) % DAY /\ clock \in 0 .. DAY - 1
  BY DEF Timed, TimeIs, Machinery
<1> HIDE DEF left
<1>3. ~((clock - ((clock + left) % DAY) + DAY) % DAY < DAY \div 2)
  BY <1>1, <1>2, HandlerFacts, AheadIsNotPast
<1> QED
  BY <1>2, <1>3 DEF TimerIsLate

(* The timer is no key.                                                    *)
LEMMA KeysAreNotTimer ==
  ASSUME NEW ts \in [Traps -> Trap], Machinery
  PROVE  WithKeys(ts)[Timer] = ts[Timer]
<1> DEFINE plain == {i \in DOMAIN typed : ~Trapped(ts, typed[i])}
<1>1. ASSUME NEW i \in 1 .. Taken(ts)
      PROVE  typed[i] # Timer
  <2>1. /\ plain \in SUBSET Nat /\ Len(typed) \in Nat /\ DOMAIN typed = 1 .. Len(typed)
        /\ Taken(ts) \in 0 .. Len(typed)
    BY TypedFacts, TakenFacts
  <2>2. i \in DOMAIN typed
    BY <2>1
  <2>3. i \notin plain
    <3>1. CASE plain = {}
      BY <3>1
    <3>2. CASE plain # {}
      <4>1. Min(plain) \in plain /\ \A y \in plain : Min(plain) <= y
        BY <2>1, <3>2, MinOf
      <4>2. Taken(ts) = Min(plain) - 1
        BY <3>2 DEF Taken
      <4> DEFINE least == Min(plain)
      <4>3. least \in Nat /\ i <= least - 1
        BY <2>1, <4>1, <4>2
      <4> HIDE DEF least
      <4>4. ~(least <= i)
        BY <4>3
      <4> QED
        BY <4>1, <4>4 DEF least
    <3> QED
      BY <3>1, <3>2
  <2>4. Trapped(ts, typed[i])
    BY <2>2, <2>3
  <2> QED
    BY <2>4, TrapsAssumption DEF Trapped
<1> QED
  BY <1>1, HandlerFacts DEF WithKeys
-----------------------------------------------------------------------------
(* The steps that leave the timer's next event, and do not make it due.    *)
LEMMA NotTheTimers ==
  ASSUME Timed, traps' \in [Traps -> Trap], Machinery', UNCHANGED <<clock, since, wait>>,
         traps'[Timer].next = traps[Timer].next,
         traps'[Timer].due => traps[Timer].due
  PROVE  Timed' /\ InTime
BY DEF Timed, TimeIs, InTime

LEMMA HookTimed ==
  ASSUME Timed, Hook, UNCHANGED <<named, clock, since, wait, waiting>>
  PROVE  Timed' /\ InTime
<1>1. traps' \in [Traps -> Trap] /\ traps'[Timer] = traps[Timer]
  BY WithKeysTraps, KeysAreNotTimer DEF Hook, Timed
<1>2. Machinery'
  <2>1. typed' \in Seq(Keys \cup {Plain}) /\ Len(typed') <= MaxTyped
    BY TakenFacts, RestTyped DEF Hook, Timed
  <2> QED
    BY <2>1 DEF Machinery, Timed
<1> QED
  BY <1>1, <1>2, NotTheTimers

LEMMA SwitchTimed ==
  ASSUME Timed, NEW t \in Traps, NEW mode \in {"ON", "OFF", "STOP"}, Switch(t, mode)
  PROVE  Timed' /\ InTime
<1>1. UNCHANGED <<clock, waiting, typed>> /\ traps' = [traps EXCEPT ![t] = Switched(t, mode)]
      /\ traps \in [Traps -> Trap] /\ Machinery
  BY DEF Switch, Timed
<1>2. clock \in Nat /\ traps[t].number \in Nat /\ clock + traps[t].number \in Nat
  <2>1. traps[t].number \in Nat
    BY <1>1 DEF Trap
  <2>2. clock \in Nat
    BY <1>1, HandlerFacts DEF Machinery
  <2> QED
    BY <2>1, <2>2
<1>3. (clock + traps[t].number) % DAY \in 0 .. DAY - 1 /\ waiting \in 0 .. MaxNotes
  BY <1>1, <1>2, InDay DEF Machinery
<1>4. Switched(t, mode) \in Trap
  BY <1>1, <1>3 DEF Switched, Trap
<1>5. traps' \in [Traps -> Trap] /\ Machinery'
  BY <1>1, <1>4 DEF Machinery
<1>6. traps'[Timer].due => traps[Timer].due
  BY <1>1, HandlerFacts DEF Switched, Trap
<1>7. CASE t = Timer /\ GoesOn(t, mode)
  <2>1. since' = 0 /\ wait' = traps[t].number
    BY <1>7 DEF Switch
  <2>2. traps'[Timer].next = (clock + traps[t].number) % DAY
    BY <1>1, <1>7 DEF Switched
  <2>3. TimeIs'
    BY <1>1, <1>2, <2>1, <2>2 DEF TimeIs
  <2> QED
    BY <1>5, <1>6, <2>3 DEF Timed, InTime
<1>8. CASE ~(t = Timer /\ GoesOn(t, mode))
  <2>1. UNCHANGED <<since, wait>>
    BY <1>8 DEF Switch
  <2>2. traps'[Timer].next = traps[Timer].next
    BY <1>1, <1>8, HandlerFacts DEF Switched
  <2> QED
    BY <1>1, <1>5, <1>6, <2>1, <2>2, NotTheTimers
<1> QED
  BY <1>7, <1>8

LEMMA OnTimed ==
  ASSUME Timed, NEW t \in Traps, NEW handler \in Nat, NEW number \in Nat,
         On(t, handler, number)
  PROVE  Timed' /\ InTime
<1>1. traps' = [traps EXCEPT ![t].handler = handler, ![t].number = number]
      /\ traps \in [Traps -> Trap] /\ UNCHANGED machine
  BY DEF On, Timed
<1>2. traps' \in [Traps -> Trap]
  BY <1>1 DEF Trap
<1>3. traps'[Timer].next = traps[Timer].next /\ traps'[Timer].due = traps[Timer].due
  BY <1>1, HandlerFacts DEF Trap
<1>4. Machinery'
  BY <1>1 DEF Timed, Machinery, machine
<1> QED
  BY <1>1, <1>2, <1>3, <1>4, NotTheTimers DEF machine

LEMMA AnotherDay ==
  ASSUME NEW d \in Nat, d > 0, NEW n \in Nat
  PROVE  (d + n) % d = n % d
<1> DEFINE q == n \div d
           r == n % d
           p == (d + n) \div d
           s == (d + n) % d
<1>1. n = d * q + r /\ r \in 0 .. d - 1 /\ q \in Int
  BY Z3
<1>2. d + n = d * p + s /\ s \in 0 .. d - 1 /\ p \in Int
  BY Z3
<1> HIDE DEF q, r, p, s
<1> DEFINE k == p - q - 1
<1>3. k \in Int /\ d * k = r - s /\ r - s < d /\ r - s > -d
  BY <1>1, <1>2, Z3
<1> HIDE DEF k
<1>4. ~(k >= 1) /\ ~(k <= -1)
  <2>1. k >= 1 => d * k >= d
    BY <1>3, Z3
  <2>2. k <= -1 => d * k <= -d
    BY <1>3, Z3
  <2> QED
    BY <1>3, <2>1, <2>2, Z3
<1>5. r = s
  BY <1>1, <1>2, <1>3, <1>4, Z3
<1> QED
  BY <1>5 DEF r, s

(* The clock goes on round midnight, and what is left of the time with it. *)
LEMMA TickTimed ==
  ASSUME Timed, Tick
  PROVE  Timed' /\ InTime
<1>1. /\ UNCHANGED <<traps, wait, waiting, typed>> /\ clock' = (clock + 1) % DAY
      /\ since' = Min({since + 1, wait})
  BY DEF Tick
<1>2. /\ clock \in 0 .. DAY - 1 /\ DAY \in Nat /\ DAY > 0 /\ wait \in Nat /\ since \in 0 .. wait
      /\ since < wait => traps[Timer].next = (clock + (wait - since)) % DAY
  BY HandlerFacts DEF Timed, TimeIs, Machinery
<1>3. clock' \in 0 .. DAY - 1
  BY <1>1, <1>2, InDay
<1>4. since' = IF since < wait THEN since + 1 ELSE wait
  <2>1. since' \in {since + 1, wait} /\ \A y \in {since + 1, wait} : since' <= y
    BY <1>1, <1>2, MinOf
  <2> QED
    BY <1>2, <2>1
<1>5. ASSUME since + 1 < wait
      PROVE  (clock + (wait - since)) % DAY = (clock' + (wait - (since + 1))) % DAY
  <2> DEFINE rest == wait - (since + 1)
  <2>1. rest \in Nat /\ clock + (wait - since) = clock + 1 + rest
    BY <1>2, <1>5
  <2> HIDE DEF rest
  <2>2. CASE clock + 1 < DAY
    <3>1. clock' = clock + 1
      BY <1>1, <1>2, <2>2, SMT
    <3> QED
      BY <2>1, <3>1 DEF rest
  <2>3. CASE clock + 1 = DAY
    <3>1. clock' = 0
      BY <1>1, <1>2, <2>3, SMT
    <3>2. (DAY + rest) % DAY = rest % DAY
      BY <1>2, <2>1, AnotherDay
    <3>3. clock' + rest = rest
      BY <2>1, <3>1
    <3> QED
      BY <2>1, <2>3, <3>2, <3>3 DEF rest
  <2> QED
    BY <1>2, <2>2, <2>3
<1>6. TimeIs'
  <2>1. wait' \in Nat /\ since' \in 0 .. wait'
    BY <1>1, <1>2, <1>4
  <2>2. ASSUME since' < wait'
        PROVE  traps'[Timer].next = (clock' + (wait' - since')) % DAY
    <3>1. since + 1 < wait /\ since' = since + 1 /\ since < wait
      BY <1>1, <1>2, <1>4, <2>2
    <3>2. traps'[Timer].next = (clock + (wait - since)) % DAY
      BY <1>1, <1>2, <3>1
    <3> QED
      BY <1>1, <1>5, <3>1, <3>2
  <2> QED
    BY <2>1, <2>2 DEF TimeIs
<1> QED
  BY <1>1, <1>3, <1>6 DEF Timed, Machinery, InTime

(* B$EVAN looks: the timer's event is seen to be due.                      *)
LEMMA CheckTimed ==
  ASSUME Timed, Check
  PROVE  Timed' /\ InTime
<1>1. traps \in [Traps -> Trap] /\ Machinery /\ Seen \in [Traps -> Trap]
  BY SeenTraps DEF Timed
<1>2. traps' = WithKeys(Seen) /\ traps' \in [Traps -> Trap] /\ traps'[Timer] = Seen[Timer]
  BY <1>1, WithKeysTraps, KeysAreNotTimer DEF Check
<1>3. Machinery'
  <2>1. typed' \in Seq(Keys \cup {Plain}) /\ Len(typed') <= MaxTyped
    BY <1>1, TakenFacts, RestTyped DEF Check
  <2> QED
    BY <1>1, <2>1 DEF Machinery, Check
<1>4. CASE TimerFires
  <2>1. since' = 0 /\ wait' = traps[Timer].number /\ clock' = clock
    BY <1>4 DEF Check
  <2>2. Seen[Timer].next = (clock + traps[Timer].number) % DAY
    BY <1>1, <1>4, HandlerFacts DEF Seen, Trap
  <2>3. traps[Timer].number \in Nat /\ clock \in Nat
    BY <1>1, HandlerFacts DEF Trap, Machinery
  <2>4. TimeIs'
    BY <1>2, <2>1, <2>2, <2>3 DEF TimeIs
  <2>5. InTime
    BY <1>4, LateIsInTime DEF TimerFires, InTime
  <2> QED
    BY <1>2, <1>3, <2>4, <2>5 DEF Timed
<1>5. CASE ~TimerFires
  <2>1. Seen[Timer] = traps[Timer]
    BY <1>5, HandlerFacts DEF Seen
  <2>2. UNCHANGED <<clock, since, wait>>
    BY <1>5 DEF Check
  <2> QED
    BY <1>2, <1>3, <2>1, <2>2, NotTheTimers
<1> QED
  BY <1>4, <1>5

LEMMA AskTimed ==
  ASSUME Timed, Ask
  PROVE  Timed' /\ InTime
<1>1. traps \in [Traps -> Trap] /\ UNCHANGED machine
  BY DEF Timed, Ask
<1>2. ASSUME NEW t, traps' = [traps EXCEPT ![t].due = FALSE, ![t].running = TRUE]
      PROVE  \A s \in Traps : \/ traps'[s] = traps[s]
                              \/ traps'[s] = [traps[s] EXCEPT !.due = FALSE, !.running = TRUE]
  BY <1>1, <1>2 DEF Trap
<1>3. \A s \in Traps : \/ traps'[s] = traps[s]
                      \/ traps'[s] = [traps[s] EXCEPT !.due = FALSE, !.running = TRUE]
  BY <1>2 DEF Ask
<1>4. traps' = [s \in Traps |-> traps'[s]]
  BY <1>1 DEF Ask
<1>5. ASSUME NEW s \in Traps
      PROVE  /\ traps'[s] \in Trap /\ traps'[s].next = traps[s].next
             /\ traps'[s].due => traps[s].due
  <2>1. traps[s] \in Trap
    BY <1>1
  <2> QED
    BY <1>3, <2>1 DEF Trap
<1>6. traps' \in [Traps -> Trap] /\ Timer \in Traps
  BY <1>4, <1>5, HandlerFacts
<1>7. Machinery'
  BY <1>1 DEF Timed, Machinery, machine
<1> QED
  BY <1>1, <1>7, <1>5, <1>6, NotTheTimers DEF machine

LEMMA ReturnTimed ==
  ASSUME Timed, Return
  PROVE  Timed' /\ InTime
<1>1. /\ traps \in [Traps -> Trap] /\ UNCHANGED machine
      /\ traps' = Done(traps, Top.handler)
  BY DEF Timed, Return
<1>2. ASSUME NEW s \in Traps
      PROVE  /\ Done(traps, Top.handler)[s] \in Trap
             /\ Done(traps, Top.handler)[s].next = traps[s].next
             /\ Done(traps, Top.handler)[s].due = traps[s].due
  <2>1. traps[s] \in Trap
    BY <1>1
  <2> QED
    BY <2>1 DEF Done, Trap
<1>3. Done(traps, Top.handler) \in [Traps -> Trap]
  BY <1>2 DEF Done
<1>4. /\ traps' \in [Traps -> Trap] /\ traps'[Timer].next = traps[Timer].next
      /\ traps'[Timer].due = traps[Timer].due
  BY <1>1, <1>2, <1>3, HandlerFacts
<1>5. Machinery'
  BY <1>1 DEF Timed, Machinery, machine
<1> QED
  BY <1>1, <1>4, <1>5, NotTheTimers DEF machine

(* The keyboard's and the music's steps.                                   *)
LEMMA OthersTimed ==
  ASSUME Timed, UNCHANGED <<traps, clock, since, wait>>,
         \/ UNCHANGED machine
         \/ UNCHANGED waiting /\ \E at, to : ReadKey(at, to)
         \/ UNCHANGED waiting /\ \E k \in Keys \cup {Plain} : Type(k)
         \/ UNCHANGED typed /\ waiting' \in 0 .. MaxNotes
  PROVE  Timed' /\ InTime
<1>1. Machinery /\ traps' \in [Traps -> Trap]
  BY DEF Timed
<1>2. typed \in Seq(Keys \cup {Plain}) /\ Len(typed) \in Nat /\ Len(typed) <= MaxTyped
  BY <1>1, TypedFacts DEF Machinery
<1>3. ASSUME NEW at, NEW to, ReadKey(at, to), UNCHANGED waiting
      PROVE  Machinery'
  <2>1. typed # <<>> /\ typed' = Tail(typed)
    BY <1>3 DEF ReadKey
  <2>2. typed' \in Seq(Keys \cup {Plain}) /\ Len(typed') = Len(typed) - 1
    BY <1>2, <2>1, HeadTailProperties
  <2>3. MaxTyped \in Nat
    BY HandlerFacts
  <2> QED
    BY <1>1, <1>2, <1>3, <2>2, <2>3 DEF Machinery
<1>4. ASSUME NEW k \in Keys \cup {Plain}, Type(k), UNCHANGED waiting
      PROVE  Machinery'
  <2>1. Len(typed) < MaxTyped /\ typed' = Append(typed, k)
    BY <1>4 DEF Type
  <2>2. typed' \in Seq(Keys \cup {Plain}) /\ Len(typed') = Len(typed) + 1
    BY <1>2, <2>1, AppendProperties
  <2>3. Len(typed') <= MaxTyped
    BY <1>2, <2>1, <2>2, HandlerFacts
  <2> QED
    BY <1>1, <1>4, <2>2, <2>3 DEF Machinery
<1>5. Machinery'
  BY <1>1, <1>3, <1>4 DEF Machinery, machine
<1> QED
  BY <1>1, <1>5, NotTheTimers

LEMMA NextTimed ==
  ASSUME Timed, Next
  PROVE  Timed' /\ InTime
<1>1. ASSUME NEW t \in Traps, NEW mode \in {"ON", "OFF", "STOP"}, Switch(t, mode)
      PROVE  Timed' /\ InTime
  BY <1>1, SwitchTimed
<1>2. ASSUME NEW t \in Traps, NEW handler \in {0, HandlerOf[t]},
             NEW number \in Seconds \cup {0, Notes}, On(t, handler, number)
      PROVE  Timed' /\ InTime
  <2>1. handler \in Nat /\ number \in Nat
    BY HandlerFacts
  <2> QED
    BY <1>2, <2>1, OnTimed
<1>3. Statement => Timed' /\ InTime
  <2>1. ASSUME PlayNote \/ OtherStatement \/ Inkey \/ Input
        PROVE  Timed' /\ InTime
    <3>1. PlayNote => waiting' \in 0 .. MaxNotes /\ UNCHANGED <<typed, traps, clock, since, wait>>
      BY HandlerFacts DEF PlayNote, Timed, Machinery
    <3> QED
      BY <2>1, <3>1, OthersTimed DEF OtherStatement, Inkey, Input, machine
  <2>2. /\ \A handler \in {0, HandlerOf[Play]} : On(Play, handler, Notes) => Timed' /\ InTime
        /\ \A handler \in {0, HandlerOf[Timer]}, number \in Seconds :
             On(Timer, handler, number) => Timed' /\ InTime
        /\ \A k \in Keys : \A handler \in {0, HandlerOf[k]} :
             On(k, handler, 0) => Timed' /\ InTime
    BY <1>2, HandlerFacts
  <2> QED
    BY <1>1, <2>1, <2>2, ReturnTimed DEF Statement
<1>4. Continue => Timed' /\ InTime
  <2>1. ASSUME Dispatched \/ InkeyReady \/ InputReady
        PROVE  Timed' /\ InTime
    BY <2>1, OthersTimed DEF Dispatched, InkeyReady, InputReady, machine
  <2>2. ASSUME InkeyHook \/ InkeyAgain \/ InputHook
        PROVE  Timed' /\ InTime
    BY <2>2, HookTimed DEF InkeyHook, InkeyAgain, InputHook
  <2>3. ASSUME ReadKey("read", "check") \/ ReadKey("take", "wait") \/ ReadKey("take", "check")
        PROVE  Timed' /\ InTime
    BY <2>3, OthersTimed DEF ReadKey
  <2> QED
    BY <2>1, <2>2, <2>3, CheckTimed, AskTimed DEF Continue
<1>5. Machine => Timed' /\ InTime
  <2>1. ASSUME NoteBegins
        PROVE  Timed' /\ InTime
    <3>1. waiting' \in 0 .. MaxNotes /\ UNCHANGED <<typed, traps, clock, since, wait>>
      BY <2>1, HandlerFacts DEF NoteBegins, Timed, Machinery
    <3> QED
      BY <3>1, OthersTimed
  <2>2. ASSUME NEW k \in (Keys \cap named) \cup {Plain}, Type(k)
        PROVE  Timed' /\ InTime
    BY <2>2, OthersTimed DEF Type
  <2> QED
    BY <2>1, <2>2, TickTimed DEF Machine
<1> QED
  BY <1>3, <1>4, <1>5 DEF Next

(* events.c:148: between when the timer goes on, or its last event is      *)
(* seen, and the time it counts to, `look` does not find it late, through  *)
(* midnight and whatever is switched, named or called meanwhile, where     *)
(* that time is no more than half a day.                                   *)
THEOREM TimerIsInTime == Spec => TimerKeepsTime
<1>1. Init => Timed
  BY InitTimed
<1>2. Timed /\ [Next]_vars => Timed' /\ [InTime]_vars
  <2>1. ASSUME Timed, UNCHANGED vars
        PROVE  Timed'
    BY <2>1 DEF vars, machine, Timed, Machinery, TimeIs
  <2> QED
    BY <2>1, NextTimed
<1>3. [InTime]_vars
        => [traps'[Timer].due /\ ~traps[Timer].due /\ wait <= DAY \div 2 => since >= wait]_vars
  BY DEF InTime
<1> QED
  BY <1>1, <1>2, <1>3, PTL DEF Spec, TimerKeepsTime
==============================================================================
