--------------------------------- MODULE Traps ---------------------------------
(***************************************************************************)
(* Event trapping of compiled BASIC (runtime/qb/events.c): ON TIMER, ON    *)
(* PLAY and ON KEY GOSUB.  The compiler (frontends/qb, semantic.rs)        *)
(* numbers the handlers, asks before each statement of the module and of   *)
(* its handlers whether an event is due, and if one is calls a dispatcher, *)
(* which asks for each handler in turn and calls it; a handler is asked    *)
(* about at its own statements too, so that others may run inside it.      *)
(*                                                                         *)
(* The keyboard, the clock and the music (Music's `waiting`, here a count) *)
(* go on between any two steps of the program, and between the steps of    *)
(* INKEY$ and of INPUT, which look for trapped keys themselves (inkey.c).  *)
(***************************************************************************)
EXTENDS Integers, Sequences, FiniteSets, SequencesExt, FiniteSetsExt

CONSTANTS
  Timer, Play,
  Keys,         (* The keys that can be trapped, KEY(1), KEY(2) ...        *)
  Plain,        (* A key that can not.                                     *)
  None,
  HandlerOf,    (* The number of the handler each trap's ON names.         *)
  TrapOrder,    (* The traps as `traps` has them.                          *)
  Rebinds,      (* Whether ON may name a trap whose handler is running.    *)
  Programs,     (* The traps a program's statements name: one set for each *)
                (* program.                                                *)
  DAY,          (* The length of a day, in hundredths of a second.         *)
  Seconds,      (* The times, in hundredths, that ON TIMER may name.       *)
  Notes,        (* The count that ON PLAY names.                           *)
  MaxNotes,     (* Bound: the notes waiting.                               *)
  MaxTyped      (* The keys the keyboard's buffer holds.                   *)

Traps == {Timer, Play} \cup Keys
Handlers == {HandlerOf[t] : t \in Traps}

ASSUME TrapsAssumption ==
  /\ None \notin Traps /\ Timer # Play /\ {Timer, Play} \cap Keys = {}
  /\ TrapOrder \in Seq(Traps) /\ ToSet(TrapOrder) = Traps
  /\ Len(TrapOrder) = Cardinality(Traps)
  /\ HandlerOf \in [Traps -> Nat \ {0}] /\ Handlers = 1 .. Cardinality(Handlers)
  /\ Rebinds \in BOOLEAN /\ Programs \subseteq SUBSET Traps
  /\ DAY \in Nat \ {0} /\ Seconds \subseteq 1 .. DAY /\ Notes \in Nat
  /\ MaxNotes \in Nat /\ MaxTyped \in Nat

VARIABLES
  named,      (* The traps the program names.                              *)
  traps,
  stack,      (* The module and, above it, dispatchers and handlers.       *)
  clock,      (* `dev_clock`.                                              *)
  since,      (* The time since the timer began to count, up to what it    *)
              (* counts to (`wait`).                                       *)
  wait,
  waiting,    (* `music_waiting`.                                          *)
  typed       (* The keyboard's buffer.                                    *)

machine == <<clock, since, wait, waiting, typed>>
vars == <<named, traps, stack, machine>>

NoTrap == [handler |-> 0, state |-> "OFF", due |-> FALSE, running |-> FALSE,
           number |-> 0, next |-> 0, last |-> 0]

Init ==
  /\ named \in Programs
  /\ traps = [t \in Traps |-> NoTrap]
  /\ stack = <<[at |-> "check", handler |-> 0, trap |-> None]>>
  /\ clock = 0 /\ since = 0 /\ wait = 0
  /\ waiting = 0
  /\ typed = <<>>
-----------------------------------------------------------------------------
Top == Last(stack)
At(place) == [stack EXCEPT ![Len(stack)].at = place]
GoTo(from, to) == Top.at = from /\ stack' = At(to)

Armed(t) == traps[t].handler # 0 /\ traps[t].state # "OFF"

(* Mutant: a handler that is running does not keep its trap's next event   *)
(* waiting.                                                                *)
ReadyAgain(trap) == trap.handler # 0 /\ trap.state = "ON" /\ trap.due

Ready(trap) ==
  trap.handler # 0 /\ trap.state = "ON" /\ trap.due /\ ~trap.running

(* `take_keys`: the trapped keys at the front of the buffer.               *)
Trapped(ts, k) == k \in Keys /\ ts[k].handler # 0 /\ ts[k].state # "OFF"
Taken(ts) ==
  LET plain == {i \in DOMAIN typed : ~Trapped(ts, typed[i])}
  IN  IF plain = {} THEN Len(typed) ELSE Min(plain) - 1

WithKeys(ts) ==
  [t \in Traps |-> IF \E i \in 1 .. Taken(ts) : typed[i] = t
                   THEN [ts[t] EXCEPT !.due = TRUE] ELSE ts[t]]

(* `cn_key_hook`.                                                          *)
Hook ==
  /\ traps' = WithKeys(traps)
  /\ typed' = SubSeq(typed, Taken(traps) + 1, Len(typed))

(* Mutant: an event is due when its time is at hand, not when it is past.  *)
TimerIsLateEarly == (traps[Timer].next - clock + DAY) % DAY < DAY \div 2

(* The timer's time is past: the clock begins again at midnight.           *)
TimerIsLate == (clock - traps[Timer].next + DAY) % DAY < DAY \div 2

(* `look`: the events since the last.                                      *)
TimerFires == Armed(Timer) /\ TimerIsLate
PlayFires == traps[Play].last >= traps[Play].number /\ waiting < traps[Play].number
Seen ==
  [t \in Traps |->
     IF t = Timer /\ TimerFires
     THEN [traps[t] EXCEPT !.due = TRUE, !.next = (clock + traps[t].number) % DAY]
     ELSE IF t = Play /\ Armed(Play)
     THEN [traps[t] EXCEPT !.due = @ \/ PlayFires, !.last = waiting]
     ELSE traps[t]]

(* Mutant: only the first trap is looked at.                               *)
AnyReadyFirst(ts) == Ready(ts[Head(TrapOrder)])

AnyReady(ts) == \E t \in Traps : Ready(ts[t])

(* B$EVAN before a statement, and the call of the dispatcher.              *)
Check ==
  LET now == WithKeys(Seen)
  IN  /\ Top.at = "check"
      /\ traps' = now
      /\ typed' = SubSeq(typed, Taken(Seen) + 1, Len(typed))
      /\ IF TimerFires
         THEN since' = 0 /\ wait' = traps[Timer].number
         ELSE UNCHANGED <<since, wait>>
      /\ stack' = IF AnyReady(now)
                  THEN Append(stack, [at |-> "ask", handler |-> 1, trap |-> None])
                  ELSE At("statement")
      /\ UNCHANGED <<named, clock, waiting>>

(* B$EVPD of the dispatcher's next handler, and the call of it: the first  *)
(* trap that it handles and that is ready.                                 *)
Asked(h) ==
  LET theirs == {i \in DOMAIN TrapOrder : /\ traps[TrapOrder[i]].handler = h
                                          /\ Ready(traps[TrapOrder[i]])}
  IN  IF theirs = {} THEN None ELSE TrapOrder[Min(theirs)]

Ask ==
  LET t == Asked(Top.handler)
  IN  /\ Top.at = "ask" /\ Top.handler \in Handlers
      /\ IF t = None
         THEN /\ stack' = [stack EXCEPT ![Len(stack)].handler = @ + 1]
              /\ UNCHANGED traps
         ELSE /\ stack' = Append(stack, [at |-> "check", handler |-> Top.handler, trap |-> t])
              /\ traps' = [traps EXCEPT ![t].due = FALSE, ![t].running = TRUE]
      /\ UNCHANGED <<named, machine>>

(* The dispatcher is done: the statement that was checked for runs.        *)
Dispatched ==
  /\ Top.at = "ask" /\ Top.handler \notin Handlers
  /\ stack' = [Front(stack) EXCEPT ![Len(stack) - 1].at = "statement"]
  /\ UNCHANGED <<named, traps, machine>>

(* B$EVDN.                                                                 *)
Done(ts, h) ==
  [t \in Traps |-> IF ts[t].handler = h THEN [ts[t] EXCEPT !.running = FALSE] ELSE ts[t]]

(* A handler's RETURN, to the dispatcher.                                  *)
Return ==
  /\ Top.at = "statement" /\ Top.handler # 0
  /\ traps' = Done(traps, Top.handler)
  /\ stack' = [Front(stack) EXCEPT ![Len(stack) - 1].handler = @ + 1]
  /\ UNCHANGED <<named, machine>>
-----------------------------------------------------------------------------
(* The program's statements.                                               *)

(* B$EVAR: ON t GOSUB; 0 takes the trap away.  A key's number is the key.   *)
On(t, handler, number) ==
  /\ GoTo("statement", "check")
  /\ t \in named /\ (traps[t].running => Rebinds)
  /\ traps' = [traps EXCEPT ![t].handler = handler, ![t].number = number]
  /\ UNCHANGED <<named, machine>>

(* B$EVSW: t ON, OFF and STOP.                                             *)
GoesOn(t, mode) == mode = "ON" /\ traps[t].state = "OFF"

(* Mutant: the timer's next event is not taken round midnight.             *)
SwitchedPastDay(t, mode) ==
  LET trap == traps[t]
  IN  [trap EXCEPT
         !.state = mode,
         !.due = @ /\ mode # "OFF",
         !.next = IF GoesOn(t, mode) THEN clock + trap.number ELSE @,
         !.last = IF GoesOn(t, mode) /\ t = Play THEN waiting ELSE @]

Switched(t, mode) ==
  LET trap == traps[t]
  IN  [trap EXCEPT
         !.state = mode,
         !.due = @ /\ mode # "OFF",
         !.next = IF GoesOn(t, mode) THEN (clock + trap.number) % DAY ELSE @,
         !.last = IF GoesOn(t, mode) /\ t = Play THEN waiting ELSE @]

Switch(t, mode) ==
  /\ GoTo("statement", "check")
  /\ t \in named
  /\ traps' = [traps EXCEPT ![t] = Switched(t, mode)]
  /\ IF t = Timer /\ GoesOn(t, mode)
     THEN since' = 0 /\ wait' = traps[t].number
     ELSE UNCHANGED <<since, wait>>
  /\ UNCHANGED <<named, clock, waiting, typed>>

PlayNote ==
  /\ GoTo("statement", "check")
  /\ Play \in named /\ waiting < MaxNotes
  /\ waiting' = waiting + 1
  /\ UNCHANGED <<named, traps, clock, since, wait, typed>>

OtherStatement ==
  /\ GoTo("statement", "check")
  /\ UNCHANGED <<named, traps, machine>>

Reads == named \cap Keys # {}

(* Mutant: a key that came in as the hook looked is read.                  *)
InkeyAgainNot ==
  /\ GoTo("again", "read")
  /\ UNCHANGED <<named, traps, machine>>

(* INKEY$ asks the hook until the next key is no trap's, or there is none. *)
Inkey ==
  /\ Reads
  /\ GoTo("statement", "hook")
  /\ UNCHANGED <<named, traps, machine>>

InkeyHook ==
  /\ GoTo("hook", "ready")
  /\ Hook
  /\ UNCHANGED <<named, clock, since, wait, waiting>>

InkeyReady ==
  /\ GoTo("ready", IF typed = <<>> THEN "check" ELSE "again")
  /\ UNCHANGED <<named, traps, machine>>

InkeyAgain ==
  /\ GoTo("again", IF Taken(traps) > 0 THEN "hook" ELSE "read")
  /\ Hook
  /\ UNCHANGED <<named, clock, since, wait, waiting>>

ReadKey(at, to) ==
  /\ GoTo(at, to)
  /\ typed # <<>>
  /\ typed' = Tail(typed)
  /\ UNCHANGED <<named, traps, clock, since, wait, waiting>>

(* INPUT, key by key until Enter (cn_wait_key): while no key is ready, the *)
(* hook; then the key.  An end of the input, an error, is left out.        *)
Input ==
  /\ Reads
  /\ GoTo("statement", "wait")
  /\ UNCHANGED <<named, traps, machine>>

InputReady ==
  /\ GoTo("wait", IF typed = <<>> THEN "poll" ELSE "take")
  /\ UNCHANGED <<named, traps, machine>>

InputHook ==
  /\ GoTo("poll", "wait")
  /\ Hook
  /\ UNCHANGED <<named, clock, since, wait, waiting>>

Statement ==
  \/ \E t \in Traps, mode \in {"ON", "OFF", "STOP"} : Switch(t, mode)
  \/ \E handler \in {0, HandlerOf[Play]} : On(Play, handler, Notes)
  \/ \E handler \in {0, HandlerOf[Timer]}, number \in Seconds : On(Timer, handler, number)
  \/ \E k \in Keys : \E handler \in {0, HandlerOf[k]} : On(k, handler, 0)
  \/ PlayNote \/ OtherStatement \/ Inkey \/ Input \/ Return

Continue ==
  \/ Check \/ Ask \/ Dispatched
  \/ InkeyHook \/ InkeyReady \/ InkeyAgain \/ ReadKey("read", "check")
  \/ InputReady \/ InputHook \/ ReadKey("take", "wait") \/ ReadKey("take", "check")

-----------------------------------------------------------------------------
(* The machine.                                                            *)

Tick ==
  /\ Timer \in named
  /\ clock' = (clock + 1) % DAY
  /\ since' = Min({since + 1, wait})
  /\ UNCHANGED <<named, traps, stack, wait, waiting, typed>>

NoteBegins ==
  /\ waiting > 0 /\ waiting' = waiting - 1
  /\ UNCHANGED <<named, traps, stack, clock, since, wait, typed>>

Type(k) ==
  /\ Len(typed) < MaxTyped /\ named \cap Keys # {}
  /\ typed' = Append(typed, k)
  /\ UNCHANGED <<named, traps, stack, clock, since, wait, waiting>>

Machine == Tick \/ NoteBegins \/ \E k \in (Keys \cap named) \cup {Plain} : Type(k)

Next == Statement \/ Continue \/ Machine

(* The program goes on, and a typist does not for ever put a key between   *)
(* INKEY$'s hook and the call after it.                                    *)
Fairness ==
  /\ WF_vars(Statement \/ Continue)
  /\ SF_vars(InkeyReady /\ typed = <<>>)

Spec == Init /\ [][Next]_vars /\ Fairness
-----------------------------------------------------------------------------
TypeOK ==
  /\ \A t \in Traps :
       /\ traps[t].handler \in {0, HandlerOf[t]}
       /\ traps[t].state \in {"OFF", "ON", "STOP"}
       /\ traps[t].due \in BOOLEAN /\ traps[t].running \in BOOLEAN
       /\ traps[t].next \in 0 .. DAY - 1 /\ traps[t].last \in 0 .. MaxNotes
  /\ stack # <<>> /\ clock \in 0 .. DAY - 1
  /\ typed \in Seq(Keys \cup {Plain}) /\ Len(typed) <= MaxTyped

(* events.c:31: a trap is running exactly while its handler has been       *)
(* called and has not returned, however many dispatchers are inside one    *)
(* another; and so a second event of it waits, and none waits for ever.    *)
Calls(t) == {i \in DOMAIN stack : stack[i].trap = t}
RunningIsCalled ==
  \A t \in Traps : Cardinality(Calls(t)) = IF traps[t].running THEN 1 ELSE 0

(* inkey.c:38: INKEY$ reads no trapped key, even one that came in as the    *)
(* hook looked.                                                            *)
ReadsTrap(at) ==
  Top.at = at /\ stack' # stack /\ Trapped(traps, Head(typed))
InkeyReadsNoTrap == [][~ReadsTrap("read")]_vars

(* events.c:112: a trapped key makes its event due and the program never   *)
(* reads it, by INPUT either.                                              *)
TrappedKeyIsNotRead == [][~ReadsTrap("read") /\ ~ReadsTrap("take")]_vars

(* The timer's event is not due before its time from when the timer went   *)
(* on, or from when its last event was seen; midnight may come between.    *)
(* Of a time longer than half a day it is due at once: ON TIMER takes up   *)
(* to a whole day (events.c:80), and look takes what is more than half a   *)
(* day ahead for past (events.c:148).                                      *)
TimerKeepsTime ==
  [][traps'[Timer].due /\ ~traps[Timer].due /\ wait <= DAY \div 2
       => since >= wait]_vars

(* An event due, of a trap that is on and whose handler is free, runs its  *)
(* handler, whatever else happens, or the program waits in INPUT: the      *)
(* dispatcher comes to each handler, and INKEY$ ends.                      *)
EventsAreHandled ==
  \A t \in Traps : Ready(traps[t]) ~> ~Ready(traps[t]) \/ Top.at \in {"wait", "poll"}

=============================================================================
