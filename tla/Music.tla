-------------------------------- MODULE Music --------------------------------
(***************************************************************************)
(* What PLAY and SOUND promise (runtime/qb/play.c), without the clock's    *)
(* tick, the ring or the order of its stores: notes begin in the order     *)
(* they were queued, each once, none while the one before it lasts, and    *)
(* none is dropped unless the program asks.  Play implements it.           *)
(***************************************************************************)
EXTENDS Naturals, Sequences

CONSTANTS
  Notes,      (* [hertz, sound, quiet]: pitch, ticks of tone, of silence.  *)
  Capacity    (* How many notes may wait.                                  *)

VARIABLES
  waiting,    (* The notes queued that have not begun.                     *)
  tone,       (* What the speaker makes, 0 for silence.                    *)
  lasts,      (* Whether the note that began last, or the silence after    *)
              (* it, is not over.                                          *)
  silencing   (* SOUND of no duration, or the program's end, has begun and *)
              (* not yet dropped what waits.                               *)

mvars == <<waiting, tone, lasts, silencing>>

MusicInit ==
  /\ waiting = <<>>
  /\ tone = 0
  /\ lasts = FALSE
  /\ silencing = FALSE

Queue(note) ==
  /\ ~silencing
  /\ Len(waiting) < Capacity
  /\ waiting' = Append(waiting, note)
  /\ UNCHANGED <<tone, lasts, silencing>>

(* A note too short to last a tick is over as it begins.                   *)
Begin ==
  /\ ~lasts
  /\ waiting # <<>>
  /\ LET note == Head(waiting) IN
       /\ tone' = IF note.sound > 0 THEN note.hertz ELSE 0
       /\ lasts' = (note.sound > 0 \/ note.quiet > 0)
  /\ waiting' = Tail(waiting)
  /\ UNCHANGED silencing

(* The tone stops; a silence may still follow.                             *)
Hush ==
  /\ lasts
  /\ tone # 0
  /\ tone' = 0
  /\ lasts' \in BOOLEAN
  /\ UNCHANGED <<waiting, silencing>>

Over ==
  /\ lasts
  /\ tone = 0
  /\ lasts' = FALSE
  /\ UNCHANGED <<waiting, tone, silencing>>

Silence ==
  /\ ~silencing
  /\ silencing' = TRUE
  /\ UNCHANGED <<waiting, tone, lasts>>

Drop ==
  /\ silencing
  /\ waiting' = <<>>
  /\ silencing' = FALSE
  /\ UNCHANGED <<tone, lasts>>

MusicNext ==
  \/ \E note \in Notes : Queue(note)
  \/ Begin \/ Hush \/ Over
  \/ Silence \/ Drop

(* A note that waits begins, one that began comes to its end, and what was *)
(* asked to be silent is.                                                  *)
MusicFairness == WF_mvars(Begin) /\ WF_mvars(Hush \/ Over) /\ WF_mvars(Drop)

MusicSafe == MusicInit /\ [][MusicNext]_mvars
MusicSpec == MusicSafe /\ MusicFairness

=============================================================================
