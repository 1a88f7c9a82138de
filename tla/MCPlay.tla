------------------------------- MODULE MCPlay --------------------------------
(* A ring of three places, and notes that sound, rest, are followed by a   *)
(* silence, and are too short to last a tick.                              *)
EXTENDS Play

N(hertz, sound, quiet) == [hertz |-> hertz, sound |-> sound, quiet |-> quiet]

SmallNotes == {N(440, 1, 1), N(220, 2, 0), N(0, 1, 0), N(880, 0, 0)}

=============================================================================
