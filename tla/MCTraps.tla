-------------------------------- MODULE MCTraps --------------------------------
(* Programs that trap two of the timer, the music and two keys.            *)
EXTENDS Traps, TLC

CONSTANTS timer, play, f1, f2

Numbers == timer :> 1 @@ play :> 2 @@ f1 :> 3 @@ f2 :> 4
Order == <<timer, play, f1, f2>>
Pairs == {{timer}, {play, f1}, {f1, f2}}
TwoKeys == {{f1, f2}}
=============================================================================
