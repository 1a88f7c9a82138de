---------------------------- MODULE MCStringSpace ----------------------------
EXTENDS StringSpace, TLC

CONSTANTS a, t1, t2, x, y

TempOrder == <<t1, t2>>
(* No operation tells one character from another. *)
Alike == Permutations(Characters)
=============================================================================
