---------------------------- MODULE MCChangeLog ----------------------------
(* ChangeLog on three slots: the module's function and two copies, which   *)
(* are enough for two sibling forks, a fork of a fork and a clone of one.  *)
EXTENDS ChangeLog, TLC

CONSTANTS c1, c2

Copies == Permutations({c1, c2})

=============================================================================
