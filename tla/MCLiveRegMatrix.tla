--------------------------- MODULE MCLiveRegMatrix ----------------------------
(* Three ranges over two bytes and their word; a call and a fixed range in *)
(* the last slots.                                                         *)
EXTENDS LiveRegMatrix, TLC

Numbers == Permutations(VRegs)

(* What a query whose tags have moved has found is never looked at.        *)
Current == <<ranges, phys, turns, matrix, answer,
             [u \in Units |-> IF queries[u].tag /\ queries[u].user_tag
                              THEN queries[u] ELSE Fresh],
             IF reg_mask.reg = NoVReg THEN NoVReg ELSE reg_mask>>

Byte == 1 .. 2
UnitsOfReg == [al |-> <<1>>, ah |-> <<2>>, ax |-> <<1, 2>>]
Root == [al |-> "ax", ah |-> "ax", ax |-> "ax"]
Seg(s, e) == [start |-> s, end |-> e]
SomeRanges == {<<>>,
               <<Seg(0, 1), Seg(1, 2), Seg(3, 4)>>,
               <<Seg(1, 3)>>,
               <<Seg(2, 3), Seg(4, 5)>>,
               <<Seg(5, 6)>>}
Fixed == [u \in Byte |-> IF u = 2 THEN {4} ELSE {}]
=============================================================================
