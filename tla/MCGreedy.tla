------------------------------ MODULE MCGreedy ------------------------------
(* Small programs for Greedy: a few values live over a few instructions,   *)
(* spilled to one range per instruction that may name them.                *)
EXTENDS Greedy, TLC

CONSTANTS ax, al, ah, bx, none, fail

Values == 1 .. 4
Points == 1 .. 3

Lanes == ax :> {0, 1} @@ al :> {0} @@ ah :> {1} @@ bx :> {4}
Root == ax :> ax @@ al :> ax @@ ah :> ax @@ bx :> bx

Words == <<ax, bx>>
Bytes == <<al, ah>>
OnlyAX == <<ax>>

Tiny(v, p) == 10 * v + p
Ranges == Values \cup {Tiny(v, p) : v \in Values, p \in Points}
ValueOf(v) == IF v \in Values THEN v ELSE v \div 10

(* The spans of the first n points.                                        *)
Spans(n) == {S \in SUBSET (1 .. n) : S # {} /\ S = Min(S) .. Max(S)}

(* One where a value begins and one where it ends.                         *)
Products(v, S) == {Tiny(v, Min(S)), Tiny(v, Max(S))}

(* The cutoffs of the code, and ones that four values meet.                *)
Cutoffs == [depth |-> 5, interference |-> 8, evict |-> 10]
LowCutoffs == [depth |-> 1, interference |-> 2, evict |-> 2]

(* What the seeds leave to be worked out: copies, pins and hints.          *)
Plain == [copies |-> <<>>, pins |-> [v \in Values |-> none], fixed |-> {},
          hints |-> [v \in Values |-> <<>>], cutoffs |-> Cutoffs]

(* Copies run from 4 to 1 to 2 to 3, which may have to be in ax.  The      *)
(* hints of a value are the other ends of its copies, the most frequent    *)
(* first, and before them the register such an end has to be in.           *)
Copies(f, values) ==
  SelectSeq(<<[ends |-> {1, 2}, freq |-> f], [ends |-> {2, 3}, freq |-> 2],
              [ends |-> {1, 4}, freq |-> 2]>>,
            LAMBDA copy : copy.ends \subseteq values)

Hints(v, copies, pins) ==
  LET other(copy) == CHOOSE w \in copy.ends : w # v
      rank(copy) == copy.freq + (IF pins[other(copy)] # none THEN 100 ELSE 0)
      mine == SortSeq(SelectSeq(copies, LAMBDA copy : v \in copy.ends),
                      LAMBDA c, d : rank(c) > rank(d))
  IN  [n \in DOMAIN mine |->
         IF pins[other(mine[n])] # none
         THEN [reg |-> pins[other(mine[n])], vreg |-> NoVReg]
         ELSE [reg |-> none, vreg |-> other(mine[n])]]

Joined(f, how, values) ==
  LET copies == Copies(f, values)
      pins == [Plain.pins EXCEPT ![3] = IF how = "free" THEN none ELSE ax]
  IN  [copies |-> copies, pins |-> pins, cutoffs |-> Cutoffs,
       fixed |-> IF how = "fixed" THEN {3} ELSE {},
       hints |-> [v \in Values |-> Hints(v, copies, pins)]]
Joins(values, freqs) ==
  {Joined(f, how, values) : f \in freqs, how \in {"free", "pinned", "fixed"}}

(* Where each value is live, its class and its weight, and the rest.       *)
Seed(values, points, classes, weights, setups) ==
  [live: [values -> Spans(points)], class: [values -> classes],
   weight: [values -> weights], setup: setups]

(* The numbers of the values are told apart by order alone.                *)
Sorted(seed) == \A v, w \in DOMAIN seed.live : v < w =>
  \/ Min(seed.live[v]) < Min(seed.live[w])
  \/ Min(seed.live[v]) = Min(seed.live[w]) /\ Max(seed.live[v]) <= Max(seed.live[w])

EvictSeeds == {seed \in Seed(1 .. 3, 2, {Words, Bytes, OnlyAX}, {1, 2, Unspillable},
                             {Plain}) : Sorted(seed)}
CutoffSeeds == {seed \in Seed(1 .. 4, 2, {Words}, {1, 2, Unspillable},
                              {[Plain EXCEPT !.cutoffs = LowCutoffs]}) : Sorted(seed)}
HintSeeds == Seed(1 .. 4, 3, {Words}, {1}, Joins(1 .. 4, {1, 3}))
LoopSeeds == Seed(1 .. 3, 2, {Words, Bytes}, {1, 2}, Joins(1 .. 3, {1}))
AllSeeds == EvictSeeds \cup CutoffSeeds \cup HintSeeds \cup LoopSeeds

(* Each point is a block of its own: a value of one point is local, and so *)
(* are all those joined by copies.                                         *)
ProgramFor(seed) ==
  LET values == DOMAIN seed.live
      setup == seed.setup
      live == [v \in Ranges |-> IF v \in values THEN seed.live[v]
                                ELSE IF v \in Values THEN {} ELSE {v % 10}]
      kept(v) == {w \in setup.fixed : live[w] \cap live[v] # {}}
  IN
  [values |-> values \ setup.fixed, fixed |-> setup.fixed, last |-> Max(Points),
   copies |-> setup.copies, cutoffs |-> setup.cutoffs,
   local |-> (Ranges \ Values) \cup
             {v \in values : setup.copies # <<>> \/ Cardinality(live[v]) = 1},
   pins |-> [v \in Ranges |-> IF v \in Values THEN setup.pins[v] ELSE none],
   live |-> live,
   weight |-> [v \in Ranges |-> IF v \in values THEN seed.weight[v] ELSE Unspillable],
   order |-> [v \in Ranges |->
                IF ValueOf(v) \notin values THEN <<>>
                ELSE IF setup.pins[ValueOf(v)] # none THEN <<setup.pins[ValueOf(v)]>>
                ELSE seed.class[ValueOf(v)]],
   blocked |-> [v \in Ranges |->
                  {r \in Regs : \E w \in kept(v) : Lanes[setup.pins[w]] \cap Lanes[r] # {}}],
   hints |-> [v \in Ranges |-> IF v \in values THEN setup.hints[v] ELSE <<>>],
   products |-> [v \in Ranges |-> IF v \in values \ setup.fixed
                                 THEN Products(v, live[v]) ELSE {}]]

=============================================================================
