----------------------------- MODULE GreedyProofs -----------------------------
(***************************************************************************)
(* What Greedy promises for any registers, ranges and cutoffs.             *)
(***************************************************************************)
EXTENDS Greedy, FiniteSetTheorems, WellFoundedInduction, TLAPS

(* Every nonempty set of naturals has a least element.                     *)
LEMMA LeastOf ==
  ASSUME NEW S \in SUBSET Nat, S # {}
  PROVE  \E x \in S : \A y \in S : x <= y
<1>1. PICK x \in S : \A y \in S : ~(<<y, x>> \in OpToRel(<, Nat))
  BY NatLessThanWellFounded, WFMin, Zenon
<1>2. ASSUME NEW y \in S PROVE x <= y
  <2>1. <<y, x>> \in Nat \X Nat /\ <<y, x>>[1] = y /\ <<y, x>>[2] = x
    OBVIOUS
  <2>2. y < x => <<y, x>> \in OpToRel(<, Nat)
    BY <2>1 DEF OpToRel
  <2>3. ~(y < x)
    BY <1>1, <2>2, Zenon
  <2>4. x \in Nat /\ y \in Nat
    OBVIOUS
  <2> QED
    BY <2>3, <2>4, SMT
<1> QED
  BY <1>2

(* What holds of 0, and of n where it holds of n - 1, holds of every n of  *)
(* an interval: what it holds of is a set.                                 *)
LEMMA AllOf ==
  ASSUME NEW N \in Nat, NEW S, 0 \in S, \A i \in 1 .. N : i - 1 \in S => i \in S
  PROVE  \A i \in 0 .. N : i \in S
<1> DEFINE Bad == {i \in 0 .. N : i \notin S}
<1> SUFFICES ASSUME Bad # {} PROVE FALSE
  OBVIOUS
<1>1. Bad \in SUBSET Nat
  OBVIOUS
<1>2. PICK n \in Bad : \A m \in Bad : n <= m
  <2> HIDE DEF Bad
  <2> QED
    BY <1>1, LeastOf, Zenon
<1>3. n \in 0 .. N /\ n \notin S /\ n # 0
  OBVIOUS
<1>4. n - 1 \in 0 .. N /\ n \in 1 .. N /\ ~(n <= n - 1)
  BY <1>3
<1>5. n - 1 \notin Bad
  BY <1>2, <1>4
<1> QED
  BY <1>3, <1>4, <1>5

(* A function longer by one.                                               *)
Longer(f, n, x) == [i \in 0 .. n |-> IF i = n THEN x ELSE f[i]]

(* It agrees with f up to its new end.                                     *)
LEMMA LongerIs ==
  ASSUME NEW n \in Nat \ {0}, NEW f, NEW x
  PROVE  /\ \A i \in 0 .. n - 1 : Longer(f, n, x)[i] = f[i]
         /\ Longer(f, n, x)[n] = x
         /\ \A i \in 0 .. n : i # 0 => i - 1 \in 0 .. n - 1
         /\ \A i \in 0 .. n : i # n => i \in 0 .. n - 1
BY DEF Longer

(* A loop of the source is a function of its turns that the model takes by *)
(* CHOOSE. The lemmas about loops are all laid out as this one is: 0 turns *)
(* have such a function, and n have where n - 1 do, so the loop's exists;  *)
(* what a turn keeps, its last value has.                                  *)
(* What `AllocationOrder` gathers is of what it is given.                  *)
LEMMA GatheredIs ==
  ASSUME NEW T, NEW sets \in Seq(SUBSET T)
  PROVE  Gathered(sets) \in Seq(T)
<1> DEFINE N == Len(sets)
           Turn(i, x) == AddOnce(x, sets[i])
           IsRun(f, n) == f = [i \in 0 .. n |-> IF i = 0 THEN <<>> ELSE Turn(i, f[i - 1])]
           run == CHOOSE f : IsRun(f, N)
           Ran == {n \in Nat : \E f : IsRun(f, n)}
           Fine == {n \in 0 .. N : run[n] \in Seq(T)}
<1>0. N \in Nat /\ N \in 0 .. N /\ 0 \in Nat
  OBVIOUS
<1>1. 0 \in Ran
  <2> DEFINE f == [i \in 0 .. 0 |-> <<>>]
  <2>1. \A i \in 0 .. 0 : i = 0
    OBVIOUS
  <2>2. IsRun(f, 0)
    <3> HIDE DEF Turn
    <3> QED
      BY <2>1
  <2> QED
    BY <1>0, <2>2, Zenon
<1>2. ASSUME NEW n \in 1 .. N, n - 1 \in Ran PROVE n \in Ran
  <2>1. PICK f : IsRun(f, n - 1)
    BY <1>2
  <2> DEFINE x == Turn(n, f[n - 1])
             g == Longer(f, n, x)
  <2>2. n \in Nat \ {0} /\ n - 1 \in 0 .. n - 1
    OBVIOUS
  <2>3. /\ \A i \in 0 .. n - 1 : g[i] = f[i]
        /\ g[n] = x
        /\ \A i \in 0 .. n : i # 0 => i - 1 \in 0 .. n - 1
        /\ \A i \in 0 .. n : i # n => i \in 0 .. n - 1
    <3> HIDE DEF x
    <3> QED
      BY <2>2, LongerIs
  <2>4. g = [i \in 0 .. n |-> g[i]]
    BY DEF Longer
  <2>5. ASSUME NEW i \in 0 .. n
        PROVE  g[i] = IF i = 0 THEN <<>> ELSE Turn(i, g[i - 1])
    <3> HIDE DEF g, Turn
    <3> QED
      BY <2>1, <2>2, <2>3
  <2>6. IsRun(g, n)
    <3> HIDE DEF g, Turn
    <3> QED
      BY <2>4, <2>5
  <2> HIDE DEF IsRun, g
  <2> QED
    BY <2>2, <2>6
<1>3. IsRun(run, N)
  <2>1. N \in Ran
    <3> HIDE DEF Ran, N
    <3> QED
      BY <1>0, <1>1, <1>2, AllOf, Zenon
  <2> HIDE DEF IsRun
  <2> QED
    BY <2>1
<1>4. run[0] = <<>> /\ \A i \in 1 .. N : run[i] = Turn(i, run[i - 1])
  <2> HIDE DEF run, Turn
  <2> QED
    BY <1>0, <1>3
<1>5. ASSUME NEW n \in 1 .. N, n - 1 \in Fine PROVE n \in Fine
  <2>1. sets[n] \in SUBSET T /\ run[n - 1] \in Seq(T) /\ run[n] = Turn(n, run[n - 1]) /\ n \in 0 .. N
    <3> HIDE DEF run, Turn
    <3> QED
      BY <1>4, <1>5
  <2>2. run[n] \in Seq(T)
    <3> HIDE DEF run
    <3>1. ~(sets[n] \subseteq ToSet(run[n - 1])) => (CHOOSE x \in sets[n] : TRUE) \in T
      BY <2>1, Zenon
    <3> HIDE DEF N
    <3> QED
      BY <2>1, <3>1 DEF AddOnce
  <2> QED
    BY <2>1, <2>2
<1>6. run[N] \in Seq(T)
  <2>1. 0 \in Fine
    <3>1. <<>> \in Seq(T) /\ 0 \in 0 .. N
      OBVIOUS
    <3> HIDE DEF run, N
    <3> QED
      BY <1>4, <3>1, Zenon
  <2>2. N \in Fine
    <3> HIDE DEF Fine, N
    <3> QED
      BY <1>0, <1>5, <2>1, AllOf, Zenon
  <2> QED
    BY <2>2
<1>7. Gathered(sets) = run[N]
  BY DEF Gathered, Loop
<1> QED
  BY <1>6, <1>7, Zenon

-----------------------------------------------------------------------------
(* What a program is, part by part.                                        *)
LEMMA ProgramIs ==
  ASSUME Program(prog)
  PROVE  /\ prog.values \subseteq VRegs /\ prog.last \in Nat
         /\ prog.live \in [VRegs -> SUBSET (0 .. prog.last)]
         /\ prog.weight \in [VRegs -> 0 .. Unspillable]
         /\ prog.order \in [VRegs -> Seq(Regs)]
         /\ prog.blocked \in [VRegs -> SUBSET Regs]
         /\ prog.hints \in [VRegs -> Seq([reg: Regs \cup {None}, vreg: VRegs \cup {NoVReg}])]
         /\ prog.products \in [VRegs -> SUBSET VRegs]
         /\ prog.copies \in Seq([ends: {E \in SUBSET VRegs : Cardinality(E) = 2}, freq: Nat])
         /\ prog.cutoffs \in [depth: Nat, interference: Nat, evict: Nat]
BY Zenon DEF Program

(* What `Program` says of spilling: a product is of one value, and no      *)
(* value is empty.                                                         *)
LEMMA ProductsAre ==
  ASSUME Program(prog), NEW v \in VRegs
  PROVE  /\ prog.products[v] # {} => v \in prog.values
         /\ prog.products[v] \cap prog.values = {}
         /\ \A w \in VRegs \ {v} : prog.products[v] \cap prog.products[w] = {}
         /\ \A w \in prog.values \cup prog.products[v] : prog.live[w] # {}
BY Zenon DEF Program

(* What `RegsAssumption` says.                                             *)
LEMMA RegsAre ==
  /\ VRegs \subseteq Nat \ {NoVReg} /\ IsFiniteSet(VRegs)
  /\ None \notin Regs /\ Fail \notin Regs /\ None # Fail
  /\ UnitsOf \in [Regs -> SUBSET Nat] /\ \A r \in Regs : UnitsOf[r] # {}
BY RegsAssumption, Zenon

(* The least of a set is in it.                                            *)
LEMMA MinIs ==
  ASSUME NEW S \in SUBSET Nat, S # {}
  PROVE  Min(S) \in S
BY LeastOf, Zenon DEF Min

(* Every nonempty finite set of naturals has a greatest element.           *)
LEMMA GreatestOf ==
  ASSUME NEW S \in SUBSET Nat, S # {}, IsFiniteSet(S)
  PROVE  \E x \in S : \A y \in S : y <= x
<1> DEFINE Bad == {n \in Nat : \E T \in SUBSET Nat :
                     /\ T # {} /\ IsFiniteSet(T) /\ Cardinality(T) = n
                     /\ ~\E x \in T : \A y \in T : y <= x}
<1>1. ASSUME Bad # {} PROVE FALSE
  <2>1. Bad \in SUBSET Nat
    OBVIOUS
  <2>2. PICK n \in Bad : \A m \in Bad : n <= m
    <3> HIDE DEF Bad
    <3> QED
      BY <1>1, <2>1, LeastOf, Zenon
  <2>3. PICK T \in SUBSET Nat : /\ T # {} /\ IsFiniteSet(T) /\ Cardinality(T) = n
                                /\ ~\E x \in T : \A y \in T : y <= x
    BY <2>2
  <2>4. PICK t \in T : TRUE
    BY <2>3
  <2> DEFINE R == T \ {t}
  <2>5. IsFiniteSet(R) /\ Cardinality(R) = n - 1 /\ R \in SUBSET Nat
    BY <2>3, <2>4, FS_RemoveElement
  <2>6. R # {}
    BY <2>3, <2>4
  <2>7. n - 1 \in Nat /\ n - 1 < n
    BY <2>2, <2>5, FS_CardinalityType
  <2>8. n - 1 \notin Bad
    <3> HIDE DEF Bad
    <3> QED
      BY <2>1, <2>2, <2>7
  <2>9. PICK x \in R : \A y \in R : y <= x
    <3> HIDE DEF R
    <3> QED
      BY <2>5, <2>6, <2>7, <2>8
  <2>10. x \in Nat /\ t \in Nat
    BY <2>3, <2>4, <2>9
  <2> QED
    BY <2>3, <2>4, <2>9, <2>10
<1>2. Cardinality(S) \in Nat
  BY FS_CardinalityType
<1> QED
  BY <1>1, <1>2, Zenon

(* The heap has a first, where it has any.                                 *)
LEMMA FirstIs ==
  ASSUME NEW entries \in SUBSET [prio: Nat, reg: VRegs], entries # {}, IsFiniteSet(entries)
  PROVE  First(entries) \in entries
<1> DEFINE P == {x.prio : x \in entries}
<1>1. P \in SUBSET Nat /\ P # {}
  OBVIOUS
<1>a. IsFiniteSet(P)
  <2> DEFINE f == [x \in entries |-> x.prio]
  <2>1. P = {f[x] : x \in entries} /\ f \in [entries -> P]
    OBVIOUS
  <2>2. f \in Surjection(entries, P)
    BY DEF Surjection
  <2> HIDE DEF f, P
  <2> QED
    BY <2>2, FS_Surjection
<1>2. PICK m \in P : \A y \in P : y <= m
  <2> HIDE DEF P
  <2> QED
    BY <1>1, <1>a, GreatestOf, Zenon
<1> DEFINE Q == {x.reg : x \in {y \in entries : y.prio = m}}
<1>3. Q \in SUBSET Nat /\ Q # {}
  <2>1. \A x \in entries : x.reg \in Nat
    BY RegsAre
  <2>2. \E x \in entries : x.prio = m
    BY <1>2
  <2> HIDE DEF P
  <2> QED
    BY <2>1, <2>2
<1>4. PICK n \in Q : \A y \in Q : n <= y
  <2> HIDE DEF Q
  <2> QED
    BY <1>3, LeastOf, Zenon
<1>5. PICK x \in entries : x.prio = m /\ x.reg = n
  BY <1>4
<1>6. \A y \in entries : x.prio > y.prio \/ (x.prio = y.prio /\ x.reg <= y.reg)
  <2>1. SUFFICES ASSUME NEW y \in entries, ~(x.prio > y.prio)
                 PROVE  x.prio = y.prio /\ x.reg <= y.reg
    OBVIOUS
  <2>2. y.prio \in P /\ y.prio \in Nat /\ m \in Nat
    BY <1>1
  <2>3. y.prio = m
    <3> HIDE DEF P
    <3> QED
      BY <1>2, <1>5, <2>1, <2>2
  <2>4. y.reg \in Q
    BY <2>3
  <2> HIDE DEF P, Q
  <2> QED
    BY <1>4, <1>5, <2>3, <2>4
<1> QED
  BY <1>5, <1>6, Zenon DEF First

-----------------------------------------------------------------------------
(* The matrix, the order and the priorities.                               *)

(* Who holds a unit of r where v is live.                                  *)
LEMMA HoldersOfAre ==
  ASSUME NEW a, NEW v, NEW r
  PROVE  HoldersOf(a, v, r) =
           {w \in a.made : /\ a.phys[w] # None
                           /\ Meets(v, w)
                           /\ UnitsOf[r] \cap UnitsOf[a.phys[w]] # {}}
<1> DEFINE There == {w \in a.made : /\ a.phys[w] # None
                                    /\ Meets(v, w)
                                    /\ UnitsOf[r] \cap UnitsOf[a.phys[w]] # {}}
<1>1. ASSUME NEW w \in HoldersOf(a, v, r) PROVE w \in There
  <2>1. PICK u \in UnitsOf[r] : w \in Holders(a, v, u)
    BY Zenon DEF HoldersOf
  <2>2. w \in a.made /\ a.phys[w] # None /\ u \in UnitsOf[a.phys[w]] /\ Meets(v, w)
    BY <2>1, Zenon DEF Holders
  <2> QED
    BY <2>2, Zenon
<1>2. ASSUME NEW w \in There PROVE w \in HoldersOf(a, v, r)
  <2>1. PICK u : u \in UnitsOf[r] /\ u \in UnitsOf[a.phys[w]]
    OBVIOUS
  <2>2. w \in Holders(a, v, u)
    BY <2>1, Zenon DEF Holders
  <2> QED
    BY <2>1, <2>2, Zenon DEF HoldersOf
<1> HIDE DEF There
<1>3. HoldersOf(a, v, r) = There
  BY <1>1, <1>2, Zenon
<1> QED
  BY <1>3, Zenon DEF There

(* A range meets those that meet it.                                       *)
LEMMA MeetsBack ==
  ASSUME NEW v, NEW w, Meets(v, w)
  PROVE  Meets(w, v)
BY DEF Meets

(* The type of what ranges hold.                                           *)
HoldsRegs(a) == a.phys \in [VRegs -> Regs \cup {None}]

(* What a hint comes to is in the order.                                   *)
LEMMA NearIs ==
  ASSUME NEW order \in Seq(Regs), NEW reg
  PROVE  Near(order, reg) \in SUBSET ToSet(order)
<1> DEFINE like == {n \in DOMAIN order : RootOf[order[n]] = RootOf[reg]}
<1>1. like \in SUBSET Nat /\ \A n \in like : order[n] \in ToSet(order)
  BY DEF ToSet
<1>2. like # {} => Min(like) \in like
  <2> HIDE DEF like
  <2> QED
    BY <1>1, MinIs, Zenon
<1> HIDE DEF like
<1>3. like # {} => {order[Min(like)]} \in SUBSET ToSet(order)
  BY <1>1, <1>2
<1> QED
  BY <1>3 DEF Near, like

(* The registers to try, hints first, are those of the class's order.      *)
LEMMA OrderIs ==
  ASSUME Program(prog), NEW a, HoldsRegs(a), NEW v \in VRegs
  PROVE  /\ Order(a, v) \in Seq(ToSet(prog.order[v]))
         /\ HintRegs(a, v) \in Seq(ToSet(prog.order[v]))
         /\ ToSet(prog.order[v]) \subseteq Regs
<1> DEFINE T == ToSet(prog.order[v])
           tail == [n \in DOMAIN prog.order[v] |-> {prog.order[v][n]}]
<1>1. prog.order[v] \in Seq(Regs)
      /\ prog.hints[v] \in Seq([reg: Regs \cup {None}, vreg: VRegs \cup {NoVReg}])
  BY ProgramIs
<1>2. \A reg : Near(prog.order[v], reg) \in SUBSET T
  BY <1>1, NearIs
<1>3. Hinted(a, v) \in Seq(SUBSET T)
  <2> HIDE DEF T
  <2> QED
    BY <1>1, <1>2 DEF Hinted
<1>4. tail \in Seq(SUBSET T)
  <2>1. \A n \in DOMAIN prog.order[v] : {prog.order[v][n]} \in SUBSET T
    BY <1>1 DEF ToSet
  <2> HIDE DEF T
  <2> QED
    BY <1>1, <2>1
<1>5. Hinted(a, v) \o tail \in Seq(SUBSET T)
  <2> HIDE DEF T, tail
  <2> QED
    BY <1>3, <1>4
<1>6. Order(a, v) \in Seq(T) /\ HintRegs(a, v) \in Seq(T)
  <2>1. Order(a, v) = Gathered(Hinted(a, v) \o tail) /\ HintRegs(a, v) = Gathered(Hinted(a, v))
    BY DEF Order, HintRegs
  <2> HIDE DEF T, tail
  <2> QED
    BY <1>3, <1>5, <2>1, GatheredIs, Zenon
<1>7. T \subseteq Regs
  BY <1>1 DEF ToSet
<1> QED
  BY <1>6, <1>7

(* A range that is live somewhere has a priority.                          *)
LEMMA PriorityIs ==
  ASSUME Program(prog), NEW a, NEW v \in VRegs, prog.live[v] # {}
  PROVE  Priority(a, v) \in Nat
<1>1. prog.last \in Nat /\ prog.live[v] \in SUBSET (0 .. prog.last)
      /\ prog.order[v] \in Seq(Regs)
  BY ProgramIs
<1>2. IsFiniteSet(prog.live[v])
  <2> DEFINE n == prog.last
  <2>0. 0 \in Int /\ n \in Int
    BY <1>1
  <2>1. IsFiniteSet(0 .. n)
    <3> HIDE DEF n
    <3> QED
      BY <2>0, FS_Interval, Zenon
  <2> QED
    BY <1>1, <2>1, FS_Subset
<1>3. Cardinality(prog.live[v]) \in Nat
  BY <1>2, FS_CardinalityType
<1>4. Min(prog.live[v]) \in prog.live[v]
  BY <1>1, MinIs
<1>5. prog.last - Min(prog.live[v]) \in Nat
  BY <1>1, <1>4
<1> DEFINE boost == IF HintReg(a, v) # None THEN Bit30 ELSE 0
           size == Cardinality(prog.live[v])
           first == prog.last - Min(prog.live[v])
<1>6. boost \in Nat
  BY DEF Bit30
<1>7. Priority(a, v) \in {size, Bit31 + first + boost, Bit31 + (Bit29 + size) + boost}
  <2> HIDE DEF size, first, boost
  <2>1. Priority(a, v) =
          IF a.stage[v] = Split THEN size
          ELSE Bit31 + (IF a.stage[v] = Assign
                             /\ ~(size > 2 * Len(prog.order[v]) \/ v \notin prog.local)
                        THEN first ELSE Bit29 + size) + boost
    BY DEF Priority, size, first, boost
  <2> QED
    BY <2>1
<1> HIDE DEF size, first, boost
<1> QED
  BY <1>3, <1>5, <1>6, <1>7 DEF Bit29, Bit31, size, first

-----------------------------------------------------------------------------
(* What is true of every session.                                          *)

(* Registers are held by ranges that exist, in their order, not blocked,   *)
(* and no two that meet have a unit in common.                             *)
Apart(a, w, x) ==
  a.phys[x] # None /\ Meets(w, x) => UnitsOf[a.phys[w]] \cap UnitsOf[a.phys[x]] = {}
Sound(a) ==
  \A w \in VRegs : a.phys[w] # None =>
    /\ w \in a.made
    /\ a.phys[w] \notin prog.blocked[w] /\ a.phys[w] \in ToSet(prog.order[w])
    /\ \A x \in VRegs \ {w} : Apart(a, w, x)

(* What a spill makes was not there.                                       *)
Fresh(a) ==
  \A w \in a.made : /\ prog.live[w] # {}
                    /\ prog.products[w] \cap a.made = {}

Counted(a) == \A w \in VRegs : a.cascade[w] < a.nextCascade

(* What is to be undone is not placed, or is where a recoloring put it.    *)
Backed(s) == \A e \in s.undo : s.phys[e.reg] = None \/ e.reg \in s.fixed

Good(s) == s \in Sessions /\ Sound(s) /\ Fresh(s) /\ Counted(s) /\ Backed(s)

(* Between s and t, w lost its register, or was made.                      *)
Lost(s, t, w) == w \in t.made /\ t.phys[w] = None /\ ~(w \in s.made /\ s.phys[w] = None)
Undone(s, t, w) == \E e \in t.undo \ s.undo : e.reg = w

(* What allocating the ranges of C may do to all that there is: what it    *)
(* took from a range is to be undone or to be queued.                      *)
Displacing(C, s, t, e) ==
  /\ e.reg \notin C \cup s.fixed
  /\ e.phys = s.phys[e.reg] /\ e.phys # None
  /\ e.reg \in t.fixed /\ t.phys[e.reg] # None
Leading(s, t, w) ==
  /\ t.phys[w] \in {s.phys[w], None} \/ Undone(s, t, w)
  /\ w \in s.fixed /\ s.phys[w] # None => t.phys[w] = s.phys[w]
  /\ w \in s.made /\ s.phys[w] = None => w \in t.made /\ t.phys[w] = None
  /\ s.stage[w] = Done /\ w \in s.made /\ s.phys[w] # None => t.phys[w] # None
  /\ t.new[w] = s.new[w] + (IF Lost(s, t, w) THEN 1 ELSE 0)
Leads(C, s, t) ==
  /\ s.fixed \subseteq t.fixed /\ s.undo \subseteq t.undo
  /\ \A w \in VRegs : s.stage[w] = Done /\ w \in s.made => t.stage[w] = Done /\ w \in t.made
  /\ \A e \in t.undo \ s.undo : Displacing(C, s, t, e)
  /\ \A w \in VRegs \ C : Leading(s, t, w)

(* v may be given r.                                                       *)
CanHave(a, v, r) ==
  /\ r \in ToSet(prog.order[v]) /\ r \notin prog.blocked[v]
  /\ \A x \in VRegs : a.phys[x] # None /\ Meets(v, x)
                        => UnitsOf[r] \cap UnitsOf[a.phys[x]] = {}

(* What is asked of `select_or_split_impl`, and what it answers.           *)
Asked(s, v) == Good(s) /\ v \in s.made /\ s.phys[v] = None
Answered(s, v, got) ==
  /\ Good(got.s) /\ Leads({v}, s, got.s) /\ got.s.phys[v] = None
  /\ got.reg \in Regs \cup {None, Fail}
  /\ got.reg \in Regs \cup {Fail} => v \in got.s.made /\ got.s.new[v] = s.new[v]
  /\ got.reg \in Regs => CanHave(got.s, v, got.reg)
  /\ got.reg \notin Regs => got.s.undo = s.undo
  /\ got.reg = None /\ s.new = Once({})
       => got.s.new[v] = s.new[v] + (IF v \in got.s.made THEN 1 ELSE 0)

(* The fields of a session.                                                *)
LEMMA SessionIs ==
  ASSUME NEW s \in Sessions
  PROVE  /\ s.phys \in [VRegs -> Regs \cup {None}] /\ s.stage \in [VRegs -> Stages]
         /\ s.cascade \in [VRegs -> Nat] /\ s.nextCascade \in Nat
         /\ s.made \subseteq VRegs /\ s.broken \in Seq(VRegs)
         /\ s.fixed \subseteq VRegs /\ s.undo \subseteq [reg: VRegs, phys: Regs]
         /\ s.new \in [VRegs -> Nat]
BY Zenon DEF Sessions

(* A step after another.                                                   *)
LEMMA LeadingOn ==
  ASSUME NEW s \in Sessions, NEW t \in Sessions, NEW u \in Sessions, NEW w \in VRegs,
         Leading(s, t, w), Leading(t, u, w),
         s.fixed \subseteq t.fixed, s.undo \subseteq t.undo, t.undo \subseteq u.undo,
         s.stage[w] = Done /\ w \in s.made => t.stage[w] = Done /\ w \in t.made
  PROVE  Leading(s, u, w)
<1>1. Undone(s, t, w) \/ Undone(t, u, w) => Undone(s, u, w)
  BY DEF Undone
<1>2. s.new[w] \in Nat
  BY SessionIs
<1>3. u.new[w] = s.new[w] + (IF Lost(s, u, w) THEN 1 ELSE 0)
  <2>1. u.new[w] = (s.new[w] + (IF Lost(s, t, w) THEN 1 ELSE 0)) + (IF Lost(t, u, w) THEN 1 ELSE 0)
    BY DEF Leading
  <2>2. Lost(s, t, w) => ~Lost(t, u, w) /\ Lost(s, u, w)
    BY Zenon DEF Leading, Lost
  <2>3. ~Lost(s, t, w) => (Lost(s, u, w) <=> Lost(t, u, w))
    BY Zenon DEF Leading, Lost
  <2> QED
    BY <1>2, <2>1, <2>2, <2>3
<1>4. u.phys[w] \in {s.phys[w], None} \/ Undone(s, u, w)
  BY <1>1 DEF Leading
<1> QED
  BY <1>3, <1>4, Zenon DEF Leading

(* Two steps in a row, the second with leave to touch no more than the     *)
(* first, are one.                                                         *)
LEMMA LeadsOn ==
  ASSUME NEW s \in Sessions, NEW t \in Sessions, NEW u \in Sessions,
         NEW C, NEW D, D \subseteq C, Leads(C, s, t), Leads(D, t, u),
         \A c \in C : t.phys[c] = None \/ c \in t.fixed
  PROVE  Leads(C, s, u)
<1>1. s.fixed \subseteq u.fixed /\ s.undo \subseteq u.undo
  BY DEF Leads
<1>2. \A w \in VRegs : s.stage[w] = Done /\ w \in s.made => u.stage[w] = Done /\ w \in u.made
  BY Zenon DEF Leads
<1>3. ASSUME NEW e \in u.undo \ s.undo PROVE Displacing(C, s, u, e)
  <2>1. e.reg \in VRegs
    BY SessionIs
  <2>2. CASE e \in t.undo
    <3>1. Displacing(C, s, t, e)
      BY <2>2, Zenon DEF Leads
    <3>2. e.reg \notin D /\ e.reg \in t.fixed /\ t.phys[e.reg] # None
      BY <3>1, Zenon DEF Displacing
    <3>3. Leading(t, u, e.reg)
      BY <2>1, <3>2, Zenon DEF Leads
    <3>4. u.phys[e.reg] # None /\ e.reg \in u.fixed
      BY <3>2, <3>3, Zenon DEF Leading, Leads
    <3> QED
      BY <3>1, <3>4, Zenon DEF Displacing
  <2>3. CASE e \notin t.undo
    <3>1. Displacing(D, t, u, e)
      BY <2>3, Zenon DEF Leads
    <3>2. e.reg \notin t.fixed /\ t.phys[e.reg] # None
      BY <3>1, Zenon DEF Displacing
    <3>3. e.reg \notin C
      BY <3>2, Zenon
    <3>4. Leading(s, t, e.reg)
      BY <2>1, <3>3, Zenon DEF Leads
    <3>5. ~Undone(s, t, e.reg)
      BY <3>2, Zenon DEF Leads, Displacing, Undone
    <3>6. t.phys[e.reg] = s.phys[e.reg]
      BY <3>2, <3>4, <3>5 DEF Leading
    <3>7. e.reg \notin s.fixed
      BY <3>2, Zenon DEF Leads
    <3> QED
      BY <3>1, <3>3, <3>6, <3>7, Zenon DEF Displacing
  <2> QED
    BY <2>2, <2>3
<1>4. ASSUME NEW w \in VRegs \ C PROVE Leading(s, u, w)
  <2>1. w \in VRegs /\ w \notin D /\ w \notin C
    OBVIOUS
  <2>2. Leading(s, t, w) /\ Leading(t, u, w)
    BY <2>1, Zenon DEF Leads
  <2>3. /\ s.fixed \subseteq t.fixed /\ s.undo \subseteq t.undo /\ t.undo \subseteq u.undo
        /\ s.stage[w] = Done /\ w \in s.made => t.stage[w] = Done /\ w \in t.made
    BY <2>1, Zenon DEF Leads
  <2> QED
    BY <2>1, <2>2, <2>3, LeadingOn, Zenon
<1> QED
  BY <1>1, <1>2, <1>3, <1>4, Zenon DEF Leads

(* What takes nothing that is fixed or done, and gives nothing.            *)
LEMMA SoundWithLess ==
  ASSUME NEW s \in Sessions, NEW t \in Sessions, Sound(s),
         \A w \in VRegs : t.phys[w] # None => t.phys[w] = s.phys[w] /\ w \in t.made
  PROVE  Sound(t)
BY Zenon DEF Sound, Apart

-----------------------------------------------------------------------------
(* Up to the last chance.                                                  *)

(* Who is in the way of v, which has no register.                          *)
InTheWay(s, v, r, w) ==
  w \in s.made /\ s.phys[w] # None /\ Meets(v, w) /\ UnitsOf[r] \cap UnitsOf[s.phys[w]] # {}

(* Who holds a byte of r at a point of v.                                  *)
LEMMA HoldersAre ==
  ASSUME NEW s, NEW v, NEW r
  PROVE  \A w : w \in HoldersOf(s, v, r) <=> InTheWay(s, v, r, w)
BY HoldersOfAre DEF InTheWay

(* A session with other notes of broken hints.                             *)
LEMMA NotedIs ==
  ASSUME NEW s, Good(s), NEW b \in Seq(VRegs)
  PROVE  LET t == [s EXCEPT !.broken = b]
         IN  /\ Good(t) /\ t.phys = s.phys /\ t.stage = s.stage /\ t.made = s.made
             /\ t.fixed = s.fixed /\ t.undo = s.undo /\ t.new = s.new
<1> DEFINE t == [s EXCEPT !.broken = b]
<1>0. s \in Sessions
  BY DEF Good
<1>1. /\ t.phys = s.phys /\ t.stage = s.stage /\ t.made = s.made
      /\ t.fixed = s.fixed /\ t.undo = s.undo /\ t.new = s.new
      /\ t.cascade = s.cascade /\ t.nextCascade = s.nextCascade
  BY <1>0 DEF Sessions
<1>2. t \in Sessions
  BY <1>0 DEF Sessions
<1> HIDE DEF t
<1>3. Good(t)
  BY <1>1, <1>2 DEF Good, Sound, Fresh, Counted, Backed, Apart
<1> QED
  BY <1>1, <1>3 DEF t

(* Broken hints stay a sequence of ranges.                                 *)
LEMMA BrokenIs ==
  ASSUME NEW broken \in Seq(VRegs), NEW v \in VRegs
  PROVE  AddOnce(broken, {v}) \in Seq(VRegs)
<1>1. (CHOOSE x \in {v} : TRUE) = v
  OBVIOUS
<1> QED
  BY <1>1 DEF AddOnce

(* What an answer may say of broken hints makes no difference.             *)
LEMMA AnsweredNoted ==
  ASSUME NEW s, NEW v, NEW t, NEW u, NEW reg, Answered(s, v, Answer(t, reg)), Good(u),
         u.phys = t.phys, u.stage = t.stage, u.made = t.made,
         u.fixed = t.fixed, u.undo = t.undo, u.new = t.new
  PROVE  Answered(s, v, Answer(u, reg))
<1>1. /\ Answer(t, reg).s = t /\ Answer(u, reg).s = u
      /\ Answer(t, reg).reg = reg /\ Answer(u, reg).reg = reg
  BY DEF Answer
<1>2. Leads({v}, s, u)
  <2>1. Leads({v}, s, t)
    BY <1>1 DEF Answered
  <2>2. \A w : Leading(s, t, w) => Leading(s, u, w)
    BY DEF Leading, Undone, Lost
  <2>3. \A e : Displacing({v}, s, t, e) => Displacing({v}, s, u, e)
    BY DEF Displacing
  <2> QED
    BY <2>1, <2>2, <2>3 DEF Leads
<1>3. CanHave(t, v, reg) => CanHave(u, v, reg)
  BY DEF CanHave
<1> QED
  BY <1>1, <1>2, <1>3 DEF Answered

(* Nothing done is an answer.                                              *)
LEMMA StaysAsked ==
  ASSUME NEW s, NEW v \in VRegs, Asked(s, v)
  PROVE  Leads({v}, s, s) /\ Good(s) /\ s.new[v] \in Nat /\ s \in Sessions
<1>1. s \in Sessions
  BY DEF Asked, Good
<1>2. \A w \in VRegs : s.new[w] \in Nat
  BY <1>1, SessionIs
<1>3. \A w \in VRegs : Leading(s, s, w)
  BY <1>2 DEF Leading, Lost
<1> QED
  BY <1>1, <1>2, <1>3 DEF Leads, Asked, Good

(* `try_assign` of a free register keeps the contract.                     *)
LEMMA FreeIsAnswer ==
  ASSUME NEW s, NEW v \in VRegs, NEW r \in Regs, Asked(s, v),
         r \in ToSet(prog.order[v]), IsFree(s, v, r)
  PROVE  Answered(s, v, Answer(s, r))
<1>1. r \notin prog.blocked[v] /\ HoldersOf(s, v, r) = {}
  BY DEF IsFree
<1>2. CanHave(s, v, r)
  <2>1. \A x \in VRegs : ~InTheWay(s, v, r, x)
    BY <1>1, HoldersAre, Zenon
  <2>2. \A x \in VRegs : s.phys[x] # None => x \in s.made
    BY Zenon DEF Asked, Good, Sound
  <2> QED
    BY <1>1, <2>1, <2>2, Zenon DEF CanHave, InTheWay
<1>3. Answer(s, r).s = s /\ Answer(s, r).reg = r
  BY DEF Answer
<1>4. r # None /\ r # Fail
  BY RegsAre
<1> QED
  BY <1>2, <1>3, <1>4, StaysAsked DEF Answered, Asked

(* `evict_interference`, of what may be evicted.                           *)
MayEvict(s, v, r) ==
  /\ r \in ToSet(prog.order[v]) /\ r \notin prog.blocked[v]
  /\ \A w \in HoldersOf(s, v, r) : w \notin s.fixed /\ s.stage[w] # Done

(* The cascade an eviction gives has been counted when it is over.         *)
LEMMA CascadeIs ==
  ASSUME NEW s, Good(s), NEW v \in VRegs
  PROVE  /\ Cascade(s, v) \in Nat
         /\ Cascade(s, v) < IF s.cascade[v] = 0 THEN s.nextCascade + 1 ELSE s.nextCascade
<1>1. s.cascade[v] \in Nat /\ s.nextCascade \in Nat /\ s.cascade[v] < s.nextCascade
  BY SessionIs DEF Good, Counted
<1> QED
  BY <1>1 DEF Cascade

(* Evicting who may be evicted keeps the contract: each has left its       *)
(* register and is queued once.                                            *)
LEMMA EvictedIs ==
  ASSUME NEW s, NEW v \in VRegs, NEW r \in Regs, Asked(s, v), MayEvict(s, v, r)
  PROVE  Answered(s, v, Answer(Evicted(s, v, r), r))
<1> DEFINE gone == HoldersOf(s, v, r)
           c == Cascade(s, v)
           next == IF s.cascade[v] = 0 THEN s.nextCascade + 1 ELSE s.nextCascade
           t == Evicted(s, v, r)
<1>1. s \in Sessions /\ Sound(s) /\ Fresh(s) /\ Counted(s) /\ v \in s.made /\ s.phys[v] = None
  BY DEF Asked, Good
<1>2. \A w : w \in gone <=> InTheWay(s, v, r, w)
  BY HoldersAre, Zenon
<1>3. v \notin gone /\ gone \subseteq s.made /\ gone \subseteq VRegs
  BY <1>1, <1>2, SessionIs DEF InTheWay
<1>4. /\ t.phys = [w \in VRegs |-> IF w \in gone THEN None ELSE s.phys[w]]
      /\ t.cascade = [w \in VRegs |-> IF w \in gone \cup {v} THEN c ELSE s.cascade[w]]
      /\ t.nextCascade = next
      /\ t.new = [w \in VRegs |-> s.new[w] + (IF w \in gone THEN 1 ELSE 0)]
      /\ t.stage = s.stage /\ t.made = s.made /\ t.broken = s.broken
      /\ t.fixed = s.fixed /\ t.undo = s.undo
      /\ t = [phys |-> t.phys, stage |-> t.stage, cascade |-> t.cascade,
              nextCascade |-> t.nextCascade, made |-> t.made, broken |-> t.broken,
              fixed |-> t.fixed, undo |-> t.undo, new |-> t.new]
  <2> HIDE DEF gone, c
  <2>1. t = [Freed(s, gone) EXCEPT
              !.cascade = [w \in VRegs |-> IF w \in gone \cup {v} THEN c ELSE s.cascade[w]],
              !.nextCascade = next,
              !.new = And(s.new, Once(gone))]
    BY <1>1 DEF Evicted, Freed, gone, c, Sessions
  <2>2. And(s.new, Once(gone)) = [w \in VRegs |-> s.new[w] + (IF w \in gone THEN 1 ELSE 0)]
    BY DEF And, Once
  <2> HIDE DEF t
  <2> QED
    BY <1>1, <2>1, <2>2 DEF Freed, Sessions
<1>5. c \in Nat /\ c < next
  <2>1. Good(s)
    BY DEF Asked
  <2> QED
    BY <2>1, CascadeIs
<1>6. s.nextCascade \in Nat /\ next \in Nat /\ s.nextCascade <= next
      /\ \A w \in VRegs : s.new[w] \in Nat /\ s.cascade[w] \in Nat /\ s.cascade[w] < s.nextCascade
  BY <1>1, SessionIs DEF Counted
<1> HIDE DEF t, gone, c, next
<1>7. t \in Sessions
  <2>1. t.phys \in [VRegs -> Regs \cup {None}]
    BY <1>1, <1>4, SessionIs
  <2>2. t.cascade \in [VRegs -> Nat] /\ t.nextCascade \in Nat
    BY <1>4, <1>5, <1>6
  <2>3. t.new \in [VRegs -> Nat]
    BY <1>4, <1>6
  <2>4. t.stage \in [VRegs -> Stages] /\ t.made \in SUBSET VRegs /\ t.broken \in Seq(VRegs)
        /\ t.fixed \in SUBSET VRegs /\ t.undo \in SUBSET [reg: VRegs, phys: Regs]
    BY <1>1, <1>4, SessionIs
  <2> QED
    BY <1>4, <2>1, <2>2, <2>3, <2>4, Zenon DEF Sessions
<1>8. \A w \in VRegs : /\ t.phys[w] = IF w \in gone THEN None ELSE s.phys[w]
                       /\ t.new[w] = s.new[w] + (IF w \in gone THEN 1 ELSE 0)
                       /\ t.cascade[w] = IF w \in gone \cup {v} THEN c ELSE s.cascade[w]
  BY <1>4
<1>9. Good(t)
  <2>1. Sound(t)
    <3>1. \A w \in VRegs : t.phys[w] # None => t.phys[w] = s.phys[w] /\ w \in t.made
      BY <1>1, <1>4, <1>8 DEF Sound
    <3> QED
      BY <1>1, <1>7, <3>1, SoundWithLess, Zenon
  <2>2. Fresh(t)
    BY <1>1, <1>4 DEF Fresh
  <2>3. Counted(t)
    BY <1>4, <1>5, <1>6, <1>8 DEF Counted
  <2>4. Backed(t)
    <3>1. \A e \in s.undo : e.reg \in VRegs
      BY <1>1, SessionIs
    <3>2. Backed(s)
      BY DEF Asked, Good
    <3> QED
      BY <1>4, <1>8, <3>1, <3>2, Zenon DEF Backed
  <2> QED
    BY <1>7, <2>1, <2>2, <2>3, <2>4 DEF Good
<1>10. \A w \in gone : s.phys[w] # None /\ w \in s.made /\ w \notin s.fixed /\ s.stage[w] # Done
  BY <1>2 DEF InTheWay, MayEvict, gone
<1>11. \A w \in VRegs : Leading(s, t, w)
  BY <1>4, <1>6, <1>8, <1>10 DEF Leading, Lost
<1>12. Leads({v}, s, t)
  BY <1>4, <1>11 DEF Leads
<1>13. CanHave(t, v, r)
  <2>1. SUFFICES ASSUME NEW x \in VRegs, t.phys[x] # None, Meets(v, x)
                 PROVE  UnitsOf[r] \cap UnitsOf[t.phys[x]] = {}
    BY Zenon DEF CanHave, MayEvict
  <2>2. x \notin gone /\ t.phys[x] = s.phys[x] /\ x \in s.made
    BY <1>1, <1>8, <2>1 DEF Sound
  <2> QED
    BY <1>2, <2>1, <2>2, Zenon DEF InTheWay
<1>14. t.phys[v] = None /\ t.new[v] = s.new[v] /\ v \in t.made
  BY <1>1, <1>3, <1>4, <1>6, <1>8
<1>15. r # None /\ r # Fail
  BY RegsAre
<1>16. Answer(t, r).s = t /\ Answer(t, r).reg = r
  BY DEF Answer
<1> QED
  BY <1>9, <1>12, <1>13, <1>14, <1>15, <1>16 DEF Answered, t

(* The answer that nothing was found, where others have to be queued.      *)
LEMMA NoneIsAnswer ==
  ASSUME NEW s, NEW v \in VRegs, Asked(s, v), s.new # Once({})
  PROVE  Answered(s, v, Answer(s, None))
<1>1. Answer(s, None).s = s /\ Answer(s, None).reg = None
  BY DEF Answer
<1>2. None \notin Regs /\ None # Fail
  BY RegsAre
<1> QED
  BY <1>1, <1>2, StaysAsked DEF Answered, Asked

(* So does giving up before anything was done.                             *)
LEMMA FailIsAnswer ==
  ASSUME NEW s, NEW v \in VRegs, Asked(s, v)
  PROVE  Answered(s, v, Answer(s, Fail))
<1>1. Answer(s, Fail).s = s /\ Answer(s, Fail).reg = Fail
  BY DEF Answer
<1>2. Fail \notin Regs /\ None # Fail
  BY RegsAre
<1> QED
  BY <1>1, <1>2, StaysAsked DEF Answered, Asked

(* What the cost of an eviction is weighed for is fixed by nobody, and no  *)
(* spill product.                                                          *)
LEMMA CanEvictIs ==
  ASSUME NEW s, NEW v \in VRegs, NEW r \in ToSet(prog.order[v]), NEW isHint, NEW limit,
         CanEvict(s, v, r, isHint, limit)
  PROVE  MayEvict(s, v, r)
BY Zenon DEF CanEvict, MayEvict

(* A range that is noted to have missed its hint, and nothing else.        *)
LEMMA NotedAnswer ==
  ASSUME NEW s, NEW v \in VRegs, NEW t, NEW r, Answered(s, v, Answer(t, r))
  PROVE  Answered(s, v, Answer([t EXCEPT !.broken = AddOnce(@, {v})], r))
<1> DEFINE b == AddOnce(t.broken, {v})
           u == [t EXCEPT !.broken = b]
<1>1. Answer(t, r).s = t
  BY DEF Answer
<1>2. Good(t) /\ t.broken \in Seq(VRegs)
  BY <1>1, SessionIs DEF Answered, Good
<1>3. b \in Seq(VRegs)
  BY <1>2, BrokenIs
<1>4. /\ Good(u) /\ u.phys = t.phys /\ u.stage = t.stage /\ u.made = t.made
      /\ u.fixed = t.fixed /\ u.undo = t.undo /\ u.new = t.new
  <2> HIDE DEF b
  <2> QED
    BY <1>2, <1>3, NotedIs
<1>5. Answered(s, v, Answer(u, r))
  <2> HIDE DEF u
  <2> QED
    BY <1>4, AnsweredNoted, Zenon
<1>6. u = [t EXCEPT !.broken = AddOnce(@, {v})]
  OBVIOUS
<1> QED
  BY <1>5, <1>6

(* A free register is taken, or a cheap hint freed: the contract is kept.  *)
LEMMA TakeIs ==
  ASSUME Program(prog), NEW s, NEW v \in VRegs, Asked(s, v),
         NEW reg \in ToSet(prog.order[v]), IsFree(s, v, reg)
  PROVE  Answered(s, v, Take(s, v, reg)) /\ Take(s, v, reg).reg \in Regs
<1> DEFINE hint == SimpleHint(v).reg
           hints == ToSet(HintRegs(s, v))
           isFew == CanEvict(s, v, hint, TRUE, [hints |-> 1, weight |-> 0])
<1>1. HoldsRegs(s)
  BY SessionIs DEF Asked, Good, HoldsRegs
<1>2. hints \subseteq ToSet(prog.order[v]) /\ ToSet(prog.order[v]) \subseteq Regs
  <2>1. /\ HintRegs(s, v) \in Seq(ToSet(prog.order[v]))
        /\ ToSet(prog.order[v]) \subseteq Regs
    BY <1>1, OrderIs, Zenon
  <2> DEFINE T == ToSet(prog.order[v])
             q == HintRegs(s, v)
  <2>2. q \in Seq(T)
    BY <2>1
  <2>3. ToSet(q) \subseteq T
    <3> HIDE DEF q, T
    <3> QED
      BY <2>2 DEF ToSet
  <2> QED
    BY <2>1, <2>3
<1>3. Answered(s, v, Answer(s, reg)) /\ reg \in Regs
  BY <1>2, FreeIsAnswer
<1>4. /\ Answer(s, reg).reg = reg
      /\ Answer(Evicted(s, v, hint), hint).reg = hint
      /\ Answer(RecordBroken(s, v), reg).reg = reg
  BY DEF Answer
<1> HIDE DEF hint, hints, isFew
<1>5. Take(s, v, reg) = IF reg \in hints \/ hint \notin hints THEN Answer(s, reg)
                        ELSE IF isFew THEN Answer(Evicted(s, v, hint), hint)
                        ELSE Answer(RecordBroken(s, v), reg)
  BY Zenon DEF Take, hint, hints, isFew
<1>6. ASSUME hint \in hints, isFew
      PROVE  Answered(s, v, Answer(Evicted(s, v, hint), hint)) /\ hint \in Regs
  <2>1. hint \in ToSet(prog.order[v]) /\ hint \in Regs
    BY <1>2, <1>6
  <2>2. MayEvict(s, v, hint)
    BY <1>6, <2>1, CanEvictIs, Zenon DEF isFew
  <2> QED
    BY <2>1, <2>2, EvictedIs, Zenon
<1>7. Answered(s, v, Answer(RecordBroken(s, v), reg))
  BY <1>3, NotedAnswer, Zenon DEF RecordBroken
<1> QED
  BY <1>3, <1>4, <1>5, <1>6, <1>7, Zenon

(* `try_assign` keeps it, or does nothing.                                 *)
LEMMA TryAssignIs ==
  ASSUME Program(prog), NEW s, NEW v \in VRegs, Asked(s, v)
  PROVE  \/ Answered(s, v, TryAssign(s, v)) /\ TryAssign(s, v).reg \in Regs
         \/ TryAssign(s, v) = Answer(s, None)
<1> DEFINE order == Order(s, v)
           T == ToSet(prog.order[v])
           free == {n \in DOMAIN order : IsFree(s, v, order[n])}
<1>1. HoldsRegs(s)
  BY SessionIs DEF Asked, Good, HoldsRegs
<1>2. order \in Seq(T)
  BY <1>1, OrderIs, Zenon
<1>3. CASE free = {}
  BY <1>3, Zenon DEF TryAssign
<1>4. CASE free # {}
  <2> DEFINE reg == order[Min(free)]
  <2>1. reg \in T /\ IsFree(s, v, reg)
    <3> HIDE DEF order, T
    <3>1. free \in SUBSET Nat
      BY <1>2
    <3>2. Min(free) \in free
      <4> HIDE DEF free
      <4> QED
        BY <1>4, <3>1, MinIs, Zenon
    <3> QED
      BY <1>2, <3>2
  <2>2. TryAssign(s, v) = Take(s, v, reg)
    BY <1>4, Zenon DEF TryAssign
  <2> HIDE DEF reg
  <2> QED
    BY <2>1, <2>2, TakeIs, Zenon
<1> QED
  BY <1>3, <1>4

(* What the search for the cheapest comes to may be evicted.               *)
LEMMA CandidateIs ==
  ASSUME Program(prog), NEW s, NEW v \in VRegs, Asked(s, v)
  PROVE  \/ EvictionCandidate(s, v) = None
         \/ EvictionCandidate(s, v) \in Regs /\ MayEvict(s, v, EvictionCandidate(s, v))
<1> DEFINE order == Order(s, v)
           T == ToSet(prog.order[v])
           N == Len(order)
           start == [reg |-> None, cost |-> MaxCost, found |-> FALSE]
           Turn(i, x) == Better(s, v, x, order[i])
           IsRun(f, n) == f = [i \in 0 .. n |-> IF i = 0 THEN start ELSE Turn(i, f[i - 1])]
           run == CHOOSE f : IsRun(f, N)
           Ran == {n \in Nat : \E f : IsRun(f, n)}
           Fine == {n \in 0 .. N : \/ run[n].reg = None
                                   \/ run[n].reg \in T /\ MayEvict(s, v, run[n].reg)}
<1>a. HoldsRegs(s)
  BY SessionIs DEF Asked, Good, HoldsRegs
<1>b. order \in Seq(T) /\ T \subseteq Regs
  BY <1>a, OrderIs, Zenon
<1>0. N \in Nat /\ N \in 0 .. N /\ 0 \in Nat
  <2> HIDE DEF order, T
  <2> QED
    BY <1>b
<1> HIDE DEF order, T
<1>1. 0 \in Ran
  <2> DEFINE f == [i \in 0 .. 0 |-> start]
  <2>1. \A i \in 0 .. 0 : i = 0
    OBVIOUS
  <2>2. IsRun(f, 0)
    <3> HIDE DEF Turn, start
    <3> QED
      BY <2>1
  <2> QED
    BY <1>0, <2>2, Zenon
<1>2. ASSUME NEW n \in 1 .. N, n - 1 \in Ran PROVE n \in Ran
  <2>1. PICK f : IsRun(f, n - 1)
    BY <1>2
  <2> DEFINE x == Turn(n, f[n - 1])
             g == Longer(f, n, x)
  <2>2. n \in Nat \ {0} /\ n - 1 \in 0 .. n - 1
    BY <1>0
  <2>3. /\ \A i \in 0 .. n - 1 : g[i] = f[i]
        /\ g[n] = x
        /\ \A i \in 0 .. n : i # 0 => i - 1 \in 0 .. n - 1
        /\ \A i \in 0 .. n : i # n => i \in 0 .. n - 1
    <3> HIDE DEF x
    <3> QED
      BY <2>2, LongerIs
  <2>4. g = [i \in 0 .. n |-> g[i]]
    BY DEF Longer
  <2>5. ASSUME NEW i \in 0 .. n
        PROVE  g[i] = IF i = 0 THEN start ELSE Turn(i, g[i - 1])
    <3> HIDE DEF g, Turn, start
    <3> QED
      BY <2>1, <2>2, <2>3
  <2>6. IsRun(g, n)
    <3> HIDE DEF g, Turn, start
    <3> QED
      BY <2>4, <2>5
  <2> HIDE DEF IsRun, g
  <2> QED
    BY <2>2, <2>6
<1>3. IsRun(run, N)
  <2>1. N \in Ran
    <3> HIDE DEF Ran, N
    <3> QED
      BY <1>0, <1>1, <1>2, AllOf, Zenon
  <2> HIDE DEF IsRun
  <2> QED
    BY <2>1
<1>4. run[0] = start /\ \A i \in 1 .. N : run[i] = Turn(i, run[i - 1])
  <2> HIDE DEF run, Turn, start
  <2> QED
    BY <1>0, <1>3
<1>5. ASSUME NEW n \in 1 .. N, n - 1 \in Fine PROVE n \in Fine
  <2> DEFINE x == run[n - 1]
             r == order[n]
  <2>1. run[n] = Better(s, v, x, r) /\ n \in 0 .. N
    <3>1. run[n] = Turn(n, run[n - 1])
      <4> HIDE DEF run, Turn
      <4> QED
        BY <1>4
    <3> QED
      BY <1>0, <3>1
  <2>2. r \in T
    BY <1>b, <1>5
  <2>3. x.reg = None \/ (x.reg \in T /\ MayEvict(s, v, x.reg))
    BY <1>5
  <2> HIDE DEF x, r, run
  <2>4. \/ run[n] = x
        \/ run[n].reg = r /\ CanEvict(s, v, r, FALSE, x.cost)
    <3> DEFINE may == CanEvict(s, v, r, FALSE, x.cost)
               new == [reg |-> r, cost |-> EvictionCost(s, v, r),
                       found |-> r \in ToSet(HintRegs(s, v))]
    <3>1. new.reg = r
      OBVIOUS
    <3>2. Better(s, v, x, r) = x \/ (may /\ Better(s, v, x, r) = new)
      <4> HIDE DEF new
      <4> QED
        BY Zenon DEF Better, new
    <3> HIDE DEF may, new
    <3> QED
      BY <2>1, <3>1, <3>2, Zenon DEF may
  <2>5. CanEvict(s, v, r, FALSE, x.cost) => MayEvict(s, v, r)
    BY <2>2, CanEvictIs, Zenon DEF T
  <2>6. run[n].reg = None \/ (run[n].reg \in T /\ MayEvict(s, v, run[n].reg))
    BY <2>2, <2>3, <2>4, <2>5, Zenon
  <2> QED
    BY <2>1, <2>6
<1>6. run[N].reg = None \/ (run[N].reg \in T /\ MayEvict(s, v, run[N].reg))
  <2>1. 0 \in Fine
    <3>1. start.reg = None /\ 0 \in 0 .. N
      BY <1>0
    <3> HIDE DEF run, N, start
    <3> QED
      BY <1>4, <3>1, Zenon
  <2>2. N \in Fine
    <3> HIDE DEF Fine, N
    <3> QED
      BY <1>0, <1>5, <2>1, AllOf, Zenon
  <2> QED
    BY <2>2
<1>7. EvictionCandidate(s, v) = run[N].reg
  BY DEF EvictionCandidate, Loop, order
<1> HIDE DEF run, N
<1> QED
  BY <1>b, <1>6, <1>7, Zenon
(* Noting a broken hint as well changes nothing of it.                     *)
LEMMA EvictedForIs ==
  ASSUME NEW s, NEW v \in VRegs, NEW r \in Regs, Asked(s, v), MayEvict(s, v, r)
  PROVE  Answered(s, v, Answer(EvictedFor(s, v, r), r))
<1> DEFINE t == Evicted(s, v, r)
           noted == [t EXCEPT !.broken = AddOnce(@, {v})]
           same == [t EXCEPT !.broken = t.broken]
<1>1. Answered(s, v, Answer(t, r)) /\ Answered(s, v, Answer(noted, r))
  <2>1. Answered(s, v, Answer(t, r))
    BY EvictedIs
  <2> HIDE DEF t
  <2> QED
    BY <2>1, NotedAnswer, Zenon
<1>2. t \in Sessions
  BY <1>1 DEF Answered, Answer, Good
<1>3. same = t
  <2> HIDE DEF t
  <2> QED
    BY <1>2 DEF Sessions
<1>4. EvictedFor(s, v, r) = noted \/ EvictedFor(s, v, r) = same
  BY DEF EvictedFor
<1> HIDE DEF t, noted, same
<1> QED
  BY <1>1, <1>3, <1>4, Zenon

(* Queueing the range itself, to be split, keeps it.                       *)
LEMMA WaitingIs ==
  ASSUME NEW s, NEW v \in VRegs, Asked(s, v), s.stage[v] < Split
  PROVE  Answered(s, v, Answer(Waiting(s, v), None))
<1> DEFINE t == Waiting(s, v)
<1>1. s \in Sessions /\ Good(s) /\ v \in s.made /\ s.phys[v] = None
  BY DEF Asked, Good
<1>2. /\ t.phys = s.phys /\ t.cascade = s.cascade /\ t.nextCascade = s.nextCascade
      /\ t.stage = [w \in VRegs |-> IF w = v THEN Split ELSE s.stage[w]]
      /\ t.new = [w \in VRegs |-> s.new[w] + (IF w = v THEN 1 ELSE 0)]
      /\ t.made = s.made /\ t.broken = s.broken
      /\ t.fixed = s.fixed /\ t.undo = s.undo
      /\ t = [phys |-> t.phys, stage |-> t.stage, cascade |-> t.cascade,
              nextCascade |-> t.nextCascade, made |-> t.made, broken |-> t.broken,
              fixed |-> t.fixed, undo |-> t.undo, new |-> t.new]
  <2> DEFINE stage == [w \in VRegs |-> IF w = v THEN Split ELSE s.stage[w]]
             new == [w \in VRegs |-> s.new[w] + (IF w = v THEN 1 ELSE 0)]
  <2>1. [s.stage EXCEPT ![v] = Split] = stage
    BY <1>1, SessionIs
  <2>2. And(s.new, Once({v})) = new
    BY DEF And, Once
  <2>3. t = [s EXCEPT !.stage = [s.stage EXCEPT ![v] = Split], !.new = And(s.new, Once({v}))]
    BY <1>1 DEF Waiting, Sessions
  <2> HIDE DEF t, stage, new
  <2>4. t = [s EXCEPT !.stage = stage, !.new = new]
    BY <2>1, <2>2, <2>3
  <2>5. t.stage = stage /\ t.new = new
    BY <1>1, <2>4 DEF Sessions
  <2>6. /\ t.phys = s.phys /\ t.cascade = s.cascade /\ t.nextCascade = s.nextCascade
        /\ t.made = s.made /\ t.broken = s.broken
        /\ t.fixed = s.fixed /\ t.undo = s.undo
    BY <1>1, <2>4 DEF Sessions
  <2>7. t = [phys |-> t.phys, stage |-> t.stage, cascade |-> t.cascade,
             nextCascade |-> t.nextCascade, made |-> t.made, broken |-> t.broken,
             fixed |-> t.fixed, undo |-> t.undo, new |-> t.new]
    BY <1>1, <2>4 DEF Sessions
  <2> QED
    BY <2>5, <2>6, <2>7 DEF stage, new
<1> HIDE DEF t
<1>3. \A w \in VRegs : s.new[w] \in Nat
  BY <1>1, SessionIs
<1>4. t \in Sessions
  <2>1. t.stage \in [VRegs -> Stages]
    BY <1>1, <1>2, SessionIs DEF Stages
  <2>2. t.new \in [VRegs -> Nat]
    BY <1>2, <1>3
  <2>3. /\ t.phys \in [VRegs -> Regs \cup {None}] /\ t.cascade \in [VRegs -> Nat]
        /\ t.nextCascade \in Nat /\ t.made \in SUBSET VRegs /\ t.broken \in Seq(VRegs)
        /\ t.fixed \in SUBSET VRegs /\ t.undo \in SUBSET [reg: VRegs, phys: Regs]
    BY <1>1, <1>2, SessionIs
  <2> QED
    BY <1>2, <2>1, <2>2, <2>3, Zenon DEF Sessions
<1>5. Good(t)
  <2>1. Sound(t)
    <3>1. Sound(s)
      BY <1>1 DEF Good
    <3>2. \A w \in VRegs : t.phys[w] # None => t.phys[w] = s.phys[w] /\ w \in t.made
      BY <1>2, <3>1 DEF Sound
    <3> QED
      BY <1>1, <1>4, <3>1, <3>2, SoundWithLess, Zenon
  <2>2. Fresh(t) /\ Counted(t) /\ Backed(t)
    BY <1>1, <1>2 DEF Good, Fresh, Counted, Backed
  <2> QED
    BY <1>4, <2>1, <2>2 DEF Good
<1>6. Leads({v}, s, t)
  <2>1. s.stage[v] # Done
    BY <1>1, SessionIs DEF Split, Done, Stages
  <2>2. \A w \in VRegs : t.stage[w] = IF w = v THEN Split ELSE s.stage[w]
    BY <1>2
  <2>3. \A w \in VRegs : s.stage[w] = Done /\ w \in s.made => t.stage[w] = Done /\ w \in t.made
    BY <1>2, <2>1, <2>2
  <2>4. ASSUME NEW w \in VRegs \ {v} PROVE Leading(s, t, w)
    BY <1>2, <1>3 DEF Leading, Lost
  <2> QED
    BY <1>2, <2>3, <2>4 DEF Leads
<1>7. Answer(t, None).s = t /\ Answer(t, None).reg = None
  BY DEF Answer
<1>8. None \notin Regs /\ None # Fail
  BY RegsAre
<1>9. t.new[v] = s.new[v] + 1 /\ v \in t.made /\ t.phys[v] = None
  BY <1>1, <1>2
<1> QED
  BY <1>2, <1>5, <1>6, <1>7, <1>8, <1>9 DEF Answered, t

(* Spilling keeps it: the products are new, without registers, and queued  *)
(* once each.                                                              *)
LEMMA SpilledIs ==
  ASSUME Program(prog), NEW s, NEW v \in VRegs, Asked(s, v), s.stage[v] < Done
  PROVE  Answered(s, v, Answer(Spilled(s, v), None))
<1> DEFINE t == Spilled(s, v)
           P == prog.products[v]
<1>1. s \in Sessions /\ Good(s) /\ Sound(s) /\ v \in s.made /\ s.phys[v] = None
  BY DEF Asked, Good
<1>2. /\ t.phys = s.phys /\ t.cascade = s.cascade /\ t.nextCascade = s.nextCascade
      /\ t.stage = [w \in VRegs |-> IF w \in P THEN Done ELSE s.stage[w]]
      /\ t.new = [w \in VRegs |-> s.new[w] + (IF w \in P THEN 1 ELSE 0)]
      /\ t.made = (s.made \ {v}) \cup P /\ t.broken = s.broken
      /\ t.fixed = s.fixed /\ t.undo = s.undo
      /\ t = [phys |-> t.phys, stage |-> t.stage, cascade |-> t.cascade,
              nextCascade |-> t.nextCascade, made |-> t.made, broken |-> t.broken,
              fixed |-> t.fixed, undo |-> t.undo, new |-> t.new]
  <2> DEFINE stage == [w \in VRegs |-> IF w \in P THEN Done ELSE s.stage[w]]
             new == [w \in VRegs |-> s.new[w] + (IF w \in P THEN 1 ELSE 0)]
             made == (s.made \ {v}) \cup P
  <2>2. And(s.new, Once(P)) = new
    <3> HIDE DEF P
    <3> QED
      BY DEF And, Once, new
  <2>3. t = [s EXCEPT !.made = made, !.stage = stage, !.new = And(s.new, Once(P))]
    BY <1>1 DEF Spilled, Sessions
  <2> HIDE DEF t, stage, new, made, P
  <2>4. t = [s EXCEPT !.made = made, !.stage = stage, !.new = new]
    BY <2>2, <2>3
  <2>5. t.stage = stage /\ t.new = new /\ t.made = made
    BY <1>1, <2>4 DEF Sessions
  <2>6. /\ t.phys = s.phys /\ t.cascade = s.cascade /\ t.nextCascade = s.nextCascade
        /\ t.broken = s.broken /\ t.fixed = s.fixed /\ t.undo = s.undo
    BY <1>1, <2>4 DEF Sessions
  <2>7. t = [phys |-> t.phys, stage |-> t.stage, cascade |-> t.cascade,
             nextCascade |-> t.nextCascade, made |-> t.made, broken |-> t.broken,
             fixed |-> t.fixed, undo |-> t.undo, new |-> t.new]
    BY <1>1, <2>4 DEF Sessions
  <2> QED
    BY <2>5, <2>6, <2>7 DEF stage, new, made
<1>3. \A w \in VRegs : s.new[w] \in Nat
  BY <1>1, SessionIs
<1>a. P \in SUBSET VRegs
  BY ProgramIs
<1>b. P \cap s.made = {}
  BY <1>1, Zenon DEF Good, Fresh
<1>c. \A w \in P : s.phys[w] = None
  BY <1>1, <1>a, <1>b, Zenon DEF Sound
<1>d. \A w \in VRegs : t.new[w] = s.new[w] + (IF w \in P THEN 1 ELSE 0)
  BY <1>2
<1>e. \A w \in VRegs : t.stage[w] = IF w \in P THEN Done ELSE s.stage[w]
  BY <1>2
<1>f. \A w \in VRegs : prog.products[w] # {} => w \in prog.values
  BY ProductsAre, Zenon
<1>g. /\ P \cap prog.values = {}
      /\ \A w \in VRegs \ {v} : P \cap prog.products[w] = {}
      /\ \A w \in P : prog.live[w] # {}
  BY ProductsAre, Zenon
<1> HIDE DEF t, P
<1>4. t \in Sessions
  <2>1. t.stage \in [VRegs -> Stages]
    BY <1>1, <1>2, SessionIs DEF Stages
  <2>2. t.new \in [VRegs -> Nat]
    BY <1>2, <1>3
  <2>3. /\ t.phys \in [VRegs -> Regs \cup {None}] /\ t.cascade \in [VRegs -> Nat]
        /\ t.nextCascade \in Nat /\ t.broken \in Seq(VRegs)
        /\ t.fixed \in SUBSET VRegs /\ t.undo \in SUBSET [reg: VRegs, phys: Regs]
    BY <1>1, <1>2, SessionIs
  <2>4. t.made \in SUBSET VRegs
    BY <1>1, <1>2, <1>a, SessionIs
  <2> QED
    BY <1>2, <2>1, <2>2, <2>3, <2>4, Zenon DEF Sessions
<1>5. Good(t)
  <2>1. Sound(t)
    <3>1. \A w \in VRegs : t.phys[w] # None => t.phys[w] = s.phys[w] /\ w \in t.made
      BY <1>1, <1>2 DEF Sound
    <3> QED
      BY <1>1, <1>4, <3>1, SoundWithLess, Zenon
  <2>2. Fresh(t)
    <3>1. SUFFICES ASSUME NEW w \in t.made
                   PROVE  prog.live[w] # {} /\ prog.products[w] \cap t.made = {}
      BY Zenon DEF Fresh
    <3>2. CASE w \in P
      <4>1. prog.products[w] = {}
        BY <1>a, <1>f, <1>g, <3>2, Zenon
      <4> QED
        BY <1>g, <3>2, <4>1
    <3>3. CASE w \notin P
      <4>1. w \in s.made /\ w # v
        BY <1>2, <3>3
      <4>2. prog.live[w] # {} /\ prog.products[w] \cap s.made = {}
        BY <1>1, <4>1, Zenon DEF Good, Fresh
      <4>3. w \in VRegs
        BY <1>1, <4>1, SessionIs
      <4>4. P \cap prog.products[w] = {}
        BY <1>g, <4>1, <4>3
      <4> QED
        BY <1>2, <4>2, <4>4
    <3> QED
      BY <3>2, <3>3
  <2>3. Counted(t) /\ Backed(t)
    BY <1>1, <1>2 DEF Good, Counted, Backed
  <2> QED
    BY <1>4, <2>1, <2>2, <2>3 DEF Good
<1>6. Leads({v}, s, t)
  <2>1. s.stage[v] # Done
    BY <1>1, SessionIs DEF Done, Stages
  <2>3. \A w \in VRegs : s.stage[w] = Done /\ w \in s.made => t.stage[w] = Done /\ w \in t.made
    BY <1>2, <1>e, <2>1
  <2>4. ASSUME NEW w \in VRegs \ {v} PROVE Leading(s, t, w)
    <3>1. Lost(s, t, w) <=> w \in P
      BY <1>2, <1>b, <1>c DEF Lost
    <3> QED
      BY <1>2, <1>3, <1>d, <3>1 DEF Leading
  <2> QED
    BY <1>2, <2>3, <2>4 DEF Leads
<1>7. Answer(t, None).s = t /\ Answer(t, None).reg = None
  BY DEF Answer
<1>8. None \notin Regs /\ None # Fail
  BY RegsAre
<1>9. t.new[v] = s.new[v] + 0 /\ v \notin t.made /\ t.phys[v] = None
  BY <1>1, <1>2, <1>b, <1>d
<1> QED
  BY <1>2, <1>5, <1>6, <1>7, <1>8, <1>9 DEF Answered, t

(* `select_or_split_impl` up to the last chance answers; where it does not *)
(* know a register, nothing was done.                                      *)
LEMMA EvictIs ==
  ASSUME Program(prog), NEW s, NEW v \in VRegs, Asked(s, v)
  PROVE  \/ Answered(s, v, Evict(s, v)) /\ Evict(s, v).reg # Fail
         \/ Evict(s, v) = Answer(s, Fail)
<1> DEFINE r == IF s.stage[v] = Split THEN None ELSE EvictionCandidate(s, v)
<1>1. r = None \/ (r \in Regs /\ MayEvict(s, v, r))
  BY CandidateIs, Zenon
<1>2. Evict(s, v) = IF r # None THEN Answer(EvictedFor(s, v, r), r)
                    ELSE IF s.stage[v] < Split THEN Answer(Waiting(s, v), None)
                    ELSE IF s.stage[v] < Done /\ Spillable(v) THEN Answer(Spilled(s, v), None)
                    ELSE Answer(s, Fail)
  BY Zenon DEF Evict
<1> HIDE DEF r
<1>3. r \in Regs /\ MayEvict(s, v, r) => Answered(s, v, Answer(EvictedFor(s, v, r), r))
  BY EvictedForIs, Zenon
<1>4. /\ Answer(EvictedFor(s, v, r), r).reg = r
      /\ Answer(Waiting(s, v), None).reg = None
      /\ Answer(Spilled(s, v), None).reg = None
  BY DEF Answer
<1>5. Fail \notin Regs /\ None # Fail
  BY RegsAre
<1>6. s.stage[v] < Split => Answered(s, v, Answer(Waiting(s, v), None))
  BY WaitingIs, Zenon
<1>7. s.stage[v] < Done => Answered(s, v, Answer(Spilled(s, v), None))
  BY SpilledIs, Zenon
<1> QED
  BY <1>1, <1>2, <1>3, <1>4, <1>5, <1>6, <1>7, Zenon

(* Up to the last chance the contract is kept, and a failure changed       *)
(* nothing.                                                                *)
LEMMA SettledIs ==
  ASSUME Program(prog), NEW s, NEW v \in VRegs, Asked(s, v)
  PROVE  /\ Answered(s, v, Settled(s, v))
         /\ Settled(s, v).reg = Fail => Settled(s, v) = Answer(s, Fail)
<1> DEFINE tried == TryAssign(s, v)
<1>1. \/ Answered(s, v, tried) /\ tried.reg \in Regs
      \/ tried = Answer(s, None)
  BY TryAssignIs, Zenon
<1>2. Settled(s, v) = IF tried.reg # None \/ s.new # Once({}) THEN tried ELSE Evict(s, v)
  BY Zenon DEF Settled
<1> HIDE DEF tried
<1>3. None \notin Regs /\ Fail \notin Regs /\ None # Fail
  BY RegsAre
<1>4. Answer(s, None).reg = None
  BY DEF Answer
<1>5. Answered(s, v, Answer(s, Fail))
  BY FailIsAnswer
<1>6. s.new # Once({}) => Answered(s, v, Answer(s, None))
  BY NoneIsAnswer, Zenon
<1>7. \/ Answered(s, v, Evict(s, v)) /\ Evict(s, v).reg # Fail
      \/ Evict(s, v) = Answer(s, Fail)
  BY EvictIs, Zenon
<1>8. CASE tried = Answer(s, None)
  BY <1>2, <1>3, <1>4, <1>5, <1>6, <1>7, <1>8, Zenon
<1>9. CASE Answered(s, v, tried) /\ tried.reg \in Regs
  BY <1>2, <1>3, <1>9, Zenon
<1> QED
  BY <1>1, <1>8, <1>9, Zenon

-----------------------------------------------------------------------------
(* Recoloring: who is in the way leaves.                                   *)

(* d is s where v has r, and those of C, which held a part of it, nothing. *)
Replaced(s, v, r, C, d) ==
  /\ \A w \in VRegs : d.phys[w] = IF w = v THEN r ELSE IF w \in C THEN None ELSE s.phys[w]
  /\ \A w \in VRegs : d.new[w] = 0
  /\ d.undo = s.undo \cup {[reg |-> w, phys |-> s.phys[w]] : w \in C}
  /\ d.made = s.made /\ d.stage = s.stage /\ d.fixed = s.fixed

(* The queue of those of C.                                                *)
QueueOf(C, q) ==
  /\ q \in SUBSET [prio: Nat, reg: C] /\ IsFiniteSet(q)
  /\ \A x \in q : \A y \in q : x.reg = y.reg => x = y
  /\ \A w \in C : \E x \in q : x.reg = w

(* Who may be displaced for v.                                             *)
MayLeave(s, v, r, C) ==
  /\ C = HoldersOf(s, v, r) /\ C \in SUBSET s.made /\ C \cap s.fixed = {} /\ v \notin C
  /\ \A w \in C : s.phys[w] # None

(* Who may be recolored can leave: nobody fixed and no pinned range.       *)
LEMMA MayLeaveIs ==
  ASSUME NEW s, NEW v \in VRegs, Asked(s, v), NEW r, MayRecolor(s, v, r)
  PROVE  MayLeave(s, v, r, HoldersOf(s, v, r))
<1>1. \A w : w \in HoldersOf(s, v, r) <=> InTheWay(s, v, r, w)
  BY HoldersAre, Zenon
<1>2. \A w \in HoldersOf(s, v, r) : w \notin s.fixed /\ w \in s.made /\ s.phys[w] # None
  BY <1>1, Zenon DEF MayRecolor, InTheWay
<1>3. v \notin HoldersOf(s, v, r)
  BY <1>2, Zenon DEF Asked
<1> QED
  BY <1>2, <1>3 DEF MayLeave

(* What displacing does: candidates leave, each to be undone; v is as if   *)
(* it had r.                                                               *)
LEMMA ReplacedIs ==
  ASSUME NEW s, NEW v \in VRegs, Asked(s, v), NEW r \in Regs
  PROVE  LET d == Displaced(s, v, r).s
         IN  /\ Replaced(s, v, r, HoldersOf(s, v, r), d)
             /\ d.cascade = s.cascade /\ d.nextCascade = s.nextCascade /\ d.broken = s.broken
             /\ d = [phys |-> d.phys, stage |-> d.stage, cascade |-> d.cascade,
                     nextCascade |-> d.nextCascade, made |-> d.made, broken |-> d.broken,
                     fixed |-> d.fixed, undo |-> d.undo, new |-> d.new]
             /\ d.phys = [w \in VRegs |-> d.phys[w]] /\ d.new = [w \in VRegs |-> d.new[w]]
<1> DEFINE C == HoldersOf(s, v, r)
           d == Displaced(s, v, r).s
           phys == [w \in VRegs |-> IF w = v THEN r ELSE IF w \in C THEN None ELSE s.phys[w]]
           undo == s.undo \cup {[reg |-> w, phys |-> s.phys[w]] : w \in C}
<1>1. s \in Sessions
  BY DEF Asked, Good
<1>2. d = [Freed(s, C) EXCEPT !.phys[v] = r, !.undo = undo, !.new = Once({})]
  <2>1. d = [Freed(s, C) EXCEPT !.phys[v] = r,
                !.undo = @ \cup {[reg |-> w, phys |-> s.phys[w]] : w \in C},
                !.new = Once({})]
    BY DEF Displaced
  <2>2. Freed(s, C).undo = s.undo
    <3> HIDE DEF C
    <3> QED
      BY <1>1 DEF Freed, Sessions
  <2> HIDE DEF C, d
  <2> QED
    BY <2>1, <2>2
<1>3. [[w \in VRegs |-> IF w \in C THEN None ELSE s.phys[w]] EXCEPT ![v] = r] = phys
  <2> HIDE DEF C
  <2> QED
    OBVIOUS
<1>4. Freed(s, C) = [s EXCEPT !.phys = [w \in VRegs |-> IF w \in C THEN None ELSE s.phys[w]]]
  <2> HIDE DEF C
  <2> QED
    BY <1>1 DEF Freed, Sessions
<1> DEFINE freed == [w \in VRegs |-> IF w \in C THEN None ELSE s.phys[w]]
           f == Freed(s, C)
<1>5. f.phys = freed /\ f = [s EXCEPT !.phys = freed] /\ [freed EXCEPT ![v] = r] = phys
  <2>1. f = [s EXCEPT !.phys = freed]
    BY <1>4
  <2>2. [freed EXCEPT ![v] = r] = phys
    BY <1>3
  <2> HIDE DEF f, freed, phys
  <2> QED
    BY <1>1, <2>1, <2>2 DEF Sessions
<1>6. d = [f EXCEPT !.phys[v] = r, !.undo = undo, !.new = Once({})]
  BY <1>2
<1> HIDE DEF d, C, phys, undo, f, freed
<1>7. d = [s EXCEPT !.phys = phys, !.undo = undo, !.new = Once({})]
  BY <1>1, <1>5, <1>6 DEF Sessions
<1>8. d.phys = phys /\ d.undo = undo /\ d.new = Once({})
  BY <1>1, <1>7 DEF Sessions
<1>9. /\ d.stage = s.stage /\ d.made = s.made /\ d.fixed = s.fixed
      /\ d.cascade = s.cascade /\ d.nextCascade = s.nextCascade /\ d.broken = s.broken
  BY <1>1, <1>7 DEF Sessions
<1>10. d = [phys |-> d.phys, stage |-> d.stage, cascade |-> d.cascade,
            nextCascade |-> d.nextCascade, made |-> d.made, broken |-> d.broken,
            fixed |-> d.fixed, undo |-> d.undo, new |-> d.new]
  BY <1>1, <1>7 DEF Sessions
<1>11. \A w \in VRegs : d.new[w] = 0
  BY <1>8 DEF Once
<1>12. d.new = [w \in VRegs |-> d.new[w]]
  BY <1>8 DEF Once
<1>13. \A w \in VRegs : d.phys[w] = IF w = v THEN r ELSE IF w \in C THEN None ELSE s.phys[w]
  BY <1>8 DEF phys
<1>14. d.phys = [w \in VRegs |-> d.phys[w]]
  BY <1>8 DEF phys
<1>15. Replaced(s, v, r, C, d)
  BY <1>8, <1>9, <1>11, <1>13, Zenon DEF Replaced, undo
<1> QED
  BY <1>9, <1>10, <1>12, <1>14, <1>15, Zenon DEF d, C

(* With v in r, the matrix is sound.                                       *)
LEMMA DisplacedIs ==
  ASSUME Program(prog), NEW s, NEW v \in VRegs, Asked(s, v), v \in s.fixed,
         NEW r \in Regs, r \in ToSet(prog.order[v]), r \notin prog.blocked[v],
         MayRecolor(s, v, r)
  PROVE  Good(Displaced(s, v, r).s)
<1> DEFINE C == HoldersOf(s, v, r)
           d == Displaced(s, v, r).s
<1>1. /\ Replaced(s, v, r, C, d)
      /\ d.cascade = s.cascade /\ d.nextCascade = s.nextCascade /\ d.broken = s.broken
      /\ d = [phys |-> d.phys, stage |-> d.stage, cascade |-> d.cascade,
              nextCascade |-> d.nextCascade, made |-> d.made, broken |-> d.broken,
              fixed |-> d.fixed, undo |-> d.undo, new |-> d.new]
      /\ d.phys = [w \in VRegs |-> d.phys[w]] /\ d.new = [w \in VRegs |-> d.new[w]]
  BY ReplacedIs, Zenon
<1>2. MayLeave(s, v, r, C)
  BY MayLeaveIs, Zenon
<1>a. \A w : w \in C <=> InTheWay(s, v, r, w)
  BY HoldersAre, Zenon
<1> HIDE DEF d, C
<1>3. s \in Sessions /\ Good(s) /\ Sound(s) /\ v \in s.made /\ s.phys[v] = None
  BY DEF Asked, Good
<1>b. C \subseteq VRegs
  BY <1>2, <1>3, SessionIs DEF MayLeave
<1>c. r # None
  BY RegsAre
<1>4. d \in Sessions
  <2>1. d.phys \in [VRegs -> Regs \cup {None}]
    <3>1. \A w \in VRegs : d.phys[w] \in Regs \cup {None}
      BY <1>1, <1>3, SessionIs DEF Replaced
    <3> QED
      BY <1>1, <3>1
  <2>2. d.new \in [VRegs -> Nat]
    BY <1>1 DEF Replaced
  <2>3. d.undo \in SUBSET [reg: VRegs, phys: Regs]
    <3>1. s.undo \in SUBSET [reg: VRegs, phys: Regs]
      BY <1>3, SessionIs
    <3>2. \A w \in C : [reg |-> w, phys |-> s.phys[w]] \in [reg: VRegs, phys: Regs]
      BY <1>2, <1>3, <1>b, SessionIs DEF MayLeave
    <3> QED
      BY <1>1, <3>1, <3>2 DEF Replaced
  <2>4. d.stage \in [VRegs -> Stages] /\ d.cascade \in [VRegs -> Nat]
        /\ d.nextCascade \in Nat /\ d.broken \in Seq(VRegs)
        /\ d.fixed \in SUBSET VRegs /\ d.made \in SUBSET VRegs
    BY <1>1, <1>3, SessionIs DEF Replaced
  <2> QED
    BY <1>1, <2>1, <2>2, <2>3, <2>4, Zenon DEF Sessions
<1>5. \A w \in VRegs : d.phys[w] = IF w = v THEN r ELSE IF w \in C THEN None ELSE s.phys[w]
  BY <1>1, Zenon DEF Replaced
<1>6. Sound(d)
  <2>1. \A x \in VRegs \ {v} : d.phys[x] # None => d.phys[x] = s.phys[x] /\ x \notin C
    BY <1>5
  <2>2. \A x \in VRegs \ {v} : d.phys[x] # None /\ Meets(v, x)
                                 => UnitsOf[r] \cap UnitsOf[d.phys[x]] = {}
    <3>1. SUFFICES ASSUME NEW x \in VRegs \ {v}, d.phys[x] # None, Meets(v, x)
                   PROVE  UnitsOf[r] \cap UnitsOf[d.phys[x]] = {}
      OBVIOUS
    <3>2. d.phys[x] = s.phys[x] /\ x \in s.made /\ s.phys[x] # None
      BY <1>3, <2>1, <3>1, Zenon DEF Sound
    <3> QED
      BY <1>a, <2>1, <3>1, <3>2, Zenon DEF InTheWay
  <2>3. SUFFICES ASSUME NEW w \in VRegs, d.phys[w] # None
                 PROVE  /\ w \in d.made
                        /\ d.phys[w] \notin prog.blocked[w]
                        /\ d.phys[w] \in ToSet(prog.order[w])
                        /\ \A x \in VRegs \ {w} : Apart(d, w, x)
    BY Zenon DEF Sound
  <2>4. CASE w = v
    <3>1. d.phys[w] = r
      BY <1>5, <2>4
    <3>2. \A x \in VRegs \ {w} : Apart(d, w, x)
      BY <2>2, <2>4, <3>1 DEF Apart
    <3> QED
      BY <1>1, <1>3, <2>4, <3>1, <3>2 DEF Replaced
  <2>5. CASE w # v
    <3>1. d.phys[w] = s.phys[w]
      BY <2>1, <2>3, <2>5
    <3>2. /\ w \in s.made
          /\ s.phys[w] \notin prog.blocked[w] /\ s.phys[w] \in ToSet(prog.order[w])
          /\ \A x \in VRegs \ {w} : Apart(s, w, x)
      BY <1>3, <2>3, <3>1, Zenon DEF Sound
    <3>3. ASSUME NEW x \in VRegs \ {w} PROVE Apart(d, w, x)
      <4>1. CASE x # v
        BY <2>1, <3>1, <3>2, <3>3, <4>1 DEF Apart
      <4>2. CASE x = v
        <5>1. Meets(w, v) => UnitsOf[r] \cap UnitsOf[d.phys[w]] = {}
          BY <2>2, <2>3, <2>5, MeetsBack
        <5>2. d.phys[v] = r
          BY <1>5
        <5> QED
          BY <4>2, <5>1, <5>2 DEF Apart
      <4> QED
        BY <4>1, <4>2
    <3>4. w \in d.made
      BY <1>1, <3>2 DEF Replaced
    <3> QED
      BY <3>1, <3>2, <3>3, <3>4
  <2> QED
    BY <2>4, <2>5
<1>7. Fresh(d) /\ Counted(d)
  BY <1>1, <1>3 DEF Good, Fresh, Counted, Replaced
<1>8. Backed(d)
  <2>1. SUFFICES ASSUME NEW e \in d.undo PROVE d.phys[e.reg] = None \/ e.reg \in d.fixed
    BY DEF Backed
  <2>2. CASE e \in s.undo
    <3>1. e.reg \in VRegs /\ (s.phys[e.reg] = None \/ e.reg \in s.fixed)
      BY <1>3, <2>2, SessionIs DEF Good, Backed
    <3>3. d.fixed = s.fixed
      BY <1>1 DEF Replaced
    <3> QED
      BY <1>5, <3>1, <3>3
  <2>3. CASE e \in {[reg |-> w, phys |-> s.phys[w]] : w \in C}
    <3>1. e.reg \in C
      BY <2>3
    <3> QED
      BY <1>2, <1>5, <1>b, <3>1 DEF MayLeave
  <2>4. d.undo = s.undo \cup {[reg |-> w, phys |-> s.phys[w]] : w \in C}
    BY <1>1 DEF Replaced
  <2> QED
    BY <2>2, <2>3, <2>4
<1> QED
  BY <1>4, <1>6, <1>7, <1>8 DEF Good, d

(* What was displaced is queued.                                           *)
LEMMA QueueIs ==
  ASSUME Program(prog), NEW s, NEW v \in VRegs, NEW r, Asked(s, v)
  PROVE  QueueOf(HoldersOf(s, v, r), Displaced(s, v, r).queue)
<1> DEFINE C == HoldersOf(s, v, r)
           p(w) == Priority(Freed(s, {x \in C : Before(s, r, x, w)}), w)
           entry(w) == [prio |-> p(w), reg |-> w]
           q == {entry(w) : w \in C}
<1>1. Displaced(s, v, r).queue = q
  BY DEF Displaced
<1>2. s \in Sessions /\ Fresh(s)
  BY DEF Asked, Good
<1>3. C \in SUBSET VRegs /\ C \in SUBSET s.made
  <2>1. \A w : w \in C <=> InTheWay(s, v, r, w)
    BY HoldersAre, Zenon
  <2>2. \A w \in C : w \in s.made
    BY <2>1, Zenon DEF InTheWay
  <2> HIDE DEF C
  <2> QED
    BY <1>2, <2>2, SessionIs
<1>4. \A w \in C : p(w) \in Nat
  <2>1. \A w \in C : prog.live[w] # {} /\ w \in VRegs
    BY <1>2, <1>3, Zenon DEF Fresh
  <2> HIDE DEF C
  <2> QED
    BY <2>1, PriorityIs, Zenon
<1>5. IsFiniteSet(C)
  <2> HIDE DEF C
  <2> QED
    BY <1>3, RegsAre, FS_Subset
<1> HIDE DEF C, p
<1>6. \A w \in C : entry(w).reg = w /\ entry(w) \in [prio: Nat, reg: C]
  BY <1>4
<1>7. IsFiniteSet(q)
  <2> DEFINE f == [w \in C |-> entry(w)]
  <2>1. f \in Surjection(C, q)
    BY DEF Surjection
  <2> HIDE DEF f, q
  <2> QED
    BY <1>5, <2>1, FS_Surjection
<1>8. /\ q \in SUBSET [prio: Nat, reg: C]
      /\ \A x \in q : \A y \in q : x.reg = y.reg => x = y
      /\ \A w \in C : \E x \in q : x.reg = w
  <2> HIDE DEF entry
  <2> QED
    BY <1>6
<1> HIDE DEF q
<1> QED
  BY <1>1, <1>7, <1>8, Zenon DEF QueueOf, C

-----------------------------------------------------------------------------
(* Recoloring: those that left are given registers, one after the other.   *)

(* What one level is owed by the next.                                     *)
Contract(f) == \A s \in Sessions : \A v \in VRegs : Asked(s, v) => Answered(s, v, f[<<s, v>>])

(* Putting a range in a register nobody it meets has a byte of leaves the  *)
(* matrix sound.                                                           *)
LEMMA PlacedIsSound ==
  ASSUME NEW t, Sound(t), NEW w \in VRegs, w \in t.made, NEW r, CanHave(t, w, r),
         NEW u, u.made = t.made,
         \A x \in VRegs : u.phys[x] = IF x = w THEN r ELSE t.phys[x]
  PROVE  Sound(u)
<1>1. SUFFICES ASSUME NEW x \in VRegs, u.phys[x] # None
               PROVE  /\ x \in u.made
                      /\ u.phys[x] \notin prog.blocked[x]
                      /\ u.phys[x] \in ToSet(prog.order[x])
                      /\ \A y \in VRegs \ {x} : Apart(u, x, y)
  BY Zenon DEF Sound
<1>2. CASE x = w
  <2>1. u.phys[x] = r
    BY <1>2
  <2>2. ASSUME NEW y \in VRegs \ {x} PROVE Apart(u, x, y)
    <3>1. u.phys[y] = t.phys[y]
      BY <1>2, <2>2
    <3> QED
      BY <1>2, <2>1, <3>1 DEF Apart, CanHave
  <2> QED
    BY <1>2, <2>1, <2>2 DEF CanHave
<1>3. CASE x # w
  <2>1. u.phys[x] = t.phys[x]
    BY <1>3
  <2>2. /\ x \in t.made
        /\ t.phys[x] \notin prog.blocked[x] /\ t.phys[x] \in ToSet(prog.order[x])
        /\ \A y \in VRegs \ {x} : Apart(t, x, y)
    BY <1>1, <2>1, Zenon DEF Sound
  <2>3. ASSUME NEW y \in VRegs \ {x} PROVE Apart(u, x, y)
    <3>1. CASE y # w
      <4>1. u.phys[y] = t.phys[y]
        BY <3>1
      <4> QED
        BY <2>1, <2>2, <2>3, <4>1 DEF Apart
    <3>2. CASE y = w
      <4>1. Meets(w, x) => UnitsOf[r] \cap UnitsOf[t.phys[x]] = {}
        BY <1>1, <2>1 DEF CanHave
      <4>2. u.phys[w] = r
        OBVIOUS
      <4> QED
        BY <2>1, <3>2, <4>1, <4>2, MeetsBack DEF Apart
    <3> QED
      BY <3>1, <3>2
  <2> QED
    BY <2>1, <2>2, <2>3
<1> QED
  BY <1>2, <1>3

(* A range that a recoloring gave a register.                              *)
Placed(t, w, r) == [t EXCEPT !.phys[w] = r, !.fixed = @ \cup {w}]

(* Putting a candidate where the call one deeper says keeps the session    *)
(* good.                                                                   *)
LEMMA PlacedIs ==
  ASSUME NEW t, Good(t), NEW w \in VRegs, w \in t.made, t.phys[w] = None,
         NEW r \in Regs, CanHave(t, w, r)
  PROVE  LET u == Placed(t, w, r)
         IN  /\ Good(u) /\ u.made = t.made /\ u.stage = t.stage
             /\ u.undo = t.undo /\ u.new = t.new /\ u.fixed = t.fixed \cup {w}
             /\ \A x \in VRegs : u.phys[x] = IF x = w THEN r ELSE t.phys[x]
<1> DEFINE u == Placed(t, w, r)
           phys == [x \in VRegs |-> IF x = w THEN r ELSE t.phys[x]]
<1>1. t \in Sessions /\ Sound(t) /\ Fresh(t) /\ Counted(t) /\ Backed(t)
  BY DEF Good
<1>2. [t.phys EXCEPT ![w] = r] = phys
  BY <1>1, SessionIs
<1>3. u = [t EXCEPT !.phys = phys, !.fixed = t.fixed \cup {w}]
  <2>1. u = [t EXCEPT !.phys = [t.phys EXCEPT ![w] = r], !.fixed = t.fixed \cup {w}]
    BY <1>1 DEF Placed, Sessions
  <2> HIDE DEF u, phys
  <2> QED
    BY <1>2, <2>1
<1> HIDE DEF u, phys
<1>4. /\ u.phys = phys /\ u.fixed = t.fixed \cup {w}
      /\ u.made = t.made /\ u.stage = t.stage /\ u.undo = t.undo /\ u.new = t.new
      /\ u.cascade = t.cascade /\ u.nextCascade = t.nextCascade /\ u.broken = t.broken
  BY <1>1, <1>3 DEF Sessions
<1>5. u = [phys |-> u.phys, stage |-> u.stage, cascade |-> u.cascade,
           nextCascade |-> u.nextCascade, made |-> u.made, broken |-> u.broken,
           fixed |-> u.fixed, undo |-> u.undo, new |-> u.new]
  BY <1>1, <1>3 DEF Sessions
<1>6. \A x \in VRegs : u.phys[x] = IF x = w THEN r ELSE t.phys[x]
  BY <1>4 DEF phys
<1>7. u \in Sessions
  <2>1. u.phys \in [VRegs -> Regs \cup {None}]
    BY <1>1, <1>4, SessionIs DEF phys
  <2>2. /\ u.cascade \in [VRegs -> Nat] /\ u.nextCascade \in Nat
        /\ u.stage \in [VRegs -> Stages] /\ u.made \in SUBSET VRegs
        /\ u.broken \in Seq(VRegs) /\ u.undo \in SUBSET [reg: VRegs, phys: Regs]
        /\ u.new \in [VRegs -> Nat] /\ u.fixed \in SUBSET VRegs
    BY <1>1, <1>4, SessionIs
  <2> QED
    BY <1>5, <2>1, <2>2, Zenon DEF Sessions
<1>8. Sound(u)
  BY <1>1, <1>4, <1>6, PlacedIsSound
<1>9. Fresh(u) /\ Counted(u)
  BY <1>1, <1>4 DEF Fresh, Counted
<1>10. Backed(u)
  <2>1. SUFFICES ASSUME NEW e \in t.undo PROVE u.phys[e.reg] = None \/ e.reg \in u.fixed
    BY <1>4 DEF Backed
  <2>2. e.reg \in VRegs /\ (t.phys[e.reg] = None \/ e.reg \in t.fixed)
    BY <1>1, SessionIs DEF Backed
  <2> QED
    BY <1>4, <1>6, <2>2
<1> QED
  BY <1>4, <1>6, <1>7, <1>8, <1>9, <1>10 DEF Good, u

(* The loop, of those of C in the session d: what is left of the queue q   *)
(* in its n-th turn, and what it came to.                                  *)
Stands(C, rest, s, c) ==
  /\ s.new[c] = 0
  /\ IF \E e \in rest : e.reg = c
     THEN s.phys[c] = None /\ c \in s.made
     ELSE s.phys[c] # None /\ c \in s.fixed
LeftOf(q, n, rest) ==
  rest \subseteq q /\ IsFiniteSet(rest) /\ Cardinality(rest) = Cardinality(q) - n
Going(C, d, q, n, x) ==
  /\ x.reg = None /\ Good(x.s) /\ Leads(C, d, x.s)
  /\ LeftOf(q, n, x.queue)
  /\ \A c \in C : Stands(C, x.queue, x.s, c)
GivenUp(C, d, x) == x.reg = Fail /\ Good(x.s) /\ Leads(C, d, x.s)

(* What was done for one of C, and that it has its register now, is done   *)
(* for all of them.                                                        *)
LEMMA PlacedLeads ==
  ASSUME NEW d, NEW t, NEW u, NEW C, NEW w \in C, Leads(C, d, t),
         u.made = t.made, u.stage = t.stage, u.undo = t.undo, u.new = t.new,
         t.fixed \subseteq u.fixed, C \subseteq VRegs,
         d.undo \subseteq [reg: VRegs, phys: Regs], t.undo \subseteq [reg: VRegs, phys: Regs],
         \A x \in VRegs \ {w} : u.phys[x] = t.phys[x]
  PROVE  Leads(C, d, u)
<1>1. /\ d.fixed \subseteq u.fixed /\ d.undo \subseteq u.undo
      /\ \A x \in VRegs : d.stage[x] = Done /\ x \in d.made => u.stage[x] = Done /\ x \in u.made
  BY DEF Leads
<1>2. ASSUME NEW e \in u.undo \ d.undo PROVE Displacing(C, d, u, e)
  <2>1. Displacing(C, d, t, e)
    BY DEF Leads
  <2>2. e.reg \in VRegs /\ e.reg \notin C
    BY <2>1 DEF Displacing
  <2> QED
    BY <2>1, <2>2 DEF Displacing
<1>3. ASSUME NEW x \in VRegs \ C PROVE Leading(d, u, x)
  <2>1. Leading(d, t, x)
    BY DEF Leads
  <2>2. u.phys[x] = t.phys[x]
    OBVIOUS
  <2> QED
    BY <2>1, <2>2 DEF Leading, Undone, Lost
<1> QED
  BY <1>1, <1>2, <1>3 DEF Leads

(* A turn of the loop over candidates recolors one more of them, or gives  *)
(* up.                                                                     *)
LEMMA RecoloredOneIs ==
  ASSUME NEW C, C \subseteq VRegs, NEW d \in Sessions, NEW q, QueueOf(C, q),
         NEW deeper, Contract(deeper), NEW n \in Nat, n < Cardinality(q),
         NEW x, Going(C, d, q, n, x)
  PROVE  LET y == RecoloredOne(x, deeper)
         IN  Going(C, d, q, n + 1, y) \/ GivenUp(C, d, y)
<1> DEFINE first == First(x.queue)
           w == first.reg
           got == deeper[<<x.s, w>>]
           y == RecoloredOne(x, deeper)
           rest == x.queue \ {first}
<1>1. /\ x.reg = None /\ Good(x.s) /\ Leads(C, d, x.s)
      /\ x.queue \subseteq q /\ IsFiniteSet(x.queue)
      /\ Cardinality(x.queue) = Cardinality(q) - n
      /\ \A c \in C : Stands(C, x.queue, x.s, c)
  BY Zenon DEF Going, LeftOf
<1>2. Cardinality(q) \in Nat
  BY FS_CardinalityType DEF QueueOf
<1>3. x.queue # {}
  <2>1. Cardinality(x.queue) # 0
    BY <1>1, <1>2
  <2> QED
    BY <2>1, FS_EmptySet
<1>4. first \in x.queue
  <2>1. x.queue \in SUBSET [prio: Nat, reg: VRegs]
    BY <1>1 DEF QueueOf
  <2> QED
    BY <1>1, <1>3, <2>1, FirstIs, Zenon
<1>5. w \in C /\ w \in VRegs
  BY <1>1, <1>4 DEF QueueOf
<1>6. /\ IsFiniteSet(rest) /\ Cardinality(rest) = Cardinality(q) - (n + 1)
      /\ rest \subseteq q
  <2> HIDE DEF first
  <2>1. IsFiniteSet(rest) /\ Cardinality(rest) = Cardinality(x.queue) - 1
    BY <1>1, <1>4, FS_RemoveElement
  <2> QED
    BY <1>1, <1>2, <2>1
<1>7. \A c \in C : (\E e \in rest : e.reg = c) <=> c # w /\ \E e \in x.queue : e.reg = c
  <2> HIDE DEF first
  <2>1. \A e \in rest : e.reg # w
    BY <1>1, <1>4, Zenon DEF QueueOf
  <2> QED
    BY <2>1
<1> HIDE DEF first, got, y
<1>8. x.s.phys[w] = None /\ w \in x.s.made /\ x.s.new[w] = 0
  BY <1>1, <1>4, <1>5, Zenon DEF Stands
<1>9. x.s \in Sessions
  BY <1>1 DEF Good
<1>10. Answered(x.s, w, got)
  <2>1. Asked(x.s, w)
    BY <1>1, <1>8, Zenon DEF Asked
  <2> HIDE DEF w
  <2> QED
    BY <1>5, <1>9, <2>1, Zenon DEF Contract, got
<1>11. /\ Good(got.s) /\ Leads({w}, x.s, got.s) /\ got.s.phys[w] = None
       /\ got.reg \in Regs \cup {None, Fail} /\ got.s \in Sessions
  BY <1>10, Zenon DEF Answered, Good
<1>12. \A c \in C : x.s.phys[c] = None \/ c \in x.s.fixed
  BY <1>1, Zenon DEF Stands
<1>13. Leads(C, d, got.s)
  <2> DEFINE D == {w}
             t == x.s
             u == got.s
  <2>1. D \subseteq C
    BY <1>5
  <2>2. /\ Leads(C, d, t) /\ Leads(D, t, u) /\ t \in Sessions /\ u \in Sessions
        /\ \A c \in C : t.phys[c] = None \/ c \in t.fixed
    BY <1>1, <1>9, <1>11, <1>12, Zenon
  <2> HIDE DEF D, t, u
  <2>3. Leads(C, d, u)
    BY <2>1, <2>2, LeadsOn, Zenon
  <2> QED
    BY <2>3 DEF u
<1>14. None \notin Regs /\ Fail \notin Regs /\ None # Fail
  BY RegsAre
<1>15. y = IF x.reg = Fail THEN x
           ELSE IF got.reg \in {None, Fail}
           THEN [s |-> got.s, queue |-> x.queue, reg |-> Fail]
           ELSE [s |-> Placed(got.s, w, got.reg), queue |-> rest, reg |-> None]
  BY Zenon DEF y, RecoloredOne, Placed, got, first
<1>16. CASE got.reg \in {None, Fail}
  <2>1. y = [s |-> got.s, queue |-> x.queue, reg |-> Fail]
    BY <1>1, <1>14, <1>15, <1>16, Zenon
  <2>2. GivenUp(C, d, y)
    BY <1>11, <1>13, <2>1 DEF GivenUp
  <2> QED
    BY <2>2 DEF y
<1>17. CASE got.reg \in Regs
  <2> DEFINE u == Placed(got.s, w, got.reg)
  <2>1. y = [s |-> u, queue |-> rest, reg |-> None]
    BY <1>1, <1>14, <1>15, <1>17, Zenon
  <2>2. w \in got.s.made /\ got.s.new[w] = 0 /\ CanHave(got.s, w, got.reg)
    BY <1>8, <1>10, <1>17, Zenon DEF Answered
  <2>3. /\ Good(u) /\ u.made = got.s.made /\ u.stage = got.s.stage
        /\ u.undo = got.s.undo /\ u.new = got.s.new /\ u.fixed = got.s.fixed \cup {w}
        /\ \A z \in VRegs : u.phys[z] = IF z = w THEN got.reg ELSE got.s.phys[z]
    <3> DEFINE t == got.s
               r == got.reg
    <3>1. /\ Good(t) /\ w \in VRegs /\ w \in t.made /\ t.phys[w] = None
          /\ r \in Regs /\ CanHave(t, w, r)
      BY <1>5, <1>11, <1>17, <2>2, Zenon
    <3>2. u = Placed(t, w, r)
      OBVIOUS
    <3> HIDE DEF w, t, r, u
    <3>3. /\ Good(u) /\ u.made = t.made /\ u.stage = t.stage
          /\ u.undo = t.undo /\ u.new = t.new /\ u.fixed = t.fixed \cup {w}
          /\ \A z \in VRegs : u.phys[z] = IF z = w THEN r ELSE t.phys[z]
      BY <3>1, <3>2, PlacedIs
    <3> QED
      BY <3>3 DEF t, r
  <2> HIDE DEF u, rest, w
  <2>4. Leads(C, d, u)
    <3>1. /\ d.undo \subseteq [reg: VRegs, phys: Regs]
          /\ got.s.undo \subseteq [reg: VRegs, phys: Regs]
      BY <1>11, SessionIs
    <3>2. got.s.fixed \subseteq u.fixed
      BY <2>3
    <3>3. \A z \in VRegs \ {w} : u.phys[z] = got.s.phys[z]
      BY <2>3
    <3> QED
      BY <1>5, <1>13, <2>3, <3>1, <3>2, <3>3, PlacedLeads, Zenon
  <2>5. ASSUME NEW c \in C PROVE Stands(C, rest, u, c)
    <3>1. CASE c = w
      <4>1. u.phys[w] = got.reg /\ w \in u.fixed /\ u.new[w] = 0
        BY <1>5, <2>2, <2>3
      <4>2. got.reg # None
        BY <1>14, <1>17
      <4>3. ~\E e \in rest : e.reg = c
        BY <1>7, <3>1, Zenon
      <4> QED
        BY <3>1, <4>1, <4>2, <4>3, Zenon DEF Stands
    <3>2. CASE c # w
      <4>1. c \in VRegs \ {w}
        BY <3>2
      <4>2. Leading(x.s, got.s, c)
        BY <1>11, <4>1, Zenon DEF Leads
      <4>3. Stands(C, x.queue, x.s, c)
        BY <1>1
      <4>4. (\E e \in rest : e.reg = c) <=> (\E e \in x.queue : e.reg = c)
        BY <1>7, <3>2, Zenon
      <4>5. u.phys[c] = got.s.phys[c] /\ u.new[c] = got.s.new[c] /\ u.made = got.s.made
        BY <2>3, <4>1
      <4>6. got.s.fixed \subseteq u.fixed /\ x.s.fixed \subseteq u.fixed
        BY <1>11, <2>3 DEF Leads
      <4>7. got.s.new[c] = x.s.new[c] + (IF Lost(x.s, got.s, c) THEN 1 ELSE 0)
        BY <4>2, Zenon DEF Leading
      <4>8. CASE \E e \in x.queue : e.reg = c
        <5>1. x.s.phys[c] = None /\ c \in x.s.made /\ x.s.new[c] = 0
          BY <4>3, <4>8, Zenon DEF Stands
        <5>2. got.s.phys[c] = None /\ c \in got.s.made
          BY <4>2, <5>1, Zenon DEF Leading
        <5>3. ~Lost(x.s, got.s, c)
          BY <5>1, Zenon DEF Lost
        <5>4. got.s.new[c] = 0
          BY <4>7, <5>1, <5>3
        <5> QED
          BY <4>4, <4>5, <4>8, <5>2, <5>4, Zenon DEF Stands
      <4>9. CASE ~\E e \in x.queue : e.reg = c
        <5>1. x.s.phys[c] # None /\ c \in x.s.fixed /\ x.s.new[c] = 0
          BY <4>3, <4>9, Zenon DEF Stands
        <5>2. got.s.phys[c] # None
          BY <4>2, <5>1, Zenon DEF Leading
        <5>3. ~Lost(x.s, got.s, c)
          BY <5>2, Zenon DEF Lost
        <5>4. got.s.new[c] = 0
          BY <4>7, <5>1, <5>3
        <5>5. c \in u.fixed
          BY <4>6, <5>1
        <5> QED
          BY <4>4, <4>5, <4>9, <5>2, <5>4, <5>5, Zenon DEF Stands
      <4> QED
        BY <4>8, <4>9
    <3> QED
      BY <3>1, <3>2
  <2>6. y.reg = None /\ y.s = u /\ y.queue = rest
    BY <2>1
  <2>7. LeftOf(q, n + 1, rest)
    BY <1>6, Zenon DEF LeftOf
  <2>8. Going(C, d, q, n + 1, y)
    BY <2>3, <2>4, <2>5, <2>6, <2>7, Zenon DEF Going
  <2> QED
    BY <2>8 DEF y
<1> QED
  BY <1>11, <1>16, <1>17

(* Nothing done leads to the same.                                         *)
LEMMA LeadsToItself ==
  ASSUME NEW s \in Sessions, NEW C
  PROVE  Leads(C, s, s)
<1>1. \A w \in VRegs : s.new[w] \in Nat
  BY SessionIs
<1>2. \A w \in VRegs : Leading(s, s, w)
  BY <1>1 DEF Leading, Lost
<1> QED
  BY <1>2 DEF Leads

(* The loop begins with none recolored.                                    *)
LEMMA GoingStarts ==
  ASSUME NEW s, NEW v \in VRegs, NEW r, NEW C, C \subseteq VRegs, MayLeave(s, v, r, C),
         NEW d, Good(d), Replaced(s, v, r, C, d), NEW q, QueueOf(C, q)
  PROVE  Going(C, d, q, 0, [s |-> d, queue |-> q, reg |-> None])
<1> DEFINE x == [s |-> d, queue |-> q, reg |-> None]
<1>1. x.s = d /\ x.queue = q /\ x.reg = None
  OBVIOUS
<1>2. Cardinality(q) \in Nat /\ IsFiniteSet(q)
  BY FS_CardinalityType DEF QueueOf
<1>3. LeftOf(q, 0, q)
  BY <1>2 DEF LeftOf
<1>4. Leads(C, d, d)
  BY LeadsToItself DEF Good
<1>5. ASSUME NEW c \in C PROVE Stands(C, q, d, c)
  <2>1. d.phys[c] = None /\ d.new[c] = 0 /\ c \in d.made
    BY DEF Replaced, MayLeave
  <2>2. \E e \in q : e.reg = c
    BY DEF QueueOf
  <2> QED
    BY <2>1, <2>2, Zenon DEF Stands
<1> HIDE DEF x
<1>6. Going(C, d, q, 0, x)
  BY <1>1, <1>3, <1>4, <1>5, Zenon DEF Going
<1> QED
  BY <1>6 DEF x

(* It ends with all recolored, or having given up.                         *)
LEMMA RecoloredIs ==
  ASSUME NEW C, C \subseteq VRegs, NEW d \in Sessions, NEW q, QueueOf(C, q),
         NEW deeper, Contract(deeper), NEW begun, begun.s = d, begun.queue = q,
         Going(C, d, q, 0, [s |-> d, queue |-> q, reg |-> None])
  PROVE  \/ Going(C, d, q, Cardinality(q), Recolored(begun, deeper))
         \/ GivenUp(C, d, Recolored(begun, deeper))
<1> DEFINE N == Cardinality(q)
           start == [s |-> d, queue |-> q, reg |-> None]
           Turn(i, x) == RecoloredOne(x, deeper)
           IsRun(f, n) == f = [i \in 0 .. n |-> IF i = 0 THEN start ELSE Turn(i, f[i - 1])]
           run == CHOOSE f : IsRun(f, N)
           Ran == {n \in Nat : \E f : IsRun(f, n)}
           Fine == {n \in 0 .. N : Going(C, d, q, n, run[n]) \/ GivenUp(C, d, run[n])}
<1>0. N \in Nat /\ N \in 0 .. N /\ 0 \in Nat
  <2>1. N \in Nat
    BY FS_CardinalityType DEF QueueOf
  <2> HIDE DEF N
  <2> QED
    BY <2>1
<1> HIDE DEF N
<1>1. 0 \in Ran
  <2> DEFINE f == [i \in 0 .. 0 |-> start]
  <2>1. \A i \in 0 .. 0 : i = 0
    OBVIOUS
  <2>2. IsRun(f, 0)
    <3> HIDE DEF Turn, start
    <3> QED
      BY <2>1
  <2> QED
    BY <1>0, <2>2, Zenon
<1>2. ASSUME NEW n \in 1 .. N, n - 1 \in Ran PROVE n \in Ran
  <2>1. PICK f : IsRun(f, n - 1)
    BY <1>2
  <2> DEFINE x == Turn(n, f[n - 1])
             g == Longer(f, n, x)
  <2>2. n \in Nat \ {0} /\ n - 1 \in 0 .. n - 1
    BY <1>0
  <2>3. /\ \A i \in 0 .. n - 1 : g[i] = f[i]
        /\ g[n] = x
        /\ \A i \in 0 .. n : i # 0 => i - 1 \in 0 .. n - 1
        /\ \A i \in 0 .. n : i # n => i \in 0 .. n - 1
    <3> HIDE DEF x
    <3> QED
      BY <2>2, LongerIs
  <2>4. g = [i \in 0 .. n |-> g[i]]
    BY DEF Longer
  <2>5. ASSUME NEW i \in 0 .. n
        PROVE  g[i] = IF i = 0 THEN start ELSE Turn(i, g[i - 1])
    <3> HIDE DEF g, Turn, start
    <3> QED
      BY <2>1, <2>2, <2>3
  <2>6. IsRun(g, n)
    <3> HIDE DEF g, Turn, start
    <3> QED
      BY <2>4, <2>5
  <2> HIDE DEF IsRun, g
  <2> QED
    BY <2>2, <2>6
<1>3. IsRun(run, N)
  <2>1. N \in Ran
    <3> HIDE DEF Ran, N
    <3> QED
      BY <1>0, <1>1, <1>2, AllOf, Zenon
  <2> HIDE DEF IsRun
  <2> QED
    BY <2>1
<1>4. run[0] = start /\ \A i \in 1 .. N : run[i] = Turn(i, run[i - 1])
  <2> HIDE DEF run, Turn, start
  <2> QED
    BY <1>0, <1>3
<1>5. ASSUME NEW n \in 1 .. N, n - 1 \in Fine PROVE n \in Fine
  <2> DEFINE x == run[n - 1]
             y == RecoloredOne(x, deeper)
             m == n - 1
  <2>1. run[n] = y /\ n \in 0 .. N
    <3>1. run[n] = Turn(n, run[n - 1])
      <4> HIDE DEF run, Turn
      <4> QED
        BY <1>4
    <3> QED
      BY <1>0, <3>1
  <2>2. m \in Nat /\ m < N /\ m + 1 = n
    BY <1>0
  <2>3. Going(C, d, q, m, x) \/ GivenUp(C, d, x)
    BY <1>5
  <2> HIDE DEF x, m, run
  <2>4. CASE Going(C, d, q, m, x)
    <3>1. Going(C, d, q, m + 1, y) \/ GivenUp(C, d, y)
      BY <2>2, <2>4, RecoloredOneIs, Zenon DEF N
    <3> QED
      BY <2>1, <2>2, <3>1
  <2>5. CASE GivenUp(C, d, x)
    <3>1. y = x
      BY <2>5, Zenon DEF RecoloredOne, GivenUp
    <3> QED
      BY <2>1, <2>5, <3>1
  <2> QED
    BY <2>3, <2>4, <2>5
<1>6. Going(C, d, q, N, run[N]) \/ GivenUp(C, d, run[N])
  <2>1. 0 \in Fine
    <3>1. Going(C, d, q, 0, start) /\ 0 \in 0 .. N
      BY <1>0
    <3> HIDE DEF run, N, start
    <3> QED
      BY <1>4, <3>1, Zenon
  <2>2. N \in Fine
    <3> HIDE DEF Fine, N
    <3> QED
      BY <1>0, <1>5, <2>1, AllOf, Zenon
  <2> QED
    BY <2>2
<1>7. Recolored(begun, deeper) = run[N]
  BY DEF Recolored, Loop, N
<1> HIDE DEF run
<1> QED
  BY <1>6, <1>7, Zenon DEF N

(* When the loop has gone through, nothing of the queue is left.           *)
LEMMA GoneThrough ==
  ASSUME NEW C, NEW d, NEW q, QueueOf(C, q), NEW x, Going(C, d, q, Cardinality(q), x)
  PROVE  /\ x.reg = None /\ Good(x.s) /\ Leads(C, d, x.s)
         /\ \A c \in C : x.s.phys[c] # None /\ c \in x.s.fixed /\ x.s.new[c] = 0
<1>1. x.queue = {}
  <2>1. IsFiniteSet(x.queue) /\ Cardinality(x.queue) = Cardinality(q) - Cardinality(q)
    BY Zenon DEF Going, LeftOf
  <2>2. Cardinality(q) \in Nat
    BY FS_CardinalityType DEF QueueOf
  <2>3. Cardinality(x.queue) = 0
    BY <2>1, <2>2
  <2> QED
    BY <2>1, <2>3, FS_EmptySet
<1>2. \A c \in C : x.s.phys[c] # None /\ c \in x.s.fixed /\ x.s.new[c] = 0
  <2>1. \A c : ~\E e \in x.queue : e.reg = c
    BY <1>1
  <2> QED
    BY <2>1, Zenon DEF Going, Stands
<1> QED
  BY <1>2, Zenon DEF Going

-----------------------------------------------------------------------------
(* Recoloring: what an attempt comes to.                                   *)

(* From s, those of C left to d, and came to t.                            *)
Attempted(s, v, r, C, d, t) ==
  /\ Asked(s, v) /\ v \in s.fixed /\ r \in Regs
  /\ MayLeave(s, v, r, C) /\ Replaced(s, v, r, C, d) /\ Good(t) /\ Leads(C, d, t)

(* What there is to undo: where each was.                                  *)
Entry(s, v, C, t, e) ==
  /\ e.reg \in VRegs /\ e.reg \notin s.fixed /\ e.reg # v
  /\ e.phys = s.phys[e.reg] /\ e.phys # None
  /\ e.reg \notin C => e.reg \in t.fixed /\ t.phys[e.reg] # None

(* What an attempt that failed has to undo: one entry of each candidate,   *)
(* and those of the calls below.                                           *)
LEMMA EntriesAre ==
  ASSUME NEW s, NEW v \in VRegs, NEW r, NEW C, NEW d, NEW t, Attempted(s, v, r, C, d, t)
  PROVE  /\ \A e \in t.undo \ s.undo : Entry(s, v, C, t, e)
         /\ \A c \in C : \E e \in t.undo \ s.undo : e.reg = c
         /\ \A w \in VRegs : Undone(d, t, w) => Undone(s, t, w)
         /\ s.undo \subseteq t.undo /\ s.fixed \subseteq t.fixed
<1>1. s \in Sessions /\ t \in Sessions /\ Backed(s) /\ v \in s.fixed /\ v \notin C
  BY DEF Attempted, Asked, Good, MayLeave
<1>2. C \subseteq VRegs /\ \A c \in C : s.phys[c] # None /\ c \notin s.fixed
  BY <1>1, SessionIs DEF Attempted, MayLeave
<1>3. /\ \A w \in VRegs : d.phys[w] = IF w = v THEN r ELSE IF w \in C THEN None ELSE s.phys[w]
      /\ d.undo = s.undo \cup {[reg |-> w, phys |-> s.phys[w]] : w \in C}
      /\ d.fixed = s.fixed
  BY Zenon DEF Attempted, Replaced
<1>4. /\ d.undo \subseteq t.undo /\ d.fixed \subseteq t.fixed
      /\ \A e \in t.undo \ d.undo : Displacing(C, d, t, e)
  BY Zenon DEF Attempted, Leads
<1>5. ASSUME NEW e \in t.undo \ s.undo PROVE Entry(s, v, C, t, e)
  <2>1. e.reg \in VRegs
    BY <1>1, SessionIs
  <2>2. CASE e \in d.undo
    <3>1. e.reg \in C /\ e.phys = s.phys[e.reg]
      BY <1>3, <2>2
    <3> QED
      BY <1>1, <1>2, <2>1, <3>1 DEF Entry
  <2>3. CASE e \notin d.undo
    <3>1. /\ e.reg \notin C \cup d.fixed /\ e.phys = d.phys[e.reg] /\ e.phys # None
          /\ e.reg \in t.fixed /\ t.phys[e.reg] # None
      BY <1>4, <2>3, Zenon DEF Displacing
    <3>2. e.reg # v
      BY <1>1, <1>3, <3>1
    <3>3. d.phys[e.reg] = s.phys[e.reg]
      BY <1>3, <2>1, <3>1, <3>2
    <3> QED
      BY <1>3, <2>1, <3>1, <3>2, <3>3 DEF Entry
  <2> QED
    BY <2>2, <2>3
<1>6. ASSUME NEW c \in C PROVE \E e \in t.undo \ s.undo : e.reg = c
  <2> DEFINE e == [reg |-> c, phys |-> s.phys[c]]
  <2>1. e \in d.undo /\ e.reg = c
    BY <1>3
  <2>2. e \notin s.undo
    <3> HIDE DEF e
    <3> QED
      BY <1>1, <1>2, <2>1 DEF Backed
  <2> QED
    BY <1>4, <2>1, <2>2
<1>7. s.undo \subseteq d.undo
  BY <1>3
<1>8. \A w \in VRegs : Undone(d, t, w) => Undone(s, t, w)
  BY <1>7 DEF Undone
<1> QED
  BY <1>3, <1>4, <1>5, <1>6, <1>7, <1>8

(* v stayed where it was put.                                              *)
LEMMA AimIs ==
  ASSUME NEW s, NEW v \in VRegs, NEW r, NEW C, NEW d, NEW t, Attempted(s, v, r, C, d, t)
  PROVE  t.phys[v] = r /\ v \in t.made /\ t.new[v] = 0
<1>1. r # None
  BY RegsAre DEF Attempted
<1>2. d.phys[v] = r /\ v \in d.fixed /\ d.new[v] = 0 /\ v \notin C
  BY DEF Attempted, Replaced, MayLeave
<1>3. Leading(d, t, v)
  BY <1>2, Zenon DEF Attempted, Leads
<1>4. t.phys[v] = r
  BY <1>1, <1>2, <1>3, Zenon DEF Leading
<1>5. v \in t.made
  BY <1>1, <1>4, Zenon DEF Attempted, Good, Sound
<1>6. ~Lost(d, t, v)
  BY <1>1, <1>4, Zenon DEF Lost
<1>7. t.new[v] = 0 + 0
  BY <1>2, <1>3, <1>6 DEF Leading
<1> QED
  BY <1>4, <1>5, <1>7

(* Of the others, those that did not leave.                                *)
Stayed(s, d, t, w) ==
  /\ d.phys[w] = s.phys[w] /\ d.made = s.made /\ d.stage = s.stage /\ d.fixed = s.fixed
  /\ Leading(d, t, w)
  /\ t.new[w] = IF Lost(s, t, w) THEN 1 ELSE 0

(* A range that is neither v nor a candidate is as the calls below left    *)
(* it.                                                                     *)
LEMMA OthersAre ==
  ASSUME NEW s, NEW v \in VRegs, NEW r, NEW C, NEW d, NEW t, Attempted(s, v, r, C, d, t),
         NEW w \in VRegs, w # v, w \notin C
  PROVE  Stayed(s, d, t, w)
<1>1. /\ d.phys[w] = s.phys[w] /\ d.made = s.made /\ d.stage = s.stage
      /\ d.fixed = s.fixed /\ d.new[w] = 0
  BY DEF Attempted, Replaced
<1>2. Leading(d, t, w)
  BY Zenon DEF Attempted, Leads
<1>3. Lost(s, t, w) <=> Lost(d, t, w)
  BY <1>1, Zenon DEF Lost
<1> QED
  BY <1>1, <1>2, <1>3 DEF Leading, Stayed

(* rb is s with what t evicted and spilled.                                *)
Restored(s, v, C, t, rb) ==
  /\ \A w \in VRegs :
       rb.phys[w] = IF Undone(s, t, w)
                    THEN IF w \in t.made THEN s.phys[w] ELSE None
                    ELSE IF w = v THEN None ELSE t.phys[w]
  /\ \A w \in VRegs : rb.new[w] = IF w \in C THEN s.new[w] ELSE s.new[w] + t.new[w]
  /\ rb.made = t.made /\ rb.stage = t.stage /\ rb.fixed = s.fixed /\ rb.undo = s.undo

(* What rolling back does.                                                 *)
LEMMA RestoredIs ==
  ASSUME NEW s, NEW v \in VRegs, NEW r, NEW C, NEW d, NEW t, Attempted(s, v, r, C, d, t)
  PROVE  LET rb == RolledBack(s, t, v, r)
         IN  /\ Restored(s, v, C, t, rb)
             /\ rb.cascade = t.cascade /\ rb.nextCascade = t.nextCascade /\ rb.broken = t.broken
             /\ rb = [phys |-> rb.phys, stage |-> rb.stage, cascade |-> rb.cascade,
                      nextCascade |-> rb.nextCascade, made |-> rb.made, broken |-> rb.broken,
                      fixed |-> rb.fixed, undo |-> rb.undo, new |-> rb.new]
             /\ rb.phys = [w \in VRegs |-> rb.phys[w]] /\ rb.new = [w \in VRegs |-> rb.new[w]]
<1> DEFINE rb == RolledBack(s, t, v, r)
           undone == t.undo \ s.undo
           had(w) == {e.phys : e \in {x \in undone : x.reg = w /\ w \in t.made}}
           restored(w) == IF had(w) # {} THEN CHOOSE reg \in had(w) : TRUE
                          ELSE IF w = v \/ \E e \in undone : e.reg = w THEN None
                          ELSE t.phys[w]
           phys == [w \in VRegs |-> restored(w)]
           new == [w \in VRegs |-> IF w \in C THEN s.new[w] ELSE s.new[w] + t.new[w]]
<1>1. t \in Sessions /\ C = HoldersOf(s, v, r)
  BY DEF Attempted, Good, MayLeave
<1>2. \A e \in undone : Entry(s, v, C, t, e)
  BY EntriesAre, Zenon
<1>3. rb = [t EXCEPT !.phys = phys, !.fixed = s.fixed, !.undo = s.undo,
                     !.new = [w \in VRegs |-> IF w \in HoldersOf(s, v, r) THEN s.new[w]
                                              ELSE s.new[w] + @[w]]]
  BY DEF RolledBack
<1>4. ASSUME NEW w \in VRegs
      PROVE  restored(w) = IF Undone(s, t, w)
                           THEN IF w \in t.made THEN s.phys[w] ELSE None
                           ELSE IF w = v THEN None ELSE t.phys[w]
  <2>1. Undone(s, t, w) <=> \E e \in undone : e.reg = w
    BY Zenon DEF Undone
  <2>2. CASE Undone(s, t, w) /\ w \in t.made
    <3>1. had(w) = {s.phys[w]}
      <4>1. PICK e \in undone : e.reg = w
        BY <2>1, <2>2
      <4>2. e.phys \in had(w) /\ e.phys = s.phys[w]
        BY <1>2, <2>2, <4>1, Zenon DEF Entry
      <4>3. \A p \in had(w) : p = s.phys[w]
        BY <1>2, Zenon DEF Entry
      <4> HIDE DEF had
      <4> QED
        BY <4>2, <4>3
    <3> HIDE DEF had
    <3>2. had(w) # {} /\ (CHOOSE reg \in had(w) : TRUE) = s.phys[w]
      BY <3>1
    <3> QED
      BY <2>2, <3>2
  <2>3. CASE ~(Undone(s, t, w) /\ w \in t.made)
    <3>1. had(w) = {}
      BY <2>1, <2>3
    <3> HIDE DEF had, undone
    <3> QED
      BY <2>1, <2>3, <3>1, Zenon
  <2> QED
    BY <2>2, <2>3
<1> HIDE DEF rb, phys, restored, had, undone
<1>5. rb = [t EXCEPT !.phys = phys, !.fixed = s.fixed, !.undo = s.undo, !.new = new]
  <2>1. rb = [t EXCEPT !.phys = phys, !.fixed = s.fixed, !.undo = s.undo,
                       !.new = [w \in VRegs |-> IF w \in C THEN s.new[w]
                                                ELSE s.new[w] + @[w]]]
    BY <1>1, <1>3
  <2> QED
    BY <1>1, <2>1 DEF Sessions
<1> HIDE DEF new
<1>6. rb.phys = phys /\ rb.fixed = s.fixed /\ rb.undo = s.undo /\ rb.new = new
  BY <1>1, <1>5 DEF Sessions
<1>7. /\ rb.made = t.made /\ rb.stage = t.stage
      /\ rb.cascade = t.cascade /\ rb.nextCascade = t.nextCascade /\ rb.broken = t.broken
  BY <1>1, <1>5 DEF Sessions
<1>8. rb = [phys |-> rb.phys, stage |-> rb.stage, cascade |-> rb.cascade,
            nextCascade |-> rb.nextCascade, made |-> rb.made, broken |-> rb.broken,
            fixed |-> rb.fixed, undo |-> rb.undo, new |-> rb.new]
  BY <1>1, <1>5 DEF Sessions
<1>9. \A w \in VRegs : rb.phys[w] = restored(w)
  BY <1>6 DEF phys
<1>10. \A w \in VRegs : rb.new[w] = IF w \in C THEN s.new[w] ELSE s.new[w] + t.new[w]
  BY <1>6 DEF new
<1>11. rb.phys = [w \in VRegs |-> rb.phys[w]]
  BY <1>6 DEF phys
<1>12. rb.new = [w \in VRegs |-> rb.new[w]]
  BY <1>6 DEF new
<1>13. Restored(s, v, C, t, rb)
  <2>1. \A w \in VRegs :
          rb.phys[w] = IF Undone(s, t, w)
                       THEN IF w \in t.made THEN s.phys[w] ELSE None
                       ELSE IF w = v THEN None ELSE t.phys[w]
    BY <1>4, <1>9
  <2> QED
    BY <1>6, <1>7, <1>10, <2>1, Zenon DEF Restored
<1> QED
  BY <1>7, <1>8, <1>11, <1>12, <1>13, Zenon DEF rb

(* A recoloring that fails leaves each range where it was, or without a    *)
(* register.                                                               *)
Back(s, t, rb, w) == rb.phys[w] \in {s.phys[w], None} /\ (rb.phys[w] # None => w \in t.made)

(* Rolled back, each range has the register it had before the attempt, or  *)
(* is without and queued, or gone.                                         *)
LEMMA BackIs ==
  ASSUME NEW s, NEW v \in VRegs, NEW r, NEW C, NEW d, NEW t, Attempted(s, v, r, C, d, t),
         NEW rb, Restored(s, v, C, t, rb), NEW w \in VRegs
  PROVE  Back(s, t, rb, w)
<1>1. Sound(t) /\ s.phys[v] = None
  BY DEF Attempted, Asked, Good
<1>2. CASE Undone(s, t, w)
  BY <1>2 DEF Restored, Back
<1>3. CASE ~Undone(s, t, w) /\ w = v
  BY <1>3 DEF Restored, Back
<1>4. CASE ~Undone(s, t, w) /\ w # v
  <2>1. rb.phys[w] = t.phys[w]
    BY <1>4 DEF Restored
  <2>2. w \notin C /\ ~Undone(d, t, w)
    <3>1. /\ \A c \in C : \E e \in t.undo \ s.undo : e.reg = c
          /\ \A x \in VRegs : Undone(d, t, x) => Undone(s, t, x)
      BY EntriesAre
    <3>2. w \in C => Undone(s, t, w)
      BY <3>1, Zenon DEF Undone
    <3> QED
      BY <1>4, <3>1, <3>2, Zenon
  <2>3. Stayed(s, d, t, w)
    BY <1>4, <2>2, OthersAre, Zenon
  <2>4. d.phys[w] = s.phys[w] /\ Leading(d, t, w)
    BY <2>3, Zenon DEF Stayed
  <2>5. t.phys[w] \in {s.phys[w], None}
    BY <2>2, <2>4 DEF Leading
  <2>6. t.phys[w] # None => w \in t.made
    BY <1>1, Zenon DEF Sound
  <2> QED
    BY <2>1, <2>5, <2>6 DEF Back
<1> QED
  BY <1>2, <1>3, <1>4

(* So the attempt led where the contract lets it.                          *)
LEMMA BackLeads ==
  ASSUME NEW s, NEW v \in VRegs, NEW r, NEW C, NEW d, NEW t, Attempted(s, v, r, C, d, t),
         NEW rb, Restored(s, v, C, t, rb), NEW w \in VRegs, w # v
  PROVE  Leading(s, rb, w)
<1>1. s \in Sessions /\ t \in Sessions /\ Sound(t) /\ s.new[w] \in Nat
  BY SessionIs DEF Attempted, Asked, Good
<1>2. rb.phys[w] \in {s.phys[w], None} /\ (rb.phys[w] # None => w \in t.made)
  <2>1. Back(s, t, rb, w)
    BY BackIs, Zenon
  <2> QED
    BY <2>1, Zenon DEF Back
<1>3. /\ rb.phys[w] = IF Undone(s, t, w)
                      THEN IF w \in t.made THEN s.phys[w] ELSE None
                      ELSE t.phys[w]
      /\ rb.new[w] = IF w \in C THEN s.new[w] ELSE s.new[w] + t.new[w]
      /\ rb.made = t.made
  BY DEF Restored
<1>4. w \in C => Undone(s, t, w)
  <2>1. \A c \in C : \E e \in t.undo \ s.undo : e.reg = c
    BY EntriesAre
  <2> QED
    BY <2>1, Zenon DEF Undone
<1>5. Undone(s, t, w) => /\ w \notin s.fixed /\ s.phys[w] # None
                         /\ w \notin C => t.phys[w] # None
  <2>1. ASSUME NEW e \in t.undo \ s.undo, e.reg = w
        PROVE  w \notin s.fixed /\ s.phys[w] # None /\ (w \notin C => t.phys[w] # None)
    <3>1. Entry(s, v, C, t, e)
      BY EntriesAre, Zenon
    <3> QED
      BY <2>1, <3>1 DEF Entry
  <2> QED
    BY <2>1 DEF Undone
<1>6. s.stage[w] = Done /\ w \in s.made => w \in t.made
  BY DEF Attempted, Replaced, Leads
<1>7. w \notin C => /\ w \in s.fixed /\ s.phys[w] # None => t.phys[w] = s.phys[w]
                    /\ w \in s.made /\ s.phys[w] = None => w \in t.made /\ t.phys[w] = None
                    /\ s.stage[w] = Done /\ w \in s.made /\ s.phys[w] # None => t.phys[w] # None
                    /\ t.new[w] = IF Lost(s, t, w) THEN 1 ELSE 0
  <2>1. SUFFICES ASSUME w \notin C
                 PROVE  /\ w \in s.fixed /\ s.phys[w] # None => t.phys[w] = s.phys[w]
                        /\ w \in s.made /\ s.phys[w] = None => w \in t.made /\ t.phys[w] = None
                        /\ s.stage[w] = Done /\ w \in s.made /\ s.phys[w] # None => t.phys[w] # None
                        /\ t.new[w] = IF Lost(s, t, w) THEN 1 ELSE 0
    OBVIOUS
  <2>2. Stayed(s, d, t, w)
    BY <2>1, OthersAre, Zenon
  <2> QED
    BY <2>2, Zenon DEF Leading, Stayed
<1>8. CASE Undone(s, t, w)
  <2>1. rb.phys[w] = IF w \in t.made THEN s.phys[w] ELSE None
    BY <1>3, <1>8
  <2>2. ~Lost(s, rb, w)
    BY <1>3, <1>5, <1>8, <2>1, Zenon DEF Lost
  <2>3. w \notin C => ~Lost(s, t, w)
    BY <1>5, <1>8, Zenon DEF Lost
  <2>4. rb.new[w] = s.new[w]
    BY <1>1, <1>3, <1>7, <2>3
  <2>5. rb.new[w] = s.new[w] + (IF Lost(s, rb, w) THEN 1 ELSE 0)
    BY <1>1, <2>2, <2>4
  <2>6. s.stage[w] = Done /\ w \in s.made /\ s.phys[w] # None => rb.phys[w] # None
    BY <1>6, <2>1, Zenon
  <2> QED
    BY <1>2, <1>5, <1>8, <2>5, <2>6, Zenon DEF Leading
<1>9. CASE ~Undone(s, t, w)
  <2>1. rb.phys[w] = t.phys[w] /\ w \notin C /\ rb.new[w] = s.new[w] + t.new[w]
    BY <1>3, <1>4, <1>9, Zenon
  <2>2. Lost(s, t, w) <=> Lost(s, rb, w)
    BY <1>3, <2>1, Zenon DEF Lost
  <2>3. rb.new[w] = s.new[w] + (IF Lost(s, rb, w) THEN 1 ELSE 0)
    BY <1>7, <2>1, <2>2
  <2> QED
    BY <1>2, <1>3, <1>7, <2>1, <2>3, Zenon DEF Leading
<1> QED
  BY <1>8, <1>9

(* A failed attempt that is rolled back keeps the contract.                *)
LEMMA RolledBackIs ==
  ASSUME NEW s, NEW v \in VRegs, NEW r, NEW C, NEW d, NEW t, Attempted(s, v, r, C, d, t)
  PROVE  Answered(s, v, Answer(RolledBack(s, t, v, r), Fail))
<1> DEFINE rb == RolledBack(s, t, v, r)
<1>1. /\ Restored(s, v, C, t, rb)
      /\ rb.cascade = t.cascade /\ rb.nextCascade = t.nextCascade /\ rb.broken = t.broken
      /\ rb = [phys |-> rb.phys, stage |-> rb.stage, cascade |-> rb.cascade,
               nextCascade |-> rb.nextCascade, made |-> rb.made, broken |-> rb.broken,
               fixed |-> rb.fixed, undo |-> rb.undo, new |-> rb.new]
      /\ rb.phys = [w \in VRegs |-> rb.phys[w]] /\ rb.new = [w \in VRegs |-> rb.new[w]]
  BY RestoredIs
<1> HIDE DEF rb
<1>2. /\ s \in Sessions /\ t \in Sessions /\ Good(s) /\ Good(t) /\ Sound(s)
      /\ s.phys[v] = None /\ v \in s.fixed
  BY DEF Attempted, Asked, Good
<1>3. \A w \in VRegs : rb.phys[w] \in {s.phys[w], None} /\ (rb.phys[w] # None => w \in t.made)
  <2>1. ASSUME NEW w \in VRegs
        PROVE  rb.phys[w] \in {s.phys[w], None} /\ (rb.phys[w] # None => w \in t.made)
    <3>1. Restored(s, v, C, t, rb)
      BY <1>1, Zenon
    <3>2. Back(s, t, rb, w)
      BY <3>1, BackIs, Zenon
    <3> QED
      BY <3>2, Zenon DEF Back
  <2> QED
    BY <2>1
<1>4. /\ rb.made = t.made /\ rb.stage = t.stage /\ rb.fixed = s.fixed /\ rb.undo = s.undo
      /\ \A w \in VRegs : rb.new[w] = IF w \in C THEN s.new[w] ELSE s.new[w] + t.new[w]
  BY <1>1, Zenon DEF Restored
<1>5. \A w \in VRegs : s.phys[w] \in Regs \cup {None} /\ s.new[w] \in Nat /\ t.new[w] \in Nat
  BY <1>2, SessionIs
<1>6. rb \in Sessions
  <2>1. rb.phys \in [VRegs -> Regs \cup {None}]
    <3>1. \A w \in VRegs : rb.phys[w] \in Regs \cup {None}
      BY <1>3, <1>5
    <3> QED
      BY <1>1, <3>1
  <2>2. rb.new \in [VRegs -> Nat]
    <3>1. \A w \in VRegs : rb.new[w] \in Nat
      BY <1>4, <1>5
    <3> QED
      BY <1>1, <3>1
  <2>3. /\ rb.stage \in [VRegs -> Stages] /\ rb.cascade \in [VRegs -> Nat]
        /\ rb.nextCascade \in Nat /\ rb.broken \in Seq(VRegs)
        /\ rb.fixed \in SUBSET VRegs /\ rb.made \in SUBSET VRegs
        /\ rb.undo \in SUBSET [reg: VRegs, phys: Regs]
    BY <1>1, <1>2, <1>4, SessionIs
  <2> QED
    BY <1>1, <2>1, <2>2, <2>3, Zenon DEF Sessions
<1>7. Good(rb)
  <2>1. Sound(rb)
    <3>1. \A w \in VRegs : rb.phys[w] # None => rb.phys[w] = s.phys[w] /\ w \in rb.made
      BY <1>3, <1>4
    <3> QED
      BY <1>2, <1>6, <3>1, SoundWithLess, Zenon
  <2>2. Fresh(rb) /\ Counted(rb)
    BY <1>1, <1>2, <1>4 DEF Good, Fresh, Counted
  <2>3. Backed(rb)
    <3>1. \A e \in s.undo : e.reg \in VRegs /\ (s.phys[e.reg] = None \/ e.reg \in s.fixed)
      BY <1>2, SessionIs DEF Good, Backed
    <3> QED
      BY <1>3, <1>4, <3>1 DEF Backed
  <2> QED
    BY <1>6, <2>1, <2>2, <2>3 DEF Good
<1>8. Leads({v}, s, rb)
  <2>1. \A w \in VRegs : s.stage[w] = Done /\ w \in s.made => rb.stage[w] = Done /\ w \in rb.made
    BY <1>4 DEF Attempted, Replaced, Leads
  <2>2. ASSUME NEW w \in VRegs, w # v PROVE Leading(s, rb, w)
    <3>1. Restored(s, v, C, t, rb)
      BY <1>1, Zenon
    <3> QED
      BY <2>2, <3>1, BackLeads, Zenon
  <2> QED
    BY <1>4, <2>1, <2>2 DEF Leads
<1>9. rb.phys[v] = None
  BY <1>2, <1>3
<1>10. v \in rb.made /\ rb.new[v] = s.new[v]
  <2>1. v \in t.made /\ t.new[v] = 0
    BY AimIs
  <2> QED
    BY <1>4, <1>5, <2>1
<1>11. Fail \notin Regs /\ None # Fail
  BY RegsAre
<1>12. Answer(rb, Fail).s = rb /\ Answer(rb, Fail).reg = Fail
  BY DEF Answer
<1>13. Answered(s, v, Answer(rb, Fail))
  BY <1>4, <1>7, <1>8, <1>9, <1>10, <1>11, <1>12 DEF Answered
<1> QED
  BY <1>13 DEF rb

(* An attempt that placed them all: v may have r.                          *)
LEMMA SucceededIs ==
  ASSUME NEW s, NEW v \in VRegs, NEW r, NEW C, NEW d, NEW t, Attempted(s, v, r, C, d, t),
         \A c \in C : t.phys[c] # None /\ c \in t.fixed /\ t.new[c] = 0
  PROVE  Answered(s, v, Answer([t EXCEPT !.phys[v] = None, !.new = And(s.new, @)], r))
<1> DEFINE u == [t EXCEPT !.phys[v] = None, !.new = And(s.new, @)]
           phys == [w \in VRegs |-> IF w = v THEN None ELSE t.phys[w]]
           new == [w \in VRegs |-> s.new[w] + t.new[w]]
<1>1. /\ s \in Sessions /\ t \in Sessions /\ Good(s) /\ Good(t) /\ Sound(t)
      /\ s.phys[v] = None /\ v \in s.fixed /\ r \in Regs
  BY DEF Attempted, Asked, Good
<1>2. [t.phys EXCEPT ![v] = None] = phys
  BY <1>1, SessionIs
<1>3. And(s.new, t.new) = new
  BY DEF And
<1>4. u = [t EXCEPT !.phys = phys, !.new = new]
  <2>1. u = [t EXCEPT !.phys = [t.phys EXCEPT ![v] = None], !.new = And(s.new, t.new)]
    BY <1>1 DEF Sessions
  <2> HIDE DEF u, phys, new
  <2> QED
    BY <1>2, <1>3, <2>1
<1> HIDE DEF u, phys, new
<1>5. /\ u.phys = phys /\ u.new = new
      /\ u.made = t.made /\ u.stage = t.stage /\ u.undo = t.undo /\ u.fixed = t.fixed
      /\ u.cascade = t.cascade /\ u.nextCascade = t.nextCascade /\ u.broken = t.broken
  BY <1>1, <1>4 DEF Sessions
<1>6. u = [phys |-> u.phys, stage |-> u.stage, cascade |-> u.cascade,
           nextCascade |-> u.nextCascade, made |-> u.made, broken |-> u.broken,
           fixed |-> u.fixed, undo |-> u.undo, new |-> u.new]
  BY <1>1, <1>4 DEF Sessions
<1>7. \A w \in VRegs : u.phys[w] = IF w = v THEN None ELSE t.phys[w]
  BY <1>5 DEF phys
<1>8. \A w \in VRegs : u.new[w] = s.new[w] + t.new[w]
  BY <1>5 DEF new
<1>9. \A w \in VRegs : s.new[w] \in Nat /\ t.new[w] \in Nat /\ t.phys[w] \in Regs \cup {None}
  BY <1>1, SessionIs
<1>10. u \in Sessions
  <2>1. u.phys \in [VRegs -> Regs \cup {None}]
    BY <1>5, <1>9 DEF phys
  <2>2. u.new \in [VRegs -> Nat]
    BY <1>5, <1>9 DEF new
  <2>3. /\ u.stage \in [VRegs -> Stages] /\ u.cascade \in [VRegs -> Nat]
        /\ u.nextCascade \in Nat /\ u.broken \in Seq(VRegs)
        /\ u.fixed \in SUBSET VRegs /\ u.made \in SUBSET VRegs
        /\ u.undo \in SUBSET [reg: VRegs, phys: Regs]
    BY <1>1, <1>5, SessionIs
  <2> QED
    BY <1>6, <2>1, <2>2, <2>3, Zenon DEF Sessions
<1>11. Good(u)
  <2>1. Sound(u)
    <3>1. \A w \in VRegs : t.phys[w] # None => w \in t.made
      BY <1>1, Zenon DEF Sound
    <3>2. \A w \in VRegs : u.phys[w] # None => u.phys[w] = t.phys[w] /\ w \in u.made
      BY <1>5, <1>7, <3>1
    <3> QED
      BY <1>1, <1>10, <3>2, SoundWithLess, Zenon
  <2>2. Fresh(u) /\ Counted(u)
    BY <1>1, <1>5 DEF Good, Fresh, Counted
  <2>3. Backed(u)
    <3>1. \A e \in t.undo : e.reg \in VRegs /\ (t.phys[e.reg] = None \/ e.reg \in t.fixed)
      BY <1>1, SessionIs DEF Good, Backed
    <3> QED
      BY <1>5, <1>7, <3>1 DEF Backed
  <2> QED
    BY <1>10, <2>1, <2>2, <2>3 DEF Good
<1>12. /\ \A e \in t.undo \ s.undo : Entry(s, v, C, t, e)
       /\ \A c \in C : \E e \in t.undo \ s.undo : e.reg = c
       /\ \A w \in VRegs : Undone(d, t, w) => Undone(s, t, w)
       /\ s.undo \subseteq t.undo /\ s.fixed \subseteq t.fixed
  BY EntriesAre
<1>13. ASSUME NEW e \in u.undo \ s.undo PROVE Displacing({v}, s, u, e)
  <2>1. Entry(s, v, C, t, e)
    BY <1>5, <1>12
  <2>2. e.reg \in t.fixed /\ t.phys[e.reg] # None
    BY <2>1, Zenon DEF Entry
  <2>3. u.phys[e.reg] = t.phys[e.reg]
    BY <1>7, <2>1 DEF Entry
  <2> QED
    BY <1>5, <2>1, <2>2, <2>3 DEF Displacing, Entry
<1>14. ASSUME NEW w \in VRegs, w # v PROVE Leading(s, u, w)
  <2>1. u.phys[w] = t.phys[w] /\ u.new[w] = s.new[w] + t.new[w]
    BY <1>7, <1>8, <1>14
  <2>2. Undone(s, t, w) <=> Undone(s, u, w)
    BY <1>5 DEF Undone
  <2>3. Lost(s, t, w) <=> Lost(s, u, w)
    BY <1>5, <2>1, Zenon DEF Lost
  <2>4. CASE w \in C
    <3>1. Undone(s, t, w)
      BY <1>12, <2>4, Zenon DEF Undone
    <3>2. s.phys[w] # None /\ w \notin s.fixed /\ t.phys[w] # None /\ t.new[w] = 0
      BY <2>4 DEF Attempted, MayLeave
    <3>3. ~Lost(s, u, w)
      BY <2>1, <3>2, Zenon DEF Lost
    <3>4. u.new[w] = s.new[w] + (IF Lost(s, u, w) THEN 1 ELSE 0)
      BY <2>1, <3>2, <3>3
    <3> QED
      BY <2>1, <2>2, <3>1, <3>2, <3>4, Zenon DEF Leading
  <2>5. CASE w \notin C
    <3>1. Stayed(s, d, t, w)
      BY <1>14, <2>5, OthersAre, Zenon
    <3>2. /\ d.phys[w] = s.phys[w] /\ d.made = s.made /\ d.stage = s.stage
          /\ d.fixed = s.fixed /\ Leading(d, t, w)
          /\ t.new[w] = IF Lost(s, t, w) THEN 1 ELSE 0
      BY <3>1, Zenon DEF Stayed
    <3>3. u.new[w] = s.new[w] + (IF Lost(s, u, w) THEN 1 ELSE 0)
      BY <2>1, <2>3, <3>2
    <3>4. u.phys[w] \in {s.phys[w], None} \/ Undone(s, u, w)
      <4>1. t.phys[w] \in {s.phys[w], None} \/ Undone(d, t, w)
        BY <3>2, Zenon DEF Leading
      <4> QED
        BY <1>12, <2>1, <2>2, <4>1
    <3> QED
      BY <1>5, <2>1, <3>2, <3>3, <3>4, Zenon DEF Leading
  <2> QED
    BY <2>4, <2>5
<1>15. Leads({v}, s, u)
  <2>1. \A w \in VRegs : s.stage[w] = Done /\ w \in s.made => u.stage[w] = Done /\ w \in u.made
    BY <1>5 DEF Attempted, Replaced, Leads
  <2>2. \A w \in VRegs \ {v} : Leading(s, u, w)
    BY <1>14
  <2> QED
    BY <1>5, <1>12, <1>13, <2>1, <2>2 DEF Leads
<1>16. t.phys[v] = r /\ v \in t.made /\ t.new[v] = 0
  BY AimIs
<1>17. None \notin Regs /\ Fail \notin Regs
  BY RegsAre
<1>18. CanHave(u, v, r)
  <2>1. /\ r \notin prog.blocked[v] /\ r \in ToSet(prog.order[v])
        /\ \A x \in VRegs \ {v} : Apart(t, v, x)
    BY <1>1, <1>16, <1>17 DEF Sound
  <2>2. ASSUME NEW x \in VRegs, u.phys[x] # None, Meets(v, x)
        PROVE  UnitsOf[r] \cap UnitsOf[u.phys[x]] = {}
    <3>1. x # v /\ u.phys[x] = t.phys[x]
      BY <1>7, <2>2
    <3> QED
      BY <1>16, <2>1, <2>2, <3>1 DEF Apart
  <2> QED
    BY <2>1, <2>2 DEF CanHave
<1>19. u.new[v] = s.new[v] /\ u.phys[v] = None /\ v \in u.made
  BY <1>5, <1>7, <1>8, <1>9, <1>16
<1>20. Answer(u, r).s = u /\ Answer(u, r).reg = r
  BY DEF Answer
<1>21. Answered(s, v, Answer(u, r))
  BY <1>1, <1>11, <1>15, <1>17, <1>18, <1>19, <1>20 DEF Answered
<1> QED
  BY <1>21 DEF u

(* An answer that is not to wait.                                          *)
Resolved(s, v, got) == Answered(s, v, got) /\ got.reg # None

(* An attempt at one register gives it, or fails and leaves all as it was  *)
(* but for what is queued.                                                 *)
LEMMA AttemptIs ==
  ASSUME Program(prog), NEW s, NEW v \in VRegs, Asked(s, v), v \in s.fixed,
         NEW r \in Regs, r \in ToSet(prog.order[v]), NEW deeper, Contract(deeper)
  PROVE  Resolved(s, v, Attempt(s, v, r, deeper))
<1> DEFINE C == HoldersOf(s, v, r)
           begun == Displaced(s, v, r)
           d == begun.s
           q == begun.queue
           got == Recolored(begun, deeper)
           won == [got.s EXCEPT !.phys[v] = None, !.new = And(s.new, @)]
<1>1. None \notin Regs /\ Fail \notin Regs /\ None # Fail
  BY RegsAre
<1>2. Attempt(s, v, r, deeper) =
        IF r \in prog.blocked[v] \/ ~MayRecolor(s, v, r) THEN Answer(s, Fail)
        ELSE IF got.reg = Fail THEN Answer(RolledBack(s, got.s, v, r), Fail)
        ELSE Answer(won, r)
  BY Zenon DEF Attempt
<1>3. /\ Answer(s, Fail).reg = Fail /\ Answer(RolledBack(s, got.s, v, r), Fail).reg = Fail
      /\ Answer(won, r).reg = r
  BY DEF Answer
<1>4. CASE r \in prog.blocked[v] \/ ~MayRecolor(s, v, r)
  <2>1. Answered(s, v, Answer(s, Fail))
    BY FailIsAnswer
  <2> HIDE DEF got, won
  <2> QED
    BY <1>1, <1>2, <1>3, <1>4, <2>1, Zenon DEF Resolved
<1>5. CASE ~(r \in prog.blocked[v] \/ ~MayRecolor(s, v, r))
  <2>1. MayLeave(s, v, r, C)
    BY <1>5, MayLeaveIs, Zenon
  <2>2. Replaced(s, v, r, C, d)
    BY ReplacedIs, Zenon
  <2>3. Good(d)
    BY <1>5, DisplacedIs, Zenon
  <2>4. QueueOf(C, q)
    BY QueueIs, Zenon
  <2>5. C \subseteq VRegs /\ d \in Sessions
    <3>1. s.made \subseteq VRegs
      BY SessionIs DEF Asked, Good
    <3> HIDE DEF C, d
    <3> QED
      BY <2>1, <2>3, <3>1 DEF MayLeave, Good
  <2> HIDE DEF C
  <2>6. Going(C, d, q, 0, [s |-> d, queue |-> q, reg |-> None])
    <3> HIDE DEF d, q
    <3> QED
      BY <2>1, <2>2, <2>3, <2>4, <2>5, GoingStarts, Zenon
  <2>7. Going(C, d, q, Cardinality(q), got) \/ GivenUp(C, d, got)
    <3>1. begun.s = d /\ begun.queue = q
      OBVIOUS
    <3> HIDE DEF d, q, begun
    <3> QED
      BY <2>4, <2>5, <2>6, <3>1, RecoloredIs, Zenon
  <2> HIDE DEF d, q, got, begun
  <2>8. Good(got.s) /\ Leads(C, d, got.s)
    BY <2>7, Zenon DEF Going, GivenUp
  <2>9. Attempted(s, v, r, C, d, got.s)
    BY <2>1, <2>2, <2>8, Zenon DEF Attempted
  <2>10. CASE GivenUp(C, d, got)
    <3>1. got.reg = Fail
      BY <2>10, Zenon DEF GivenUp
    <3>2. Answered(s, v, Answer(RolledBack(s, got.s, v, r), Fail))
      BY <2>9, RolledBackIs, Zenon
    <3> HIDE DEF won
    <3> QED
      BY <1>1, <1>2, <1>3, <1>5, <3>1, <3>2, Zenon DEF Resolved
  <2>11. CASE Going(C, d, q, Cardinality(q), got)
    <3>1. /\ got.reg = None
          /\ \A c \in C : got.s.phys[c] # None /\ c \in got.s.fixed /\ got.s.new[c] = 0
      BY <2>4, <2>11, GoneThrough
    <3>2. Answered(s, v, Answer(won, r))
      BY <2>9, <3>1, SucceededIs, Zenon
    <3> HIDE DEF won
    <3> QED
      BY <1>1, <1>2, <1>3, <1>5, <3>1, <3>2, Zenon DEF Resolved
  <2> QED
    BY <2>7, <2>10, <2>11
<1> QED
  BY <1>4, <1>5

-----------------------------------------------------------------------------
(* The last chance, at any depth.                                          *)

(* An attempt after one that failed is as one from the start.              *)
LEMMA ThenIs ==
  ASSUME NEW s, NEW v \in VRegs, Asked(s, v), NEW x, Resolved(s, v, x), x.reg = Fail,
         v \in x.s.fixed, NEW y, Resolved(x.s, v, y)
  PROVE  Resolved(s, v, y)
<1>1. s \in Sessions /\ x.s \in Sessions /\ y.s \in Sessions
  BY DEF Asked, Resolved, Answered, Good
<1>2. Leads({v}, s, x.s) /\ Leads({v}, x.s, y.s)
  BY Zenon DEF Resolved, Answered
<1>3. Leads({v}, s, y.s)
  <2> DEFINE C == {v}
             t == x.s
             u == y.s
  <2>1. C \subseteq C /\ \A c \in C : t.phys[c] = None \/ c \in t.fixed
    OBVIOUS
  <2>2. Leads(C, s, t) /\ Leads(C, t, u) /\ s \in Sessions /\ t \in Sessions /\ u \in Sessions
    BY <1>1, <1>2
  <2> HIDE DEF C, t, u
  <2>3. Leads(C, s, u)
    BY <2>1, <2>2, LeadsOn, Zenon
  <2> QED
    BY <2>3 DEF C, u
<1>4. /\ x.s.undo = s.undo /\ x.s.new[v] = s.new[v]
  BY RegsAre DEF Resolved, Answered
<1> QED
  BY <1>3, <1>4, Zenon DEF Resolved, Answered

(* The last chance begins by fixing v.                                     *)
LEMMA FixedIs ==
  ASSUME NEW s, NEW v \in VRegs, Asked(s, v)
  PROVE  LET t == [s EXCEPT !.fixed = @ \cup {v}]
         IN  Resolved(s, v, Answer(t, Fail)) /\ v \in t.fixed
<1> DEFINE fixed == s.fixed \cup {v}
           t == [s EXCEPT !.fixed = fixed]
<1>1. s \in Sessions /\ Good(s) /\ v \in s.made /\ s.phys[v] = None
  BY DEF Asked, Good
<1>2. fixed \in SUBSET VRegs /\ s.fixed \subseteq fixed /\ v \in fixed
  BY <1>1, SessionIs
<1> HIDE DEF fixed
<1>3. /\ t.fixed = fixed /\ t.phys = s.phys /\ t.new = s.new
      /\ t.made = s.made /\ t.stage = s.stage /\ t.undo = s.undo
      /\ t.cascade = s.cascade /\ t.nextCascade = s.nextCascade
  BY <1>1 DEF Sessions
<1>4. t \in Sessions
  BY <1>1, <1>2 DEF Sessions
<1> HIDE DEF t
<1>5. Good(t)
  BY <1>1, <1>2, <1>3, <1>4 DEF Good, Sound, Apart, Fresh, Counted, Backed
<1>6. \A w \in VRegs : s.new[w] \in Nat
  BY <1>1, SessionIs
<1>7. Leads({v}, s, t)
  BY <1>2, <1>3, <1>6 DEF Leads, Leading, Lost
<1>8. Fail \notin Regs /\ None # Fail
  BY RegsAre
<1>9. Answer(t, Fail).s = t /\ Answer(t, Fail).reg = Fail
  BY DEF Answer
<1>10. Resolved(s, v, Answer(t, Fail))
  BY <1>1, <1>3, <1>5, <1>7, <1>8, <1>9 DEF Resolved, Answered
<1> QED
  BY <1>2, <1>3, <1>10 DEF t, fixed

(* It tries the registers of the order one after another, and keeps the    *)
(* contract.                                                               *)
LEMMA LastChanceIs ==
  ASSUME Program(prog), NEW s, NEW v \in VRegs, Asked(s, v), NEW deeper, Contract(deeper)
  PROVE  Resolved(s, v, LastChance(s, v, deeper))
<1> DEFINE order == Order(s, v)
           T == ToSet(prog.order[v])
           N == Len(order)
           start == Answer([s EXCEPT !.fixed = @ \cup {v}], Fail)
           Turn(i, x) == IF x.reg # Fail THEN x ELSE Attempt(x.s, v, order[i], deeper)
           IsRun(f, n) == f = [i \in 0 .. n |-> IF i = 0 THEN start ELSE Turn(i, f[i - 1])]
           run == CHOOSE f : IsRun(f, N)
           Ran == {n \in Nat : \E f : IsRun(f, n)}
           Fine == {n \in 0 .. N : Resolved(s, v, run[n]) /\ v \in run[n].s.fixed}
<1>a. HoldsRegs(s)
  BY SessionIs DEF Asked, Good, HoldsRegs
<1>b. order \in Seq(T) /\ T \subseteq Regs
  BY <1>a, OrderIs, Zenon
<1>c. Resolved(s, v, start) /\ v \in start.s.fixed
  <2> DEFINE t == [s EXCEPT !.fixed = @ \cup {v}]
  <2>1. Resolved(s, v, Answer(t, Fail)) /\ v \in t.fixed
    BY FixedIs
  <2> HIDE DEF t
  <2>2. Answer(t, Fail).s = t
    BY DEF Answer
  <2>3. start = Answer(t, Fail)
    BY DEF t
  <2> HIDE DEF start
  <2> QED
    BY <2>1, <2>2, <2>3
<1>0. N \in Nat /\ N \in 0 .. N /\ 0 \in Nat
  <2> HIDE DEF order, T
  <2> QED
    BY <1>b
<1> HIDE DEF order, T
<1>1. 0 \in Ran
  <2> DEFINE f == [i \in 0 .. 0 |-> start]
  <2>1. \A i \in 0 .. 0 : i = 0
    OBVIOUS
  <2>2. IsRun(f, 0)
    <3> HIDE DEF Turn, start
    <3> QED
      BY <2>1
  <2> QED
    BY <1>0, <2>2, Zenon
<1>2. ASSUME NEW n \in 1 .. N, n - 1 \in Ran PROVE n \in Ran
  <2>1. PICK f : IsRun(f, n - 1)
    BY <1>2
  <2> DEFINE x == Turn(n, f[n - 1])
             g == Longer(f, n, x)
  <2>2. n \in Nat \ {0} /\ n - 1 \in 0 .. n - 1
    BY <1>0
  <2>3. /\ \A i \in 0 .. n - 1 : g[i] = f[i]
        /\ g[n] = x
        /\ \A i \in 0 .. n : i # 0 => i - 1 \in 0 .. n - 1
        /\ \A i \in 0 .. n : i # n => i \in 0 .. n - 1
    <3> HIDE DEF x
    <3> QED
      BY <2>2, LongerIs
  <2>4. g = [i \in 0 .. n |-> g[i]]
    BY DEF Longer
  <2>5. ASSUME NEW i \in 0 .. n
        PROVE  g[i] = IF i = 0 THEN start ELSE Turn(i, g[i - 1])
    <3> HIDE DEF g, Turn, start
    <3> QED
      BY <2>1, <2>2, <2>3
  <2>6. IsRun(g, n)
    <3> HIDE DEF g, Turn, start
    <3> QED
      BY <2>4, <2>5
  <2> HIDE DEF IsRun, g
  <2> QED
    BY <2>2, <2>6
<1>3. IsRun(run, N)
  <2>1. N \in Ran
    <3> HIDE DEF Ran, N
    <3> QED
      BY <1>0, <1>1, <1>2, AllOf, Zenon
  <2> HIDE DEF IsRun
  <2> QED
    BY <2>1
<1>4. run[0] = start /\ \A i \in 1 .. N : run[i] = Turn(i, run[i - 1])
  <2> HIDE DEF run, Turn, start
  <2> QED
    BY <1>0, <1>3
<1>5. ASSUME NEW n \in 1 .. N, n - 1 \in Fine PROVE n \in Fine
  <2> DEFINE x == run[n - 1]
             r == order[n]
             y == Attempt(x.s, v, r, deeper)
  <2>1. run[n] = (IF x.reg # Fail THEN x ELSE y) /\ n \in 0 .. N
    <3>1. run[n] = Turn(n, run[n - 1])
      <4> HIDE DEF run, Turn
      <4> QED
        BY <1>4
    <3> QED
      BY <1>0, <3>1
  <2>2. r \in T /\ r \in Regs
    BY <1>b, <1>5
  <2>3. Resolved(s, v, x) /\ v \in x.s.fixed
    BY <1>5
  <2> HIDE DEF x, r, run
  <2>4. ASSUME x.reg = Fail PROVE Resolved(s, v, y) /\ v \in y.s.fixed
    <3>1. Asked(x.s, v)
      BY <2>3, <2>4, Zenon DEF Resolved, Answered, Asked
    <3>2. Resolved(x.s, v, y)
      BY <2>2, <2>3, <3>1, AttemptIs, Zenon DEF T
    <3>3. v \in y.s.fixed
      <4>1. Leads({v}, x.s, y.s)
        BY <3>2, Zenon DEF Resolved, Answered
      <4> HIDE DEF y
      <4> QED
        BY <2>3, <4>1 DEF Leads
    <3> HIDE DEF y
    <3> QED
      BY <2>3, <2>4, <3>2, <3>3, ThenIs, Zenon
  <2> HIDE DEF y
  <2> QED
    BY <2>1, <2>3, <2>4
<1>6. Resolved(s, v, run[N])
  <2>1. 0 \in Fine
    <3>1. 0 \in 0 .. N
      BY <1>0
    <3> HIDE DEF run, N, start
    <3> QED
      BY <1>4, <1>c, <3>1, Zenon
  <2>2. N \in Fine
    <3> HIDE DEF Fine, N
    <3> QED
      BY <1>0, <1>5, <2>1, AllOf, Zenon
  <2> QED
    BY <2>2
<1>7. LastChance(s, v, deeper) = run[N]
  BY DEF LastChance, Loop, order
<1> HIDE DEF run, N
<1> QED
  BY <1>6, <1>7, Zenon

(* A level keeps the contract where the one below does.                    *)
LEMMA SelectIs ==
  ASSUME Program(prog), NEW s, NEW v \in VRegs, Asked(s, v), NEW deeper, Contract(deeper)
  PROVE  Answered(s, v, Select(s, v, deeper))
<1>1. Answered(s, v, Settled(s, v))
  BY SettledIs, Zenon
<1>2. Answered(s, v, LastChance(s, v, deeper))
  BY LastChanceIs, Zenon DEF Resolved
<1> QED
  BY <1>1, <1>2, Zenon DEF Select

(* However deep the last chance may go, what is asked is answered.         *)
LEMMA SelectOrSplitIs ==
  ASSUME Program(prog), NEW levels \in Nat
  PROVE  Contract(SelectOrSplit(levels))
<1> DEFINE N == levels
           start == [call \in Calls |-> Settled(call[1], call[2])]
           Turn(i, x) == [call \in Calls |-> Select(call[1], call[2], x)]
           IsRun(f, n) == f = [i \in 0 .. n |-> IF i = 0 THEN start ELSE Turn(i, f[i - 1])]
           run == CHOOSE f : IsRun(f, N)
           Ran == {n \in Nat : \E f : IsRun(f, n)}
           Fine == {n \in 0 .. N : Contract(run[n])}
<1>c. Contract(start)
  <2>1. SUFFICES ASSUME NEW s \in Sessions, NEW v \in VRegs, Asked(s, v)
                 PROVE  Answered(s, v, start[<<s, v>>])
    BY DEF Contract
  <2>2. <<s, v>> \in Calls /\ <<s, v>>[1] = s /\ <<s, v>>[2] = v
    BY DEF Calls
  <2>3. start[<<s, v>>] = Settled(s, v)
    BY <2>2
  <2> HIDE DEF start
  <2>4. Answered(s, v, Settled(s, v))
    BY <2>1, SettledIs, Zenon
  <2> QED
    BY <2>3, <2>4
<1>0. N \in Nat /\ N \in 0 .. N /\ 0 \in Nat
  OBVIOUS
<1> HIDE DEF N
<1>1. 0 \in Ran
  <2> DEFINE f == [i \in 0 .. 0 |-> start]
  <2>1. \A i \in 0 .. 0 : i = 0
    OBVIOUS
  <2>2. IsRun(f, 0)
    <3> HIDE DEF Turn, start
    <3> QED
      BY <2>1
  <2> QED
    BY <1>0, <2>2, Zenon
<1>2. ASSUME NEW n \in 1 .. N, n - 1 \in Ran PROVE n \in Ran
  <2>1. PICK f : IsRun(f, n - 1)
    BY <1>2
  <2> DEFINE x == Turn(n, f[n - 1])
             g == Longer(f, n, x)
  <2>2. n \in Nat \ {0} /\ n - 1 \in 0 .. n - 1
    BY <1>0
  <2>3. /\ \A i \in 0 .. n - 1 : g[i] = f[i]
        /\ g[n] = x
        /\ \A i \in 0 .. n : i # 0 => i - 1 \in 0 .. n - 1
        /\ \A i \in 0 .. n : i # n => i \in 0 .. n - 1
    <3> HIDE DEF x
    <3> QED
      BY <2>2, LongerIs
  <2>4. g = [i \in 0 .. n |-> g[i]]
    BY DEF Longer
  <2>5. ASSUME NEW i \in 0 .. n
        PROVE  g[i] = IF i = 0 THEN start ELSE Turn(i, g[i - 1])
    <3> HIDE DEF g, Turn, start
    <3> QED
      BY <2>1, <2>2, <2>3
  <2>6. IsRun(g, n)
    <3> HIDE DEF g, Turn, start
    <3> QED
      BY <2>4, <2>5
  <2> HIDE DEF IsRun, g
  <2> QED
    BY <2>2, <2>6
<1>3. IsRun(run, N)
  <2>1. N \in Ran
    <3> HIDE DEF Ran, N
    <3> QED
      BY <1>0, <1>1, <1>2, AllOf, Zenon
  <2> HIDE DEF IsRun
  <2> QED
    BY <2>1
<1>4. run[0] = start /\ \A i \in 1 .. N : run[i] = Turn(i, run[i - 1])
  <2> HIDE DEF run, Turn, start
  <2> QED
    BY <1>0, <1>3
<1>5. ASSUME NEW n \in 1 .. N, n - 1 \in Fine PROVE n \in Fine
  <2> DEFINE x == run[n - 1]
  <2>1. run[n] = Turn(n, x) /\ n \in 0 .. N
    <3> HIDE DEF run, Turn
    <3> QED
      BY <1>0, <1>4
  <2>2. Contract(x)
    BY <1>5
  <2> HIDE DEF x, run
  <2>3. ASSUME NEW s \in Sessions, NEW v \in VRegs, Asked(s, v)
        PROVE  Answered(s, v, run[n][<<s, v>>])
    <3>1. <<s, v>> \in Calls /\ <<s, v>>[1] = s /\ <<s, v>>[2] = v
      BY DEF Calls
    <3>2. run[n][<<s, v>>] = Select(s, v, x)
      BY <2>1, <3>1
    <3>3. Answered(s, v, Select(s, v, x))
      BY <2>2, <2>3, SelectIs, Zenon
    <3> QED
      BY <3>2, <3>3
  <2>4. Contract(run[n])
    BY <2>3 DEF Contract
  <2> QED
    BY <2>1, <2>4
<1>6. Contract(run[N])
  <2>1. 0 \in Fine
    <3>1. 0 \in 0 .. N
      BY <1>0
    <3> HIDE DEF run, N, start
    <3> QED
      BY <1>4, <1>c, <3>1, Zenon
  <2>2. N \in Fine
    <3> HIDE DEF Fine, N
    <3> QED
      BY <1>0, <1>5, <2>1, AllOf, Zenon
  <2> QED
    BY <2>2
<1>7. SelectOrSplit(levels) = run[N]
  BY DEF SelectOrSplit, Loop, N
<1> HIDE DEF run, N
<1> QED
  BY <1>6, <1>7, Zenon

-----------------------------------------------------------------------------
(* Hint recoloring.                                                        *)

Allocs ==
  [phys: [VRegs -> Regs \cup {None}], stage: [VRegs -> Stages],
   cascade: [VRegs -> Nat], nextCascade: Nat,
   made: SUBSET VRegs, broken: Seq(VRegs)]

(* The fields of what the allocator holds.                                 *)
LEMMA AllocIs ==
  ASSUME NEW a \in Allocs
  PROVE  /\ a.phys \in [VRegs -> Regs \cup {None}] /\ a.stage \in [VRegs -> Stages]
         /\ a.cascade \in [VRegs -> Nat] /\ a.nextCascade \in Nat
         /\ a.made \subseteq VRegs /\ a.broken \in Seq(VRegs)
BY Zenon DEF Allocs

(* b is a with some of its ranges in other registers.                      *)
Moved(a, b) ==
  /\ b \in Allocs /\ Sound(b)
  /\ b.stage = a.stage /\ b.cascade = a.cascade /\ b.nextCascade = a.nextCascade
  /\ b.made = a.made /\ b.broken = a.broken
  /\ \A w \in VRegs : b.phys[w] = None <=> a.phys[w] = None

(* A range moved along a copy to a register that is free leaves the        *)
(* matrix sound.                                                           *)
LEMMA MovedOne ==
  ASSUME NEW a, NEW b, Moved(a, b), NEW w \in VRegs, b.phys[w] # None, NEW r \in Regs,
         b.phys[w] = r \/ MayMove(b, w, r)
  PROVE  Moved(a, [b EXCEPT !.phys[w] = r])
<1> DEFINE phys == [x \in VRegs |-> IF x = w THEN r ELSE b.phys[x]]
           c == [b EXCEPT !.phys[w] = r]
<1>1. b \in Allocs /\ Sound(b)
  BY DEF Moved
<1>2. [b.phys EXCEPT ![w] = r] = phys
  BY <1>1, AllocIs
<1>3. c = [b EXCEPT !.phys = phys]
  <2>1. c = [b EXCEPT !.phys = [b.phys EXCEPT ![w] = r]]
    BY <1>1 DEF Allocs
  <2> HIDE DEF c, phys
  <2> QED
    BY <1>2, <2>1
<1> HIDE DEF c, phys
<1>4. /\ c.phys = phys /\ c.stage = b.stage /\ c.made = b.made
      /\ c.cascade = b.cascade /\ c.nextCascade = b.nextCascade /\ c.broken = b.broken
  BY <1>1, <1>3 DEF Allocs
<1>5. \A x \in VRegs : c.phys[x] = IF x = w THEN r ELSE b.phys[x]
  BY <1>4 DEF phys
<1>6. c \in Allocs
  <2>1. phys \in [VRegs -> Regs \cup {None}]
    BY <1>1, AllocIs DEF phys
  <2> QED
    BY <1>1, <1>3, <2>1 DEF Allocs
<1>7. r # None
  BY RegsAre
<1>8. Sound(c)
  <2>1. CASE b.phys[w] = r
    <3>1. \A x \in VRegs : c.phys[x] = b.phys[x]
      BY <1>5, <2>1
    <3> QED
      BY <1>1, <1>4, <3>1 DEF Sound, Apart
  <2>2. CASE MayMove(b, w, r)
    <3>1. r \in ToSet(prog.order[w])
      BY <2>2 DEF MayMove, Contains, ToSet
    <3>2. r \notin prog.blocked[w] /\ HoldersOf(b, w, r) = {}
      BY <2>2 DEF MayMove, IsFree
    <3>3. \A x : ~InTheWay(b, w, r, x)
      BY <3>2, HoldersAre, Zenon
    <3>4. \A x \in VRegs : b.phys[x] # None => x \in b.made
      BY <1>1, Zenon DEF Sound
    <3>5. CanHave(b, w, r)
      BY <3>1, <3>2, <3>3, <3>4, Zenon DEF CanHave, InTheWay
    <3> QED
      BY <1>1, <1>4, <1>5, <3>4, <3>5, PlacedIsSound
  <2> QED
    BY <2>1, <2>2
<1>9. \A x \in VRegs : c.phys[x] = None <=> b.phys[x] = None
  BY <1>5, <1>7
<1> QED
  BY <1>4, <1>6, <1>8, <1>9 DEF Moved, c

(* What `Program` says of copies.                                          *)
LEMMA CopiesAre ==
  ASSUME Program(prog)
  PROVE  /\ Len(prog.copies) \in Nat /\ DOMAIN prog.copies = 1 .. Len(prog.copies)
         /\ \A n \in DOMAIN prog.copies :
              /\ prog.copies[n].ends \in SUBSET VRegs
              /\ Cardinality(prog.copies[n].ends) = 2
              /\ prog.copies[n].freq \in Nat
<1> DEFINE Ends == {E \in SUBSET VRegs : Cardinality(E) = 2}
           R == [ends: Ends, freq: Nat]
           c == prog.copies
<1>1. c \in Seq(R)
  BY ProgramIs, Zenon
<1> HIDE DEF R, c
<1>2. Len(c) \in Nat /\ DOMAIN c = 1 .. Len(c) /\ \A n \in DOMAIN c : c[n] \in R
  BY <1>1
<1>3. ASSUME NEW n \in DOMAIN c
      PROVE  c[n].ends \in SUBSET VRegs /\ Cardinality(c[n].ends) = 2 /\ c[n].freq \in Nat
  <2> DEFINE copy == c[n]
  <2>1. copy \in R
    BY <1>2
  <2> HIDE DEF copy
  <2>2. copy.ends \in Ends /\ copy.freq \in Nat
    <3> HIDE DEF Ends
    <3> QED
      BY <2>1 DEF R
  <2> QED
    BY <2>2 DEF copy
<1> QED
  BY <1>2, <1>3, Zenon DEF c

(* The other end of a copy.                                                *)
LEMMA OtherEndIs ==
  ASSUME NEW copy, copy.ends \in SUBSET VRegs, Cardinality(copy.ends) = 2, NEW v \in copy.ends
  PROVE  /\ OtherEnd(copy, v) \in VRegs /\ OtherEnd(copy, v) # v
         /\ copy.ends = {v, OtherEnd(copy, v)}
<1> DEFINE E == copy.ends
           o == OtherEnd(copy, v)
<1>1. IsFiniteSet(E) /\ Cardinality(E) = 2
  <2>1. E \subseteq VRegs /\ IsFiniteSet(VRegs) /\ Cardinality(E) = 2
    BY RegsAre
  <2> HIDE DEF E
  <2> QED
    BY <2>1, FS_Subset
<1>2. \E w \in E : w # v
  <2>1. SUFFICES ASSUME E \subseteq {v} PROVE FALSE
    OBVIOUS
  <2>2. IsFiniteSet({v}) /\ Cardinality({v}) = 1
    BY FS_Singleton
  <2> HIDE DEF E
  <2>3. Cardinality(E) <= 1
    BY <2>1, <2>2, FS_Subset
  <2> QED
    BY <1>1, <2>3
<1>3. o \in E /\ o # v
  BY <1>2 DEF OtherEnd
<1> HIDE DEF o
<1>4. v \in E
  OBVIOUS
<1> HIDE DEF E
<1>5. IsFiniteSet(E \ {v}) /\ Cardinality(E \ {v}) = 1
  BY <1>1, <1>4, FS_RemoveElement
<1>6. PICK x : E \ {v} = {x}
  BY <1>5, FS_Singleton
<1>7. E = {v, o}
  BY <1>3, <1>4, <1>6
<1> QED
  BY <1>3, <1>7 DEF E, o

(* Who of VRegs is free to be moved, but for where it is.                  *)
Unpinned == {w \in VRegs : prog.pins[w] = None}

(* The other ends of copies are ranges that are not pinned.                *)
LEMMA OthersOfAre ==
  ASSUME Program(prog), NEW a, NEW v, NEW visited
  PROVE  OthersOf(a, v, visited) \in Seq(Unpinned)
<1> DEFINE others(n) ==
             IF n \in HintInfo(a, v)
             THEN {OtherEnd(prog.copies[n], v)} \ (visited \cup Pinned \cup prog.fixed)
             ELSE {}
           sets == [n \in DOMAIN prog.copies |-> others(n)]
<1>1. Len(prog.copies) \in Nat /\ DOMAIN prog.copies = 1 .. Len(prog.copies)
  BY CopiesAre
<1>2. ASSUME NEW n \in DOMAIN prog.copies PROVE others(n) \in SUBSET Unpinned
  <2>1. CASE n \in HintInfo(a, v)
    <3> DEFINE copy == prog.copies[n]
               o == OtherEnd(copy, v)
    <3>1. copy.ends \in SUBSET VRegs /\ Cardinality(copy.ends) = 2
      BY CopiesAre
    <3>2. v \in copy.ends
      BY <2>1 DEF HintInfo
    <3> HIDE DEF copy
    <3>3. o \in VRegs
      BY <3>1, <3>2, OtherEndIs, Zenon
    <3>4. others(n) = {o} \ (visited \cup Pinned \cup prog.fixed)
      BY <2>1 DEF copy
    <3> HIDE DEF o, others
    <3> QED
      BY <3>3, <3>4 DEF Unpinned, Pinned
  <2>2. CASE n \notin HintInfo(a, v)
    BY <2>2
  <2> QED
    BY <2>1, <2>2
<1>3. sets \in Seq(SUBSET Unpinned)
  <2> HIDE DEF others
  <2> QED
    BY <1>1, <1>2
<1>4. OthersOf(a, v, visited) = Gathered(sets)
  BY DEF OthersOf
<1> HIDE DEF sets
<1> QED
  BY <1>3, <1>4, GatheredIs, Zenon

(* How often copies are executed, summed up one after another.             *)
SumsUp(f, S) ==
  /\ f[0] = 0
  /\ \A i \in DOMAIN prog.copies :
       f[i] = IF i \in S THEN f[i - 1] + prog.copies[i].freq ELSE f[i - 1]

LEMMA FreqOfIs ==
  ASSUME Program(prog), NEW S
  PROVE  \E f : /\ SumsUp(f, S) /\ f[Len(prog.copies)] = FreqOf(S)
                /\ \A i \in 0 .. Len(prog.copies) : f[i] \in Nat
<1> DEFINE N == Len(prog.copies)
           Turn(i, x) == IF i \in S THEN x + prog.copies[i].freq ELSE x
           IsRun(f, n) == f = [i \in 0 .. n |-> IF i = 0 THEN 0 ELSE Turn(i, f[i - 1])]
           run == CHOOSE f : IsRun(f, N)
           Ran == {n \in Nat : \E f : IsRun(f, n)}
           Fine == {n \in 0 .. N : run[n] \in Nat}
<1>0. N \in Nat /\ N \in 0 .. N /\ 0 \in Nat
  <2>1. N \in Nat
    BY CopiesAre
  <2> HIDE DEF N
  <2> QED
    BY <2>1
<1>a. /\ DOMAIN prog.copies = 1 .. N
      /\ \A i \in 1 .. N : prog.copies[i].freq \in Nat
  BY CopiesAre
<1> HIDE DEF N
<1>1. 0 \in Ran
  <2> DEFINE f == [i \in 0 .. 0 |-> 0]
  <2>1. \A i \in 0 .. 0 : i = 0
    OBVIOUS
  <2>2. IsRun(f, 0)
    <3> HIDE DEF Turn
    <3> QED
      BY <2>1
  <2> QED
    BY <1>0, <2>2, Zenon
<1>2. ASSUME NEW n \in 1 .. N, n - 1 \in Ran PROVE n \in Ran
  <2>1. PICK f : IsRun(f, n - 1)
    BY <1>2
  <2> DEFINE x == Turn(n, f[n - 1])
             g == Longer(f, n, x)
  <2>2. n \in Nat \ {0} /\ n - 1 \in 0 .. n - 1
    BY <1>0
  <2>3. /\ \A i \in 0 .. n - 1 : g[i] = f[i]
        /\ g[n] = x
        /\ \A i \in 0 .. n : i # 0 => i - 1 \in 0 .. n - 1
        /\ \A i \in 0 .. n : i # n => i \in 0 .. n - 1
    <3> HIDE DEF x
    <3> QED
      BY <2>2, LongerIs
  <2>4. g = [i \in 0 .. n |-> g[i]]
    BY DEF Longer
  <2>5. ASSUME NEW i \in 0 .. n
        PROVE  g[i] = IF i = 0 THEN 0 ELSE Turn(i, g[i - 1])
    <3> HIDE DEF g, Turn
    <3> QED
      BY <2>1, <2>2, <2>3
  <2>6. IsRun(g, n)
    <3> HIDE DEF g, Turn
    <3> QED
      BY <2>4, <2>5
  <2> HIDE DEF IsRun, g
  <2> QED
    BY <2>2, <2>6
<1>3. IsRun(run, N)
  <2>1. N \in Ran
    <3> HIDE DEF Ran, N
    <3> QED
      BY <1>0, <1>1, <1>2, AllOf, Zenon
  <2> HIDE DEF IsRun
  <2> QED
    BY <2>1
<1>4. run[0] = 0 /\ \A i \in 1 .. N : run[i] = Turn(i, run[i - 1])
  <2> HIDE DEF run, Turn
  <2> QED
    BY <1>0, <1>3
<1>5. ASSUME NEW n \in 1 .. N, n - 1 \in Fine PROVE n \in Fine
  <2> DEFINE x == run[n - 1]
  <2>1. run[n] = Turn(n, x) /\ n \in 0 .. N
    <3> HIDE DEF run, Turn
    <3> QED
      BY <1>0, <1>4
  <2>2. x \in Nat
    BY <1>5
  <2>3. prog.copies[n].freq \in Nat
    BY <1>a
  <2> HIDE DEF x, run
  <2>4. Turn(n, x) \in Nat
    BY <2>2, <2>3
  <2> QED
    BY <2>1, <2>4
<1>6. \A n \in 0 .. N : run[n] \in Nat
  <2>1. 0 \in Fine
    <3>1. 0 \in 0 .. N
      BY <1>0
    <3> HIDE DEF run, N
    <3> QED
      BY <1>4, <3>1, <1>0
  <2>2. \A n \in 0 .. N : n \in Fine
    <3> HIDE DEF Fine, N
    <3> QED
      BY <1>0, <1>5, <2>1, AllOf, Zenon
  <2> HIDE DEF run
  <2> QED
    BY <2>2
<1>7. FreqOf(S) = run[N]
  BY DEF FreqOf, Loop, N
<1>8. SumsUp(run, S)
  <2> HIDE DEF run
  <2> QED
    BY <1>4, <1>a DEF SumsUp
<1> HIDE DEF run
<1> QED
  BY <1>6, <1>7, <1>8 DEF N

(* Copies that are in two sets as those of two others are, once or in      *)
(* both, cost the same together.                                           *)
Paired(S, T, U, V) ==
  \A n \in DOMAIN prog.copies :
    \/ (n \in S <=> n \in U) /\ (n \in T <=> n \in V)
    \/ (n \in S <=> n \in V) /\ (n \in T <=> n \in U)

LEMMA FreqsAreEqual ==
  ASSUME Program(prog), NEW S, NEW T, NEW U, NEW V, Paired(S, T, U, V)
  PROVE  /\ FreqOf(S) + FreqOf(T) = FreqOf(U) + FreqOf(V)
         /\ FreqOf(S) \in Nat /\ FreqOf(T) \in Nat /\ FreqOf(U) \in Nat /\ FreqOf(V) \in Nat
<1> DEFINE N == Len(prog.copies)
<1>0. N \in Nat /\ N \in 0 .. N /\ 0 \in 0 .. N
  <2>1. N \in Nat
    BY CopiesAre
  <2> HIDE DEF N
  <2> QED
    BY <2>1
<1>a. /\ DOMAIN prog.copies = 1 .. N
      /\ \A i \in 1 .. N : prog.copies[i].freq \in Nat
  BY CopiesAre
<1>1. PICK s : SumsUp(s, S) /\ s[N] = FreqOf(S) /\ \A i \in 0 .. N : s[i] \in Nat
  BY FreqOfIs
<1>2. PICK t : SumsUp(t, T) /\ t[N] = FreqOf(T) /\ \A i \in 0 .. N : t[i] \in Nat
  BY FreqOfIs
<1>3. PICK u : SumsUp(u, U) /\ u[N] = FreqOf(U) /\ \A i \in 0 .. N : u[i] \in Nat
  BY FreqOfIs
<1>4. PICK v : SumsUp(v, V) /\ v[N] = FreqOf(V) /\ \A i \in 0 .. N : v[i] \in Nat
  BY FreqOfIs
<1> DEFINE Even == {i \in 0 .. N : s[i] + t[i] = u[i] + v[i]}
<1> HIDE DEF N
<1>5. 0 \in Even
  <2>1. s[0] = 0 /\ t[0] = 0 /\ u[0] = 0 /\ v[0] = 0
    BY <1>1, <1>2, <1>3, <1>4 DEF SumsUp
  <2> QED
    BY <1>0, <2>1
<1>6. ASSUME NEW i \in 1 .. N, i - 1 \in Even PROVE i \in Even
  <2> DEFINE c == prog.copies[i].freq
  <2>1. i \in DOMAIN prog.copies /\ c \in Nat
    BY <1>a
  <2>2. i - 1 \in 0 .. N /\ i \in 0 .. N
    BY <1>0
  <2> HIDE DEF c
  <2>3. /\ s[i] = IF i \in S THEN s[i - 1] + c ELSE s[i - 1]
        /\ t[i] = IF i \in T THEN t[i - 1] + c ELSE t[i - 1]
        /\ u[i] = IF i \in U THEN u[i - 1] + c ELSE u[i - 1]
        /\ v[i] = IF i \in V THEN v[i - 1] + c ELSE v[i - 1]
    BY <1>1, <1>2, <1>3, <1>4, <2>1, Zenon DEF SumsUp, c
  <2>4. /\ s[i - 1] \in Nat /\ t[i - 1] \in Nat /\ u[i - 1] \in Nat /\ v[i - 1] \in Nat
        /\ s[i - 1] + t[i - 1] = u[i - 1] + v[i - 1]
    BY <1>1, <1>2, <1>3, <1>4, <1>6, <2>2
  <2>5. \/ (i \in S <=> i \in U) /\ (i \in T <=> i \in V)
        \/ (i \in S <=> i \in V) /\ (i \in T <=> i \in U)
    BY <2>1 DEF Paired
  <2>6. s[i] + t[i] = u[i] + v[i]
    BY <2>1, <2>3, <2>4, <2>5
  <2> QED
    BY <2>2, <2>6
<1>7. N \in Even
  <2>1. \A i \in 0 .. N : i \in Even
    <3> HIDE DEF Even
    <3> QED
      BY <1>0, <1>5, <1>6, AllOf, Zenon
  <2> QED
    BY <1>0, <2>1
<1> QED
  BY <1>0, <1>1, <1>2, <1>3, <1>4, <1>7

(* Moving w from p to r: what its copies cost in p is no more paid, what   *)
(* they cost in r is.                                                      *)
LEMMA MovingCosts ==
  ASSUME Program(prog), NEW a, NEW b, NEW w \in Unpinned, NEW r \in Regs, a.phys[w] # None,
         \A x \in VRegs : b.phys[x] = IF x = w THEN r ELSE a.phys[x],
         BrokenHintFreq(a, w, a.phys[w]) >= BrokenHintFreq(a, w, r)
  PROVE  BrokenCost(b) <= BrokenCost(a)
<1> DEFINE S == {n \in DOMAIN prog.copies : Broken(b, prog.copies[n])}
           T == {n \in HintInfo(a, w) : HeldBy(a, OtherEnd(prog.copies[n], w)) # a.phys[w]}
           U == {n \in DOMAIN prog.copies : Broken(a, prog.copies[n])}
           V == {n \in HintInfo(a, w) : HeldBy(a, OtherEnd(prog.copies[n], w)) # r}
<1>1. Paired(S, T, U, V)
  <2> SUFFICES ASSUME NEW n \in DOMAIN prog.copies
               PROVE  \/ (n \in S <=> n \in U) /\ (n \in T <=> n \in V)
                      \/ (n \in S <=> n \in V) /\ (n \in T <=> n \in U)
    BY DEF Paired
  <2> DEFINE copy == prog.copies[n]
  <2>1. copy.ends \in SUBSET VRegs /\ Cardinality(copy.ends) = 2
    BY CopiesAre
  <2>2. /\ n \in S <=> Broken(b, copy)
        /\ n \in U <=> Broken(a, copy)
        /\ n \in HintInfo(a, w)
             <=> w \in copy.ends /\ HeldBy(a, OtherEnd(copy, w)) # None
        /\ n \in T <=> n \in HintInfo(a, w) /\ HeldBy(a, OtherEnd(copy, w)) # a.phys[w]
        /\ n \in V <=> n \in HintInfo(a, w) /\ HeldBy(a, OtherEnd(copy, w)) # r
    BY DEF HintInfo
  <2> HIDE DEF S, T, U, V, copy
  <2>3. \A x \in VRegs \ {w} : HeldBy(b, x) = HeldBy(a, x)
    BY DEF HeldBy
  <2>4. CASE w \notin copy.ends
    <3>1. \A x \in copy.ends : HeldBy(b, x) = HeldBy(a, x)
      BY <2>1, <2>3, <2>4
    <3>2. Broken(b, copy) <=> Broken(a, copy)
      BY <3>1 DEF Broken
    <3> QED
      BY <2>2, <2>4, <3>2
  <2>5. CASE w \in copy.ends
    <3> DEFINE o == OtherEnd(copy, w)
               h == HeldBy(a, o)
    <3>1. o \in VRegs /\ o # w /\ copy.ends = {w, o}
      BY <2>1, <2>5, OtherEndIs, Zenon
    <3> HIDE DEF o
    <3>2. /\ HeldBy(b, o) = h
          /\ HeldBy(a, w) = a.phys[w] /\ HeldBy(b, w) = r
      BY <2>3, <3>1 DEF HeldBy, Unpinned
    <3>3. r # None
      BY RegsAre
    <3> HIDE DEF h
    <3>4. Broken(b, copy) <=> h # None /\ h # r
      BY <3>1, <3>2, <3>3 DEF Broken
    <3>5. Broken(a, copy) <=> h # None /\ h # a.phys[w]
      BY <3>1, <3>2 DEF Broken, h
    <3> QED
      BY <2>2, <2>5, <3>4, <3>5 DEF h, o
  <2> QED
    BY <2>4, <2>5
<1>2. /\ FreqOf(S) = BrokenCost(b) /\ FreqOf(U) = BrokenCost(a)
      /\ FreqOf(T) = BrokenHintFreq(a, w, a.phys[w]) /\ FreqOf(V) = BrokenHintFreq(a, w, r)
  BY DEF BrokenCost, BrokenHintFreq
<1> HIDE DEF S, T, U, V
<1>3. /\ FreqOf(S) + FreqOf(T) = FreqOf(U) + FreqOf(V)
      /\ FreqOf(S) \in Nat /\ FreqOf(T) \in Nat /\ FreqOf(U) \in Nat /\ FreqOf(V) \in Nat
  BY <1>1, FreqsAreEqual
<1>4. FreqOf(T) >= FreqOf(V)
  BY <1>2
<1>5. FreqOf(S) <= FreqOf(U)
  BY <1>3, <1>4
<1> QED
  BY <1>2, <1>5

(* What copies that are broken cost is a number.                           *)
LEMMA CostIs ==
  ASSUME Program(prog), NEW a
  PROVE  BrokenCost(a) \in Nat
<1> DEFINE S == {n \in DOMAIN prog.copies : Broken(a, prog.copies[n])}
<1>1. BrokenCost(a) = FreqOf(S)
  BY DEF BrokenCost
<1> HIDE DEF S
<1>2. Paired(S, S, S, S)
  BY DEF Paired
<1> QED
  BY <1>1, <1>2, FreqsAreEqual

(* Who can be given r, or has it.                                          *)
Loose(a, r) == {w \in VRegs : prog.pins[w] = None \/ a.phys[w] = r}

(* The loop: what it has moved, at what cost, and whom it is to visit.     *)
Spreading(a, r, x) ==
  /\ Moved(a, x.a) /\ BrokenCost(x.a) <= BrokenCost(a)
  /\ x.todo \in Seq(Loose(x.a, r))
  /\ x = [a |-> x.a, todo |-> x.todo, visited |-> x.visited]

(* A step that gives w, which has a register, r.                           *)
Placing(a, w, r, b) ==
  /\ \A x \in VRegs : b.phys[x] = IF x = w THEN r ELSE a.phys[x]
  /\ Loose(a, r) \subseteq Loose(b, r)
  /\ BrokenCost(b) <= BrokenCost(a)

(* It costs no more than the range's own copies do.                        *)
LEMMA PlacingIs ==
  ASSUME Program(prog), NEW a, a \in Allocs, NEW r \in Regs, NEW w \in Loose(a, r),
         a.phys[w] # None, a.phys[w] = r \/ MayMove(a, w, r)
  PROVE  Placing(a, w, r, [a EXCEPT !.phys[w] = r])
<1> DEFINE b == [a EXCEPT !.phys[w] = r]
<1>1. w \in VRegs /\ (prog.pins[w] = None \/ a.phys[w] = r)
  BY DEF Loose
<1>2. b.phys = [a.phys EXCEPT ![w] = r]
  BY DEF Allocs
<1>3. \A x \in VRegs : b.phys[x] = IF x = w THEN r ELSE a.phys[x]
  <2> HIDE DEF b
  <2> QED
    BY <1>1, <1>2, AllocIs
<1> HIDE DEF b
<1>4. Loose(a, r) \subseteq Loose(b, r)
  BY <1>3 DEF Loose
<1>5. BrokenCost(b) <= BrokenCost(a)
  <2>1. CASE a.phys[w] = r
    <3>1. \A x \in VRegs : b.phys[x] = a.phys[x]
      BY <1>3, <2>1
    <3>2. \A x \in VRegs : HeldBy(b, x) = HeldBy(a, x)
      BY <3>1 DEF HeldBy
    <3>3. ASSUME NEW n \in DOMAIN prog.copies
          PROVE  Broken(b, prog.copies[n]) <=> Broken(a, prog.copies[n])
      <4> DEFINE copy == prog.copies[n]
      <4>1. copy.ends \in SUBSET VRegs
        BY CopiesAre
      <4> HIDE DEF copy
      <4>2. Broken(b, copy) <=> Broken(a, copy)
        BY <3>2, <4>1 DEF Broken
      <4> QED
        BY <4>2 DEF copy
    <3>4. {n \in DOMAIN prog.copies : Broken(b, prog.copies[n])}
            = {n \in DOMAIN prog.copies : Broken(a, prog.copies[n])}
      BY <3>3
    <3>5. BrokenCost(b) = BrokenCost(a)
      BY <3>4 DEF BrokenCost
    <3> QED
      BY <3>5, CostIs
  <2>2. CASE a.phys[w] # r
    <3>1. w \in Unpinned
      BY <1>1, <2>2 DEF Unpinned
    <3>2. BrokenHintFreq(a, w, a.phys[w]) >= BrokenHintFreq(a, w, r)
      BY <2>2 DEF MayMove
    <3> QED
      BY <1>3, <3>1, <3>2, MovingCosts
  <2> QED
    BY <2>1, <2>2
<1> QED
  BY <1>3, <1>4, <1>5 DEF Placing, b

(* One range is taken from the list, and moved at most.                    *)
LEMMA HintRecoloredOneIs ==
  ASSUME Program(prog), NEW a, NEW r \in Regs, NEW x, Spreading(a, r, x)
  PROVE  Spreading(a, r, HintRecoloredOne(x, r))
<1> DEFINE w == Last(x.todo)
           others == OthersOf(x.a, w, x.visited)
           stay == [x EXCEPT !.todo = Front(@)]
           b == [x.a EXCEPT !.phys[w] = r]
           go == [a |-> b, todo |-> Front(x.todo) \o others,
                  visited |-> x.visited \cup ToSet(others)]
           y == HintRecoloredOne(x, r)
           L == Loose(x.a, r)
<1>1. /\ Moved(a, x.a) /\ BrokenCost(x.a) <= BrokenCost(a) /\ x.todo \in Seq(L)
      /\ x = [a |-> x.a, todo |-> x.todo, visited |-> x.visited]
  BY Zenon DEF Spreading
<1>2. y = IF x.todo = <<>> THEN x
          ELSE IF x.a.phys[w] = None \/ (x.a.phys[w] # r /\ ~MayMove(x.a, w, r))
          THEN stay ELSE go
  BY Zenon DEF HintRecoloredOne
<1>3. x.todo # <<>> => w \in L /\ Front(x.todo) \in Seq(L)
  <2> DEFINE todo == x.todo
  <2>1. todo \in Seq(L)
    BY <1>1
  <2> HIDE DEF todo, L
  <2>2. todo # <<>> => Last(todo) \in L /\ Front(todo) \in Seq(L)
    BY <2>1 DEF Last, Front
  <2> QED
    BY <2>2 DEF todo
<1>4. others \in Seq(Unpinned)
  BY OthersOfAre, Zenon
<1> HIDE DEF w, others, L
<1>5. ASSUME x.todo # <<>> PROVE Spreading(a, r, stay)
  <2> DEFINE rest == Front(x.todo)
  <2>1. rest \in Seq(L)
    BY <1>3, <1>5
  <2>2. stay = [x EXCEPT !.todo = rest]
    OBVIOUS
  <2> HIDE DEF rest, stay
  <2>3. stay = [a |-> x.a, todo |-> rest, visited |-> x.visited]
    BY <1>1, <2>2
  <2>4. stay.a = x.a /\ stay.todo = rest /\ stay.visited = x.visited
    BY <2>3
  <2> QED
    BY <1>1, <2>1, <2>3, <2>4, Zenon DEF Spreading, L
<1>6. ASSUME x.todo # <<>>, x.a.phys[w] # None, x.a.phys[w] = r \/ MayMove(x.a, w, r)
      PROVE  Spreading(a, r, go)
  <2> DEFINE M == Loose(b, r)
  <2>1. w \in L /\ w \in VRegs /\ x.a \in Allocs
    BY <1>1, <1>3, <1>6 DEF L, Loose, Moved
  <2>2. Moved(a, b)
    BY <1>1, <1>6, <2>1, MovedOne, Zenon
  <2>3. Placing(x.a, w, r, b)
    BY <1>6, <2>1, PlacingIs, Zenon DEF L
  <2>4. L \subseteq M /\ BrokenCost(b) <= BrokenCost(x.a) /\ Unpinned \subseteq M
    <3>1. Unpinned \subseteq M
      <4> HIDE DEF b
      <4> QED
        BY DEF Unpinned, Loose
    <3> HIDE DEF b
    <3> QED
      BY <2>3, <3>1, Zenon DEF Placing, L
  <2>5. BrokenCost(b) <= BrokenCost(a)
    <3> DEFINE i == BrokenCost(a)
               j == BrokenCost(x.a)
               k == BrokenCost(b)
    <3>1. i \in Nat /\ j \in Nat /\ k \in Nat
      BY CostIs, Zenon
    <3>2. k <= j /\ j <= i
      BY <1>1, <2>4, Zenon
    <3> HIDE DEF i, j, k
    <3>3. k <= i
      BY <3>1, <3>2
    <3> QED
      BY <3>3 DEF i, k
  <2> DEFINE more == Front(x.todo) \o others
             seen == x.visited \cup ToSet(others)
  <2>6. more \in Seq(M)
    <3> DEFINE rest == Front(x.todo)
    <3>1. rest \in Seq(L)
      BY <1>3, <1>6
    <3>2. more = rest \o others
      OBVIOUS
    <3> HIDE DEF rest, more, M
    <3>3. rest \in Seq(M) /\ others \in Seq(M)
      BY <1>4, <2>4, <3>1
    <3> QED
      BY <3>2, <3>3
  <2>7. go = [a |-> b, todo |-> more, visited |-> seen]
    OBVIOUS
  <2> HIDE DEF b, more, seen, go
  <2>8. go.a = b /\ go.todo = more /\ go.visited = seen
    BY <2>7
  <2> QED
    BY <2>2, <2>5, <2>6, <2>7, <2>8, Zenon DEF Spreading
<1> HIDE DEF y, stay, go, b
<1>7. Spreading(a, r, y)
  BY <1>2, <1>5, <1>6, Zenon
<1> QED
  BY <1>7 DEF y

(* Hint recoloring moves ranges, takes no register away, keeps the matrix  *)
(* sound and breaks no more copies than were.                              *)
LEMMA HintRecoloredIs ==
  ASSUME Program(prog), NEW a \in Allocs, Sound(a), NEW v \in VRegs, a.phys[v] # None
  PROVE  Moved(a, HintRecolored(a, v)) /\ BrokenCost(HintRecolored(a, v)) <= BrokenCost(a)
<1> DEFINE N == Cardinality(VRegs)
           r == a.phys[v]
           start == [a |-> a, todo |-> <<v>>, visited |-> {v}]
           Turn(i, x) == HintRecoloredOne(x, r)
           IsRun(f, n) == f = [i \in 0 .. n |-> IF i = 0 THEN start ELSE Turn(i, f[i - 1])]
           run == CHOOSE f : IsRun(f, N)
           Ran == {n \in Nat : \E f : IsRun(f, n)}
           Fine == {n \in 0 .. N : Spreading(a, r, run[n])}
<1>a. r \in Regs
  BY AllocIs
<1>c. Spreading(a, r, start)
  <2>1. Moved(a, a)
    BY DEF Moved
  <2>2. start.a = a /\ start.todo = <<v>> /\ start.visited = {v}
    OBVIOUS
  <2>3. <<v>> \in Seq(Loose(a, r)) /\ BrokenCost(a) <= BrokenCost(a)
    <3>1. v \in Loose(a, r)
      BY DEF Loose
    <3>2. BrokenCost(a) \in Nat
      BY CostIs
    <3> QED
      BY <3>1, <3>2
  <2>4. start = [a |-> start.a, todo |-> start.todo, visited |-> start.visited]
    BY <2>2
  <2> HIDE DEF start
  <2> QED
    BY <2>1, <2>2, <2>3, <2>4, Zenon DEF Spreading
<1>0. N \in Nat /\ N \in 0 .. N /\ 0 \in Nat
  <2>1. N \in Nat
    BY RegsAre, FS_CardinalityType
  <2> HIDE DEF N
  <2> QED
    BY <2>1
<1> HIDE DEF N, r
<1>1. 0 \in Ran
  <2> DEFINE f == [i \in 0 .. 0 |-> start]
  <2>1. \A i \in 0 .. 0 : i = 0
    OBVIOUS
  <2>2. IsRun(f, 0)
    <3> HIDE DEF Turn, start
    <3> QED
      BY <2>1
  <2> QED
    BY <1>0, <2>2, Zenon
<1>2. ASSUME NEW n \in 1 .. N, n - 1 \in Ran PROVE n \in Ran
  <2>1. PICK f : IsRun(f, n - 1)
    BY <1>2
  <2> DEFINE x == Turn(n, f[n - 1])
             g == Longer(f, n, x)
  <2>2. n \in Nat \ {0} /\ n - 1 \in 0 .. n - 1
    BY <1>0
  <2>3. /\ \A i \in 0 .. n - 1 : g[i] = f[i]
        /\ g[n] = x
        /\ \A i \in 0 .. n : i # 0 => i - 1 \in 0 .. n - 1
        /\ \A i \in 0 .. n : i # n => i \in 0 .. n - 1
    <3> HIDE DEF x
    <3> QED
      BY <2>2, LongerIs
  <2>4. g = [i \in 0 .. n |-> g[i]]
    BY DEF Longer
  <2>5. ASSUME NEW i \in 0 .. n
        PROVE  g[i] = IF i = 0 THEN start ELSE Turn(i, g[i - 1])
    <3> HIDE DEF g, Turn, start
    <3> QED
      BY <2>1, <2>2, <2>3
  <2>6. IsRun(g, n)
    <3> HIDE DEF g, Turn, start
    <3> QED
      BY <2>4, <2>5
  <2> HIDE DEF IsRun, g
  <2> QED
    BY <2>2, <2>6
<1>3. IsRun(run, N)
  <2>1. N \in Ran
    <3> HIDE DEF Ran, N
    <3> QED
      BY <1>0, <1>1, <1>2, AllOf, Zenon
  <2> HIDE DEF IsRun
  <2> QED
    BY <2>1
<1>4. run[0] = start /\ \A i \in 1 .. N : run[i] = Turn(i, run[i - 1])
  <2> HIDE DEF run, Turn, start
  <2> QED
    BY <1>0, <1>3
<1>5. ASSUME NEW n \in 1 .. N, n - 1 \in Fine PROVE n \in Fine
  <2> DEFINE x == run[n - 1]
  <2>1. run[n] = Turn(n, x) /\ n \in 0 .. N
    <3> HIDE DEF run, Turn
    <3> QED
      BY <1>0, <1>4
  <2>2. Spreading(a, r, x)
    BY <1>5
  <2> HIDE DEF x, run
  <2>3. Spreading(a, r, HintRecoloredOne(x, r))
    BY <1>a, <2>2, HintRecoloredOneIs, Zenon
  <2> QED
    BY <2>1, <2>3
<1>6. Moved(a, run[N].a) /\ BrokenCost(run[N].a) <= BrokenCost(a)
  <2>1. 0 \in Fine
    <3>1. 0 \in 0 .. N
      BY <1>0
    <3> HIDE DEF run, N, start
    <3> QED
      BY <1>4, <1>c, <3>1, Zenon
  <2>2. N \in Fine
    <3> HIDE DEF Fine, N
    <3> QED
      BY <1>0, <1>5, <2>1, AllOf, Zenon
  <2>3. Spreading(a, r, run[N])
    BY <2>2
  <2> HIDE DEF run, N
  <2> QED
    BY <2>3, Zenon DEF Spreading
<1>7. HintRecolored(a, v) = run[N].a
  BY DEF HintRecolored, Loop, N, r
<1> HIDE DEF run, N
<1> QED
  BY <1>6, <1>7, Zenon

-----------------------------------------------------------------------------
(* The allocator.                                                          *)

(* The invariant, of an allocation, a queue and what failed: what NoClash  *)
(* says, for two of any ranges that have registers; that a spill makes     *)
(* what was not there; and that each range without a register is queued,   *)
(* once, or failed.                                                        *)
Waits(a, f, v) == v \in a.made \ f /\ a.phys[v] = None
Consistent(a, q, f) ==
  /\ a \in Allocs /\ Sound(a) /\ Fresh(a) /\ Counted(a)
  /\ q \in [VRegs -> [times: Nat, prio: Nat]]
  /\ \A v \in VRegs : q[v].times = IF Waits(a, f, v) THEN 1 ELSE 0
  /\ f \subseteq a.made /\ \A v \in f : a.phys[v] = None

IInv == Program(prog) /\ Consistent(alloc, queue, failed)

(* What is queued is asked for.                                            *)
LEMMA SessionAsks ==
  ASSUME IInv, NEW v \in VRegs, queue[v].times > 0
  PROVE  Asked(Session(alloc), v) /\ Session(alloc) \in Sessions
<1> DEFINE s == Session(alloc)
<1>1. alloc \in Allocs /\ Sound(alloc) /\ Fresh(alloc) /\ Counted(alloc)
  BY Zenon DEF IInv, Consistent
<1>2. v \in alloc.made /\ alloc.phys[v] = None
  BY DEF IInv, Consistent, Waits
<1>3. /\ s.phys = alloc.phys /\ s.stage = alloc.stage /\ s.cascade = alloc.cascade
      /\ s.nextCascade = alloc.nextCascade /\ s.made = alloc.made
      /\ s.broken = alloc.broken /\ s.fixed = {} /\ s.undo = {} /\ s.new = Once({})
      /\ s = [phys |-> s.phys, stage |-> s.stage, cascade |-> s.cascade,
              nextCascade |-> s.nextCascade, made |-> s.made, broken |-> s.broken,
              fixed |-> s.fixed, undo |-> s.undo, new |-> s.new]
  BY DEF Session
<1> HIDE DEF s
<1>4. s \in Sessions
  <2>1. s.new \in [VRegs -> Nat]
    BY <1>3 DEF Once
  <2>2. /\ s.phys \in [VRegs -> Regs \cup {None}] /\ s.stage \in [VRegs -> Stages]
        /\ s.cascade \in [VRegs -> Nat] /\ s.nextCascade \in Nat
        /\ s.made \in SUBSET VRegs /\ s.broken \in Seq(VRegs)
        /\ s.fixed \in SUBSET VRegs /\ s.undo \in SUBSET [reg: VRegs, phys: Regs]
    BY <1>1, <1>3, AllocIs
  <2> QED
    BY <1>3, <2>1, <2>2, Zenon DEF Sessions
<1>5. Good(s)
  BY <1>1, <1>3, <1>4 DEF Good, Sound, Apart, Fresh, Counted, Backed
<1> QED
  BY <1>2, <1>3, <1>4, <1>5 DEF Asked, s

(* What a turn of the loop leaves, of what was answered.                   *)
Given(got, v) ==
  Staged([KeptOf(got.s) EXCEPT !.phys[v] = IF got.reg \in Regs THEN got.reg ELSE @], got.s.new)

(* The turn's answer, written to the matrix.                               *)
LEMMA GivenIs ==
  ASSUME NEW s, NEW v \in VRegs, NEW got, Answered(s, v, got)
  PROVE  /\ Given(got, v) \in Allocs
         /\ Sound(Given(got, v)) /\ Fresh(Given(got, v)) /\ Counted(Given(got, v))
         /\ Given(got, v).made = got.s.made
         /\ \A w \in VRegs : Given(got, v).phys[w] =
              IF w = v /\ got.reg \in Regs THEN got.reg ELSE got.s.phys[w]
<1> DEFINE t == got.s
           a == Given(got, v)
           reg == IF got.reg \in Regs THEN got.reg ELSE None
           phys == [w \in VRegs |-> IF w = v THEN reg ELSE t.phys[w]]
           stage == [w \in VRegs |-> IF t.new[w] > 0 /\ t.stage[w] = New
                                     THEN Assign ELSE t.stage[w]]
           k == KeptOf(t)
           b == [k EXCEPT !.phys[v] = IF got.reg \in Regs THEN got.reg ELSE @]
<1>1. /\ t \in Sessions /\ Sound(t) /\ Fresh(t) /\ Counted(t) /\ t.phys[v] = None
      /\ got.reg \in Regs => v \in t.made /\ CanHave(t, v, got.reg)
  BY Zenon DEF Answered, Good
<1>2. None \notin Regs
  BY RegsAre
<1>3. /\ k = [phys |-> t.phys, stage |-> t.stage, cascade |-> t.cascade,
              nextCascade |-> t.nextCascade, made |-> t.made, broken |-> t.broken]
      /\ a = Staged(b, t.new)
  BY DEF KeptOf, Given
<1>4. [t.phys EXCEPT ![v] = IF got.reg \in Regs THEN got.reg ELSE t.phys[v]] = phys
  BY <1>1, SessionIs
<1>5. b = [phys |-> phys, stage |-> t.stage, cascade |-> t.cascade,
           nextCascade |-> t.nextCascade, made |-> t.made, broken |-> t.broken]
  <2>1. b = [k EXCEPT !.phys = [t.phys EXCEPT ![v] = IF got.reg \in Regs THEN got.reg
                                                     ELSE t.phys[v]]]
    BY <1>3
  <2> HIDE DEF b, k, phys, t
  <2> QED
    BY <1>3, <1>4, <2>1
<1> HIDE DEF b, phys
<1>6. a = [phys |-> phys, stage |-> stage, cascade |-> t.cascade,
           nextCascade |-> t.nextCascade, made |-> t.made, broken |-> t.broken]
  <2>1. Staged(b, t.new) = [b EXCEPT !.stage = stage]
    <3>1. Staged(b, t.new) = [b EXCEPT !.stage = [w \in VRegs |->
                                IF t.new[w] > 0 /\ b.stage[w] = New THEN Assign ELSE b.stage[w]]]
      <4> HIDE DEF t
      <4> QED
        BY <1>5 DEF Staged
    <3>2. b.stage = t.stage
      BY <1>5
    <3> HIDE DEF t
    <3> QED
      BY <3>1, <3>2
  <2> HIDE DEF stage, a, t
  <2> QED
    BY <1>3, <1>5, <2>1
<1> HIDE DEF a, stage, t, k
<1>7. /\ a.phys = phys /\ a.stage = stage /\ a.cascade = t.cascade
      /\ a.nextCascade = t.nextCascade /\ a.made = t.made /\ a.broken = t.broken
  BY <1>6
<1>8. \A w \in VRegs : t.phys[w] \in Regs \cup {None} /\ t.stage[w] \in Stages
  BY <1>1, SessionIs
<1>9. a \in Allocs
  <2>1. phys \in [VRegs -> Regs \cup {None}]
    BY <1>8 DEF phys
  <2>2. stage \in [VRegs -> Stages]
    BY <1>8 DEF stage, Stages
  <2>3. /\ t.cascade \in [VRegs -> Nat] /\ t.nextCascade \in Nat
        /\ t.made \in SUBSET VRegs /\ t.broken \in Seq(VRegs)
    BY <1>1, SessionIs
  <2> QED
    BY <1>6, <2>1, <2>2, <2>3 DEF Allocs
<1>10. \A w \in VRegs : a.phys[w] = IF w = v /\ got.reg \in Regs THEN got.reg ELSE t.phys[w]
  BY <1>1, <1>7 DEF phys
<1>11. Sound(a)
  <2>1. CASE got.reg \in Regs
    <3>1. \A w \in VRegs : a.phys[w] = IF w = v THEN got.reg ELSE t.phys[w]
      BY <1>10, <2>1
    <3> QED
      BY <1>1, <1>7, <2>1, <3>1, PlacedIsSound
  <2>2. CASE got.reg \notin Regs
    <3>1. \A w \in VRegs : a.phys[w] = t.phys[w]
      BY <1>10, <2>2
    <3> QED
      BY <1>1, <1>7, <3>1 DEF Sound, Apart
  <2> QED
    BY <2>1, <2>2
<1>12. Fresh(a) /\ Counted(a)
  BY <1>1, <1>7 DEF Fresh, Counted
<1> QED
  BY <1>7, <1>9, <1>10, <1>11, <1>12 DEF a, t

(* The queue after it.                                                     *)
LEMMA EnqueuedIs ==
  ASSUME Program(prog), NEW q \in [VRegs -> [times: Nat, prio: Nat]], NEW a,
         NEW new \in [VRegs -> Nat], \A w \in VRegs : new[w] > 0 => prog.live[w] # {}
  PROVE  /\ Enqueued(q, a, new) \in [VRegs -> [times: Nat, prio: Nat]]
         /\ \A w \in VRegs : Enqueued(q, a, new)[w].times = q[w].times + new[w]
<1> DEFINE e == Enqueued(q, a, new)
           p(w) == Queued(a, w)
<1>1. \A w \in VRegs : new[w] > 0 => p(w) \in Nat
  <2>1. ASSUME NEW w \in VRegs, new[w] > 0 PROVE Queued(a, w) \in Nat
    <3>1. Priority(a, w) \in Nat
      BY <2>1, PriorityIs
    <3> QED
      BY <3>1 DEF Queued, AllBits
  <2> QED
    BY <2>1
<1> DEFINE entry(w) == IF new[w] = 0 THEN q[w]
                       ELSE [times |-> q[w].times + new[w], prio |-> p(w)]
<1>2. e = [w \in VRegs |-> entry(w)]
  BY DEF Enqueued
<1> HIDE DEF p
<1>3. ASSUME NEW w \in VRegs
      PROVE  entry(w) \in [times: Nat, prio: Nat] /\ entry(w).times = q[w].times + new[w]
  <2>1. q[w] \in [times: Nat, prio: Nat] /\ new[w] \in Nat
    OBVIOUS
  <2>2. CASE new[w] = 0
    BY <2>1, <2>2
  <2>3. CASE new[w] # 0
    <3>1. p(w) \in Nat
      BY <1>1, <2>1, <2>3
    <3>2. entry(w) = [times |-> q[w].times + new[w], prio |-> p(w)]
      BY <2>3
    <3> HIDE DEF entry
    <3> QED
      BY <2>1, <3>1, <3>2
  <2> QED
    BY <2>2, <2>3
<1> HIDE DEF entry, e
<1> QED
  BY <1>2, <1>3 DEF e

(* Where there is work, there is a first range to take.                    *)
LEMMA TakenIs ==
  ASSUME IInv, ~Idle
  PROVE  First(Entries(queue)).reg \in VRegs /\ queue[First(Entries(queue)).reg].times > 0
<1> DEFINE W == {w \in VRegs : queue[w].times > 0}
           entry(w) == [prio |-> queue[w].prio, reg |-> w]
           E == {entry(w) : w \in W}
<1>1. queue \in [VRegs -> [times: Nat, prio: Nat]]
  BY DEF IInv, Consistent
<1>2. \A w \in W : entry(w) \in [prio: Nat, reg: VRegs] /\ entry(w).reg = w
  BY <1>1
<1>3. W # {}
  <2>1. PICK w \in VRegs : queue[w].times # 0
    BY DEF Idle
  <2>2. queue[w].times \in Nat
    BY <1>1
  <2> QED
    BY <2>1, <2>2
<1>4. IsFiniteSet(W) /\ W \subseteq VRegs
  BY RegsAre, FS_Subset
<1>5. IsFiniteSet(E)
  <2> DEFINE f == [w \in W |-> entry(w)]
  <2>1. f \in Surjection(W, E)
    <3> HIDE DEF W, entry
    <3> QED
      BY DEF Surjection
  <2> HIDE DEF f, W, E
  <2> QED
    BY <1>4, <2>1, FS_Surjection
<1>6. E \in SUBSET [prio: Nat, reg: VRegs] /\ E # {} /\ \A x \in E : x.reg \in W
  <2> HIDE DEF W, entry
  <2> QED
    BY <1>2, <1>3
<1>7. Entries(queue) = E
  BY DEF Entries
<1>8. First(E) \in E
  <2> HIDE DEF E
  <2> QED
    BY <1>5, <1>6, FirstIs, Zenon
<1>9. First(E).reg \in W
  <2> HIDE DEF E, W
  <2> QED
    BY <1>6, <1>8
<1> HIDE DEF E
<1> QED
  BY <1>7, <1>9

(* What a turn of the loop does, and promises.                             *)
Turned(v, got) ==
  /\ v \in VRegs /\ queue[v].times > 0 /\ Answered(Session(alloc), v, got)
  /\ alloc' = Given(got, v)
  /\ queue' = Enqueued([queue EXCEPT ![v].times = @ - 1], alloc', got.s.new)
  /\ failed' = IF got.reg = Fail THEN failed \cup {v} ELSE failed

(* A turn of the loop takes a range that waits and does what               *)
(* `select_or_split` answered.                                             *)
LEMMA AllocateIs ==
  ASSUME IInv, Allocate
  PROVE  \E v : \E got : Turned(v, got)
<1> DEFINE v == First(Entries(queue)).reg
           got == SelectOrSplit(prog.cutoffs.depth)[<<Session(alloc), v>>]
<1>1. v \in VRegs /\ queue[v].times > 0
  BY TakenIs DEF Allocate
<1>2. /\ alloc' = Staged([KeptOf(got.s) EXCEPT
                            !.phys[v] = IF got.reg \in Regs THEN got.reg ELSE @],
                         got.s.new)
      /\ queue' = Enqueued([queue EXCEPT ![v].times = @ - 1], alloc', got.s.new)
      /\ failed' = IF got.reg = Fail THEN failed \cup {v} ELSE failed
  <2> DEFINE Does(w, g) ==
        /\ alloc' = Staged([KeptOf(g.s) EXCEPT
                              !.phys[w] = IF g.reg \in Regs THEN g.reg ELSE @],
                           g.s.new)
        /\ queue' = Enqueued([queue EXCEPT ![w].times = @ - 1], alloc', g.s.new)
        /\ failed' = IF g.reg = Fail THEN failed \cup {w} ELSE failed
  <2>1. \E w \in {v} : \E g \in {SelectOrSplit(prog.cutoffs.depth)[<<Session(alloc), w>>]} : Does(w, g)
    BY DEF Allocate
  <2>2. Does(v, got)
    <3> HIDE DEF Does, v
    <3> QED
      BY <2>1
  <2> QED
    BY <2>2
<1> HIDE DEF v
<1>3. Answered(Session(alloc), v, got)
  <2> DEFINE depth == prog.cutoffs.depth
             f == SelectOrSplit(depth)
             s == Session(alloc)
  <2>1. Asked(s, v) /\ s \in Sessions
    BY <1>1, SessionAsks
  <2>2. Program(prog) /\ depth \in Nat
    BY ProgramIs DEF IInv
  <2>3. Contract(f)
    <3> HIDE DEF depth
    <3> QED
      BY <2>2, SelectOrSplitIs, Zenon
  <2>4. got = f[<<s, v>>]
    OBVIOUS
  <2> HIDE DEF got, f, s
  <2>5. Answered(s, v, got)
    BY <1>1, <2>1, <2>3, <2>4 DEF Contract
  <2> QED
    BY <2>5 DEF s
<1> HIDE DEF got
<1>4. Turned(v, got)
  BY <1>1, <1>2, <1>3, Zenon DEF Turned, Given
<1> QED
  BY <1>4

(* Of each range: whether it waits before and after.                       *)
LEMMA WaitsAre ==
  ASSUME IInv, NEW v, NEW got, Turned(v, got), NEW w \in VRegs
  PROVE  LET s == Session(alloc)
         IN  /\ w # v => got.s.new[w] = IF Lost(s, got.s, w) THEN 1 ELSE 0
             /\ w = v => got.s.new[w] = IF got.reg = None /\ w \in got.s.made THEN 1 ELSE 0
             /\ w # v => (Waits(Given(got, v), failed', w)
                            <=> Waits(alloc, failed, w) \/ Lost(s, got.s, w))
             /\ Waits(alloc, failed, v)
             /\ Waits(Given(got, v), failed', v) <=> got.reg = None /\ v \in got.s.made
             /\ ~(Waits(alloc, failed, w) /\ Lost(s, got.s, w))
<1> DEFINE s == Session(alloc)
           t == got.s
           a == Given(got, v)
<1>1. /\ v \in VRegs /\ queue[v].times > 0 /\ Answered(s, v, got)
      /\ failed' = IF got.reg = Fail THEN failed \cup {v} ELSE failed
  BY Zenon DEF Turned
<1>2. s.phys = alloc.phys /\ s.made = alloc.made /\ s.new = Once({}) /\ s.stage = alloc.stage
  BY DEF Session
<1>3. /\ a.made = t.made
      /\ \A x \in VRegs : a.phys[x] = IF x = v /\ got.reg \in Regs THEN got.reg ELSE t.phys[x]
  BY <1>1, GivenIs
<1> HIDE DEF s, a, t
<1>4. None \notin Regs /\ Fail \notin Regs /\ None # Fail
  BY RegsAre
<1>5. \A x \in VRegs : s.new[x] = 0
  BY <1>2 DEF Once
<1>6. /\ failed \subseteq alloc.made /\ \A x \in failed : alloc.phys[x] = None
      /\ \A x \in VRegs : queue[x].times = IF Waits(alloc, failed, x) THEN 1 ELSE 0
  BY Zenon DEF IInv, Consistent
<1>7. Waits(alloc, failed, v)
  BY <1>1, <1>6
<1>8. /\ Leads({v}, s, t) /\ t.phys[v] = None
      /\ got.reg \in Regs \cup {None, Fail}
      /\ got.reg \in Regs \cup {Fail} => v \in t.made /\ t.new[v] = s.new[v]
      /\ got.reg = None /\ s.new = Once({})
           => t.new[v] = s.new[v] + (IF v \in t.made THEN 1 ELSE 0)
  BY <1>1, Zenon DEF Answered, t
<1>9. t.new[v] = IF got.reg = None /\ v \in t.made THEN 1 ELSE 0
  BY <1>1, <1>2, <1>4, <1>5, <1>8
<1>10. Waits(a, failed', v) <=> got.reg = None /\ v \in t.made
  <2>1. a.phys[v] = IF got.reg \in Regs THEN got.reg ELSE None
    BY <1>1, <1>3, <1>8
  <2>2. v \in failed' <=> got.reg = Fail
    <3>1. v \notin failed
      BY <1>7 DEF Waits
    <3> QED
      BY <1>1, <3>1
  <2>3. CASE got.reg \in Regs
    BY <1>4, <2>1, <2>3 DEF Waits
  <2>4. CASE got.reg = None
    BY <1>3, <1>4, <2>1, <2>2, <2>4 DEF Waits
  <2>5. CASE got.reg = Fail
    BY <1>4, <2>2, <2>5 DEF Waits
  <2> QED
    BY <1>8, <2>3, <2>4, <2>5
<1>11. ~(Waits(alloc, failed, w) /\ Lost(s, t, w))
  BY <1>2, Zenon DEF Waits, Lost
<1>12. ASSUME w # v
       PROVE  /\ t.new[w] = IF Lost(s, t, w) THEN 1 ELSE 0
              /\ Waits(a, failed', w) <=> Waits(alloc, failed, w) \/ Lost(s, t, w)
  <2>1. Leading(s, t, w)
    <3>1. w \in VRegs \ {v}
      BY <1>12
    <3> QED
      BY <1>8, <3>1, Zenon DEF Leads
  <2>2. t.new[w] = IF Lost(s, t, w) THEN 1 ELSE 0
    BY <1>5, <2>1 DEF Leading
  <2>3. a.phys[w] = t.phys[w] /\ (w \in failed' <=> w \in failed)
    BY <1>1, <1>3, <1>12
  <2>4. w \in failed => w \in s.made /\ s.phys[w] = None
    BY <1>2, <1>6
  <2>5. w \in s.made /\ s.phys[w] = None => w \in t.made /\ t.phys[w] = None
    BY <2>1, Zenon DEF Leading
  <2>6. Waits(a, failed', w) <=> w \in t.made /\ w \notin failed /\ t.phys[w] = None
    BY <1>3, <2>3 DEF Waits
  <2>7. Waits(alloc, failed, w) <=> w \in s.made /\ w \notin failed /\ s.phys[w] = None
    BY <1>2 DEF Waits
  <2>8. Waits(a, failed', w) <=> Waits(alloc, failed, w) \/ Lost(s, t, w)
    BY <2>4, <2>5, <2>6, <2>7, Zenon DEF Lost
  <2> QED
    BY <2>2, <2>8
<1> QED
  BY <1>7, <1>9, <1>10, <1>11, <1>12 DEF s, a, t

(* After it every range without a register is queued once, or failed.      *)
LEMMA TurnedConsistent ==
  ASSUME IInv, NEW v, NEW got, Turned(v, got)
  PROVE  Consistent(alloc', queue', failed')
<1> DEFINE s == Session(alloc)
           t == got.s
           q == [queue EXCEPT ![v].times = @ - 1]
<1>1. /\ v \in VRegs /\ queue[v].times > 0 /\ Answered(s, v, got)
      /\ alloc' = Given(got, v)
      /\ queue' = Enqueued(q, alloc', t.new)
      /\ failed' = IF got.reg = Fail THEN failed \cup {v} ELSE failed
  BY Zenon DEF Turned
<1>2. /\ alloc' \in Allocs /\ Sound(alloc') /\ Fresh(alloc') /\ Counted(alloc')
      /\ alloc'.made = t.made
      /\ \A w \in VRegs : alloc'.phys[w] =
           IF w = v /\ got.reg \in Regs THEN got.reg ELSE t.phys[w]
  <2> DEFINE a == Given(got, v)
  <2>1. a \in Allocs /\ Sound(a) /\ Fresh(a) /\ Counted(a)
    <3>1. Answered(s, v, got) /\ v \in VRegs
      BY <1>1
    <3> HIDE DEF s
    <3> QED
      BY <3>1, GivenIs, Zenon
  <2>3. /\ a.made = t.made
        /\ \A w \in VRegs : a.phys[w] =
             IF w = v /\ got.reg \in Regs THEN got.reg ELSE t.phys[w]
    BY <1>1, GivenIs
  <2>2. alloc' = a
    BY <1>1
  <2> HIDE DEF a, t, s, q
  <2> QED
    BY <2>1, <2>2, <2>3
<1>3. /\ Program(prog) /\ queue \in [VRegs -> [times: Nat, prio: Nat]]
      /\ \A w \in VRegs : queue[w].times = IF Waits(alloc, failed, w) THEN 1 ELSE 0
      /\ failed \subseteq alloc.made /\ \A w \in failed : alloc.phys[w] = None
  BY Zenon DEF IInv, Consistent
<1>4. /\ q \in [VRegs -> [times: Nat, prio: Nat]]
      /\ \A w \in VRegs : q[w].times = IF w = v THEN queue[w].times - 1 ELSE queue[w].times
  <2>1. queue[v].times - 1 \in Nat /\ queue[v] \in [times: Nat, prio: Nat]
    BY <1>1, <1>3
  <2>2. [queue[v] EXCEPT !.times = @ - 1] \in [times: Nat, prio: Nat]
        /\ [queue[v] EXCEPT !.times = @ - 1].times = queue[v].times - 1
    BY <2>1
  <2>3. q = [queue EXCEPT ![v] = [queue[v] EXCEPT !.times = @ - 1]]
    BY <1>1, <1>3
  <2> DEFINE one == [queue[v] EXCEPT !.times = @ - 1]
  <2> HIDE DEF q, one
  <2> QED
    BY <1>1, <1>3, <2>2, <2>3 DEF one
<1>5. /\ Waits(alloc, failed, v)
      /\ Waits(alloc', failed', v) <=> got.reg = None /\ v \in t.made
      /\ t.new[v] = IF got.reg = None /\ v \in t.made THEN 1 ELSE 0
      /\ \A w \in VRegs \ {v} :
           /\ t.new[w] = IF Lost(s, t, w) THEN 1 ELSE 0
           /\ Waits(alloc', failed', w) <=> Waits(alloc, failed, w) \/ Lost(s, t, w)
           /\ ~(Waits(alloc, failed, w) /\ Lost(s, t, w))
  <2>1. /\ Waits(alloc, failed, v)
        /\ Waits(Given(got, v), failed', v) <=> got.reg = None /\ v \in t.made
        /\ t.new[v] = IF got.reg = None /\ v \in t.made THEN 1 ELSE 0
    BY <1>1, WaitsAre
  <2>2. ASSUME NEW w \in VRegs \ {v}
        PROVE  /\ t.new[w] = IF Lost(s, t, w) THEN 1 ELSE 0
               /\ Waits(Given(got, v), failed', w) <=> Waits(alloc, failed, w) \/ Lost(s, t, w)
               /\ ~(Waits(alloc, failed, w) /\ Lost(s, t, w))
    BY <1>1, WaitsAre
  <2> HIDE DEF s, t, q
  <2> QED
    BY <1>1, <2>1, <2>2
<1>6. t.new \in [VRegs -> Nat]
  BY <1>1, SessionIs DEF Answered, Good
<1>7. \A w \in VRegs : t.new[w] > 0 => prog.live[w] # {}
  <2>1. Fresh(t)
    BY <1>1 DEF Answered, Good
  <2>2. \A w \in VRegs : t.new[w] > 0 => w \in t.made
    <3> HIDE DEF s, t, q
    <3>1. \A w \in VRegs \ {v} : Lost(s, t, w) => w \in t.made
      BY DEF Lost
    <3> QED
      BY <1>5, <1>6, <3>1
  <2> QED
    BY <2>1, <2>2, Zenon DEF Fresh
<1>8. /\ queue' \in [VRegs -> [times: Nat, prio: Nat]]
      /\ \A w \in VRegs : queue'[w].times = q[w].times + t.new[w]
  <2> DEFINE new == t.new
             e == Enqueued(q, alloc', new)
  <2>1. queue' = e
    BY <1>1
  <2>2. /\ Program(prog) /\ q \in [VRegs -> [times: Nat, prio: Nat]]
        /\ new \in [VRegs -> Nat] /\ \A w \in VRegs : new[w] > 0 => prog.live[w] # {}
    BY <1>3, <1>4, <1>6, <1>7
  <2> HIDE DEF q, t, new, s
  <2>3. /\ e \in [VRegs -> [times: Nat, prio: Nat]]
        /\ \A w \in VRegs : e[w].times = q[w].times + new[w]
    BY <2>2, EnqueuedIs
  <2> QED
    BY <2>1, <2>3 DEF new
<1>9. ASSUME NEW w \in VRegs
      PROVE  queue'[w].times = IF Waits(alloc', failed', w) THEN 1 ELSE 0
  <2> HIDE DEF s, t, q
  <2>1. queue'[w].times = q[w].times + t.new[w] /\ t.new[w] \in Nat
    BY <1>6, <1>8
  <2>2. CASE w = v
    <3>1. q[w].times = 0
      BY <1>1, <1>3, <1>4, <1>5, <2>2
    <3> QED
      BY <1>5, <2>1, <2>2, <3>1
  <2>3. CASE w # v
    <3>1. q[w].times = IF Waits(alloc, failed, w) THEN 1 ELSE 0
      BY <1>3, <1>4, <2>3
    <3> QED
      BY <1>5, <2>1, <2>3, <3>1
  <2> QED
    BY <2>2, <2>3
<1>10. failed' \subseteq alloc'.made /\ \A w \in failed' : alloc'.phys[w] = None
  <2>1. /\ Leads({v}, s, t) /\ t.phys[v] = None
        /\ got.reg \in Regs \cup {Fail} => v \in t.made
    BY <1>1, Zenon DEF Answered
  <2>2. s.phys = alloc.phys /\ s.made = alloc.made
    BY DEF Session
  <2>3. alloc.made \subseteq VRegs
    BY AllocIs DEF IInv, Consistent
  <2> HIDE DEF s, t, q
  <2>4. Fail \notin Regs
    BY RegsAre
  <2>5. ASSUME NEW w \in failed PROVE w \in t.made /\ alloc'.phys[w] = None
    <3>1. w \in VRegs \ {v} /\ s.phys[w] = None /\ w \in s.made
      BY <1>3, <1>5, <2>2, <2>3 DEF Waits
    <3>2. Leading(s, t, w)
      BY <2>1, <3>1, Zenon DEF Leads
    <3>3. w \in t.made /\ t.phys[w] = None
      BY <3>1, <3>2, Zenon DEF Leading
    <3> QED
      BY <1>2, <3>1, <3>3
  <2>6. got.reg = Fail => v \in t.made /\ alloc'.phys[v] = None
    BY <1>1, <1>2, <2>1, <2>4
  <2> QED
    BY <1>1, <1>2, <2>5, <2>6
<1> HIDE DEF s, t, q
<1> QED
  BY <1>2, <1>8, <1>9, <1>10, Zenon DEF Consistent

(* A turn of hint recoloring.                                              *)
LEMMA RecolorHintIs ==
  ASSUME IInv, RecolorHint
  PROVE  /\ alloc' \in Allocs /\ Sound(alloc')
         /\ alloc'.stage = alloc.stage /\ alloc'.made = alloc.made
         /\ alloc'.cascade = alloc.cascade /\ alloc'.nextCascade = alloc.nextCascade
         /\ \A w \in VRegs : alloc'.phys[w] = None <=> alloc.phys[w] = None
         /\ BrokenCost(alloc') <= BrokenCost(alloc)
<1> DEFINE v == Head(alloc.broken)
           tail == Tail(alloc.broken)
           rest == [alloc EXCEPT !.broken = tail]
<1>1. /\ alloc.broken # <<>>
      /\ alloc' = IF alloc.phys[v] = None THEN rest ELSE HintRecolored(rest, v)
  BY DEF RecolorHint
<1>2. Program(prog) /\ alloc \in Allocs /\ Sound(alloc)
  BY Zenon DEF IInv, Consistent
<1>3. v \in VRegs /\ tail \in Seq(VRegs)
  <2> DEFINE broken == alloc.broken
  <2>1. broken \in Seq(VRegs) /\ broken # <<>>
    BY <1>1, <1>2, AllocIs
  <2> HIDE DEF broken
  <2>2. Head(broken) \in VRegs /\ Tail(broken) \in Seq(VRegs)
    BY <2>1
  <2> QED
    BY <2>2 DEF broken
<1> HIDE DEF v, tail
<1>4. rest \in Allocs
  BY <1>2, <1>3 DEF Allocs
<1>5. /\ rest.phys = alloc.phys /\ rest.stage = alloc.stage /\ rest.made = alloc.made
      /\ rest.cascade = alloc.cascade /\ rest.nextCascade = alloc.nextCascade
  BY <1>2 DEF Allocs
<1> HIDE DEF rest
<1>6. Sound(rest)
  BY <1>2, <1>5 DEF Sound, Apart
<1>a. BrokenCost(rest) = BrokenCost(alloc)
  <2>1. \A x : HeldBy(rest, x) = HeldBy(alloc, x)
    BY <1>5 DEF HeldBy
  <2>2. \A copy : Broken(rest, copy) <=> Broken(alloc, copy)
    BY <2>1, Zenon DEF Broken
  <2>3. {n \in DOMAIN prog.copies : Broken(rest, prog.copies[n])}
          = {n \in DOMAIN prog.copies : Broken(alloc, prog.copies[n])}
    BY <2>2
  <2> QED
    BY <2>3 DEF BrokenCost
<1>b. BrokenCost(alloc) \in Nat
  BY <1>2, CostIs
<1>7. CASE alloc.phys[v] = None
  BY <1>1, <1>4, <1>5, <1>6, <1>7, <1>a, <1>b
<1>8. CASE alloc.phys[v] # None
  <2>1. /\ Moved(rest, HintRecolored(rest, v))
        /\ BrokenCost(HintRecolored(rest, v)) <= BrokenCost(rest)
    BY <1>2, <1>3, <1>4, <1>5, <1>6, <1>8, HintRecoloredIs
  <2>2. Moved(rest, alloc') /\ BrokenCost(alloc') <= BrokenCost(rest)
    BY <1>1, <1>8, <2>1
  <2> QED
    BY <1>5, <1>a, <2>2 DEF Moved
<1> QED
  BY <1>7, <1>8

(* After hint recoloring it is as before: nobody lost a register.          *)
LEMMA HintConsistent ==
  ASSUME IInv, RecolorHint
  PROVE  Consistent(alloc', queue', failed')
<1>1. /\ alloc' \in Allocs /\ Sound(alloc')
      /\ alloc'.stage = alloc.stage /\ alloc'.made = alloc.made
      /\ alloc'.cascade = alloc.cascade /\ alloc'.nextCascade = alloc.nextCascade
      /\ \A w \in VRegs : alloc'.phys[w] = None <=> alloc.phys[w] = None
  BY RecolorHintIs
<1>2. queue' = queue /\ failed' = failed
  BY DEF RecolorHint
<1>3. Consistent(alloc, queue, failed) /\ alloc.made \subseteq VRegs
  BY AllocIs DEF IInv, Consistent
<1>4. Fresh(alloc') /\ Counted(alloc')
  BY <1>1, <1>3 DEF Consistent, Fresh, Counted
<1>5. \A w \in VRegs : Waits(alloc', failed', w) <=> Waits(alloc, failed, w)
  BY <1>1, <1>2 DEF Waits
<1>6. \A w \in VRegs : queue'[w].times = IF Waits(alloc', failed', w) THEN 1 ELSE 0
  BY <1>2, <1>3, <1>5 DEF Consistent
<1>7. failed' \subseteq alloc'.made /\ \A w \in failed' : alloc'.phys[w] = None
  BY <1>1, <1>2, <1>3 DEF Consistent
<1> QED
  BY <1>1, <1>2, <1>3, <1>4, <1>6, <1>7, Zenon DEF Consistent

(* At first all ranges are queued, none with a register.                   *)
LEMMA InitConsistent ==
  ASSUME Init
  PROVE  IInv
<1> DEFINE V == prog.values
           zero == [v \in VRegs |-> [times |-> 0, prio |-> 0]]
           new == Once(V)
           start == [phys |-> [v \in VRegs |-> None], stage |-> [v \in VRegs |-> New],
                     cascade |-> [v \in VRegs |-> 0], nextCascade |-> 1,
                     made |-> V, broken |-> <<>>]
           stage == [v \in VRegs |-> IF new[v] > 0 /\ start.stage[v] = New
                                     THEN Assign ELSE start.stage[v]]
<1>1. Program(prog)
  BY ProgramsAssumption DEF Init
<1>2. alloc = Staged(start, new) /\ queue = Enqueued(zero, alloc, new) /\ failed = {}
  BY DEF Init
<1>3. alloc = [phys |-> [v \in VRegs |-> None], stage |-> stage,
               cascade |-> [v \in VRegs |-> 0], nextCascade |-> 1,
               made |-> V, broken |-> <<>>]
  <2>1. Staged(start, new) = [start EXCEPT !.stage = stage]
    BY DEF Staged
  <2> HIDE DEF stage, new
  <2> QED
    BY <1>2, <2>1
<1>4. V \subseteq VRegs /\ \A v \in VRegs : new[v] = IF v \in V THEN 1 ELSE 0
  BY <1>1, ProgramIs DEF Once
<1>5. alloc \in Allocs
  <2>1. stage \in [VRegs -> Stages]
    BY DEF Stages
  <2>2. V \in SUBSET VRegs /\ <<>> \in Seq(VRegs)
    BY <1>4
  <2>3. [v \in VRegs |-> None] \in [VRegs -> Regs \cup {None}]
        /\ [v \in VRegs |-> 0] \in [VRegs -> Nat]
    OBVIOUS
  <2> HIDE DEF stage, V
  <2> QED
    BY <1>3, <2>1, <2>2, <2>3 DEF Allocs
<1>6. /\ alloc.made = V /\ alloc.nextCascade = 1
      /\ \A v \in VRegs : alloc.phys[v] = None /\ alloc.cascade[v] = 0
  <2> HIDE DEF stage, V
  <2> QED
    BY <1>3
<1>7. \A v \in V : prog.live[v] # {} /\ prog.products[v] \cap V = {}
  BY <1>1, <1>4, ProductsAre
<1> HIDE DEF V
<1>8. Sound(alloc) /\ Fresh(alloc) /\ Counted(alloc)
  BY <1>6, <1>7 DEF Sound, Fresh, Counted
<1>9. /\ zero \in [VRegs -> [times: Nat, prio: Nat]]
      /\ \A v \in VRegs : zero[v].times = 0
  OBVIOUS
<1>10. new \in [VRegs -> Nat] /\ \A v \in VRegs : new[v] > 0 => prog.live[v] # {}
  <2>1. new \in [VRegs -> Nat]
    BY DEF Once
  <2> HIDE DEF new
  <2> QED
    BY <1>4, <1>7, <2>1
<1> HIDE DEF zero, new
<1>11. /\ queue \in [VRegs -> [times: Nat, prio: Nat]]
       /\ \A v \in VRegs : queue[v].times = zero[v].times + new[v]
  BY <1>1, <1>2, <1>9, <1>10, EnqueuedIs
<1>12. \A v \in VRegs : queue[v].times = IF Waits(alloc, failed, v) THEN 1 ELSE 0
  <2>1. ASSUME NEW v \in VRegs PROVE queue[v].times = IF v \in V THEN 1 ELSE 0
    <3>1. queue[v].times = zero[v].times + new[v]
      BY <1>11
    <3>2. zero[v].times = 0 /\ new[v] = IF v \in V THEN 1 ELSE 0
      BY <1>4, <1>9
    <3> QED
      BY <3>1, <3>2
  <2>2. \A v \in VRegs : Waits(alloc, failed, v) <=> v \in V
    BY <1>2, <1>6 DEF Waits
  <2> HIDE DEF stage, start
  <2> QED
    BY <2>1, <2>2
<1>13. Consistent(alloc, queue, failed)
  BY <1>2, <1>5, <1>8, <1>11, <1>12 DEF Consistent
<1> QED
  BY <1>1, <1>13 DEF IInv

(* It is kept by every step.                                               *)
LEMMA StepConsistent ==
  ASSUME IInv, [Next]_vars
  PROVE  IInv'
<1>1. prog' = prog /\ Consistent(alloc', queue', failed')
  <2>1. CASE Allocate
    <3>1. PICK v, got : Turned(v, got)
      BY <2>1, AllocateIs
    <3>2. prog' = prog
      BY <2>1 DEF Allocate
    <3> QED
      BY <3>1, <3>2, TurnedConsistent
  <2>2. CASE RecolorHint
    <3>1. prog' = prog
      BY <2>2 DEF RecolorHint
    <3> QED
      BY <2>2, <3>1, HintConsistent
  <2>3. CASE UNCHANGED vars
    <3>1. prog' = prog /\ alloc' = alloc /\ queue' = queue /\ failed' = failed
      BY <2>3 DEF vars
    <3> QED
      BY <3>1 DEF IInv
  <2> QED
    BY <2>1, <2>2, <2>3 DEF Next
<1>2. Program(prog')
  BY <1>1 DEF IInv
<1>3. /\ alloc' \in Allocs /\ Counted(alloc') /\ Sound(alloc') /\ Fresh(alloc')
      /\ queue' \in [VRegs -> [times: Nat, prio: Nat]]
      /\ \A v \in VRegs : queue'[v].times = IF Waits(alloc', failed', v) THEN 1 ELSE 0
      /\ failed' \subseteq alloc'.made /\ \A v \in failed' : alloc'.phys[v] = None
  BY <1>1, Zenon DEF Consistent
<1>4. Sound(alloc)' /\ Fresh(alloc)'
  BY <1>1, <1>3 DEF Sound, Fresh, Apart, Meets
<1> QED
  BY <1>1, <1>2, <1>3, <1>4 DEF IInv, Consistent, Waits, Counted

(* The invariant: what the allocator holds is sound, and each range with-  *)
(* out a register is queued once, or failed.                               *)
THEOREM Invariant == Spec => []IInv
<1>1. Init => IInv
  BY InitConsistent
<1>2. IInv /\ [Next]_vars => IInv'
  BY StepConsistent
<1> QED
  BY <1>1, <1>2, PTL DEF Spec

(* What the allocator holds is well formed.                                *)
THEOREM TypesAreRight == Spec => []TypeOK
<1>1. IInv => TypeOK
  <2> SUFFICES ASSUME IInv PROVE TypeOK
    OBVIOUS
  <2>1. /\ alloc \in Allocs /\ Counted(alloc) /\ failed \subseteq alloc.made
        /\ queue \in [VRegs -> [times: Nat, prio: Nat]]
    BY Zenon DEF IInv, Consistent
  <2>2. alloc.cascade \in [VRegs -> 0 .. alloc.nextCascade - 1]
    <3>1. alloc.cascade \in [VRegs -> Nat] /\ alloc.nextCascade \in Nat
      BY <2>1, AllocIs
    <3>2. \A v \in VRegs : alloc.cascade[v] \in 0 .. alloc.nextCascade - 1
      BY <2>1, <3>1 DEF Counted
    <3> QED
      BY <3>1, <3>2
  <2> QED
    BY <2>1, <2>2, AllocIs DEF TypeOK
<1> QED
  BY <1>1, Invariant, PTL

(* No two ranges live together have a byte of a register in common, and    *)
(* none has a register a call destroys under it.                           *)
THEOREM RegistersAreApart == Spec => []NoClash
<1>1. IInv => NoClash
  <2> SUFFICES ASSUME IInv, NEW v \in alloc.made, alloc.phys[v] # None
               PROVE  /\ alloc.phys[v] \notin prog.blocked[v]
                      /\ Contains(prog.order[v], alloc.phys[v])
                      /\ HoldersOf(alloc, v, alloc.phys[v]) = {v}
    BY Zenon DEF NoClash
  <2> DEFINE r == alloc.phys[v]
  <2>1. alloc \in Allocs /\ Sound(alloc) /\ Fresh(alloc) /\ Program(prog)
    BY Zenon DEF IInv, Consistent
  <2>2. v \in VRegs /\ alloc.made \subseteq VRegs /\ r \in Regs
    BY <2>1, AllocIs
  <2>3. /\ r \notin prog.blocked[v] /\ r \in ToSet(prog.order[v])
        /\ \A x \in VRegs \ {v} : Apart(alloc, v, x)
    BY <2>1, <2>2 DEF Sound
  <2>4. Contains(prog.order[v], r)
    <3>1. prog.order[v] \in Seq(Regs)
      BY <2>1, <2>2, ProgramIs
    <3> HIDE DEF r
    <3> QED
      BY <2>3, <3>1 DEF Contains, ToSet
  <2>5. InTheWay(alloc, v, r, v)
    <3>1. prog.live[v] # {} /\ UnitsOf[r] # {}
      BY <2>1, <2>2, RegsAre DEF Fresh
    <3> QED
      BY <2>2, <3>1 DEF InTheWay, Meets
  <2>6. \A x \in alloc.made \ {v} : ~InTheWay(alloc, v, r, x)
    <3>1. \A x \in alloc.made \ {v} : Apart(alloc, v, x)
      BY <2>2, <2>3
    <3> QED
      BY <3>1, Zenon DEF InTheWay, Apart
  <2>7. \A x : x \in HoldersOf(alloc, v, r) <=> InTheWay(alloc, v, r, x)
    BY HoldersAre, Zenon
  <2>8. HoldersOf(alloc, v, r) = {v}
    <3>1. \A x : InTheWay(alloc, v, r, x) => x \in alloc.made
      BY Zenon DEF InTheWay
    <3> HIDE DEF r
    <3> QED
      BY <2>5, <2>6, <2>7, <3>1
  <2> QED
    BY <2>3, <2>4, <2>8
<1> QED
  BY <1>1, Invariant, PTL

(* Every range that is left has a register, or is queued, once, or is why  *)
(* the allocation is refused.                                              *)
THEOREM NoRangeIsLost == Spec => []NoneLost
<1>1. IInv => NoneLost
  BY DEF IInv, Consistent, NoneLost, Waits
<1> QED
  BY <1>1, Invariant, PTL

(* What a spill made is never left without the register it has.            *)
THEOREM SpillProductsKeepRegisters == Spec => DoneIsKept
<1>1. ASSUME IInv, [Next]_vars, NEW w \in VRegs, alloc.stage[w] = Done, alloc.phys[w] # None
      PROVE  alloc'.phys[w] # None
  <2>1. CASE Allocate
    <3>1. PICK v, got : Turned(v, got)
      BY <1>1, <2>1, AllocateIs
    <3> DEFINE s == Session(alloc)
               t == got.s
    <3>2. /\ v \in VRegs /\ queue[v].times > 0 /\ Answered(s, v, got)
          /\ alloc' = Given(got, v)
      BY <3>1, Zenon DEF Turned
    <3>3. s.phys = alloc.phys /\ s.made = alloc.made /\ s.stage = alloc.stage
      BY DEF Session
    <3>4. w \in VRegs \ {v} /\ w \in alloc.made
      <4>1. Asked(s, v)
        BY <1>1, <3>2, SessionAsks
      <4> HIDE DEF s
      <4> QED
        BY <1>1, <3>3, <4>1 DEF Asked, Good, Sound
    <3>5. alloc'.phys[w] = t.phys[w]
      BY <3>2, <3>4, GivenIs
    <3>6. Leading(s, t, w)
      BY <3>2, <3>4, Zenon DEF Answered, Leads
    <3> HIDE DEF s, t
    <3> QED
      BY <1>1, <3>3, <3>4, <3>5, <3>6 DEF Leading
  <2>2. CASE RecolorHint
    BY <1>1, <2>2, RecolorHintIs
  <2>3. CASE UNCHANGED vars
    BY <1>1, <2>3 DEF vars
  <2> QED
    BY <1>1, <2>1, <2>2, <2>3 DEF Next
<1>2. IInv /\ [Next]_vars
        => [\A v \in VRegs : alloc.stage[v] = Done /\ alloc.phys[v] # None
                               => alloc'.phys[v] # None]_vars
  BY <1>1
<1> QED
  BY <1>2, Invariant, PTL DEF Spec, DoneIsKept

(* A range that finds no register leaves the others where they were.       *)
THEOREM FailuresAreTakenBack == Spec => FailureRestores
<1>1. ASSUME IInv, [Next]_vars, failed' # failed, NEW w \in VRegs
      PROVE  alloc'.phys[w] \in {alloc.phys[w], None}
  <2>1. CASE Allocate
    <3>1. PICK v, got : Turned(v, got)
      BY <1>1, <2>1, AllocateIs
    <3> DEFINE s == Session(alloc)
               t == got.s
    <3>2. /\ v \in VRegs /\ Answered(s, v, got) /\ alloc' = Given(got, v)
          /\ failed' = IF got.reg = Fail THEN failed \cup {v} ELSE failed
      BY <3>1, Zenon DEF Turned
    <3>3. s.phys = alloc.phys /\ s.undo = {}
      BY DEF Session
    <3>4. got.reg = Fail /\ got.reg \notin Regs
      BY <1>1, <3>2, RegsAre
    <3>5. alloc'.phys[w] = t.phys[w]
      BY <3>2, <3>4, GivenIs
    <3>6. /\ Leads({v}, s, t) /\ t.phys[v] = None /\ t.undo = s.undo
      BY <3>2, <3>4, Zenon DEF Answered
    <3> HIDE DEF s, t
    <3>7. ~Undone(s, t, w)
      BY <3>3, <3>6 DEF Undone
    <3>8. w # v => Leading(s, t, w)
      BY <3>6 DEF Leads
    <3> QED
      BY <3>3, <3>5, <3>6, <3>7, <3>8 DEF Leading
  <2>2. CASE RecolorHint
    BY <1>1, <2>2 DEF RecolorHint
  <2>3. CASE UNCHANGED vars
    BY <1>1, <2>3 DEF vars
  <2> QED
    BY <1>1, <2>1, <2>2, <2>3 DEF Next
<1>2. IInv /\ [Next]_vars
        => [failed' # failed
              => \A v \in VRegs : alloc'.phys[v] \in {alloc.phys[v], None}]_vars
  BY <1>1
<1> QED
  BY <1>2, Invariant, PTL DEF Spec, FailureRestores

(* Repairing the hint of one range breaks no more copies, by how often     *)
(* they are executed, than were broken.                                    *)
THEOREM HintsAreRepaired == Spec => HintsAreNotWorsened
<1>1. IInv /\ [Next]_vars
        => [RecolorHint => BrokenCost(alloc') <= BrokenCost(alloc)]_vars
  BY RecolorHintIs
<1> QED
  BY <1>1, Invariant, PTL DEF Spec, HintsAreNotWorsened

=============================================================================
