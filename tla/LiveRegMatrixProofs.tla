-------------------------- MODULE LiveRegMatrixProofs --------------------------
(***************************************************************************)
(* What LiveRegMatrix promises for any registers, units and ranges.        *)
(***************************************************************************)
EXTENDS LiveRegMatrix, FiniteSetTheorems, WellFoundedInduction, TLAPS

(* Every nonempty set of naturals has a least element.                     *)
LEMMA LeastOf ==
  ASSUME NEW S \in SUBSET Nat, S # {}
  PROVE  \E x \in S : \A y \in S : x <= y
<1>1. PICK x \in S : \A y \in S : ~(<<y, x>> \in OpToRel(<, Nat))
  BY NatLessThanWellFounded, WFMin, Zenon
<1>2. ASSUME NEW y \in S PROVE x <= y
  <2>1. <<y, x>> \in Nat \X Nat /\ <<y, x>>[1] = y /\ <<y, x>>[2] = x
    OBVIOUS
  <2>2. y < x => <<y, x>> \in OpToRel(<, Nat)
    BY <2>1 DEF OpToRel
  <2>3. ~(y < x)
    BY <1>1, <2>2, Zenon
  <2>4. x \in Nat /\ y \in Nat
    OBVIOUS
  <2> QED
    BY <2>3, <2>4, SMT
<1> QED
  BY <1>2

(* Each turn of a loop leads from what is good to what is good after it,   *)
(* and f is what it comes to after each.                                   *)
Keeps(step, n, good) == \A i \in 1 .. n : \A x \in good[i - 1] : step[i][x] \in good[i]
Runs(f, base, step, n, good) ==
  /\ f = [i \in 0 .. n |-> f[i]] /\ f[0] = base
  /\ \A i \in 1 .. n : f[i] = step[i][f[i - 1]]
  /\ \A i \in 0 .. n : f[i] \in good[i]

(* A loop whose turns keep to what is good after each of them runs, and    *)
(* what it comes to is good.                                               *)
LEMMA LoopRuns ==
  ASSUME NEW N \in Nat, NEW good, NEW base \in good[0], NEW step, Keeps(step, N, good)
  PROVE  \E f : Runs(f, base, step, N, good)
<1> USE DEF Keeps, Runs
<1> DEFINE V == UNION {good[i] : i \in 0 .. N}
           Run(n) == {f \in [0 .. n -> V] : /\ f[0] = base
                                            /\ \A i \in 0 .. n : f[i] \in good[i]
                                            /\ \A i \in 1 .. n : f[i] = step[i][f[i - 1]]}
           Bad == {n \in 0 .. N : Run(n) = {}}
<1>1. Bad = {}
  <2> SUFFICES ASSUME Bad # {} PROVE FALSE
    OBVIOUS
  <2>0. Bad \in SUBSET Nat
    OBVIOUS
  <2>1. PICK n \in Bad : \A m \in Bad : n <= m
    <3> HIDE DEF Bad
    <3> QED
      BY <2>0, LeastOf, Zenon
  <2>2. n \in 0 .. N /\ Run(n) = {}
    OBVIOUS
  <2>3. n # 0
    <3> DEFINE g == [i \in 0 .. 0 |-> base]
    <3>1. g \in [0 .. 0 -> V] /\ g[0] = base /\ \A i \in 0 .. 0 : g[i] \in good[i]
      OBVIOUS
    <3>2. g \in Run(0)
      <4> HIDE DEF g, V
      <4> QED
        BY <3>1
    <3> QED
      BY <2>2, <3>2
  <2>4. n - 1 \in 0 .. N /\ n \in 1 .. N
    BY <2>2, <2>3
  <2>5. n - 1 \notin Bad
    <3>1. ~(n <= n - 1)
      BY <2>2
    <3> QED
      BY <2>1, <3>1
  <2>6. PICK f : f \in Run(n - 1)
    BY <2>4, <2>5
  <2> DEFINE g == [i \in 0 .. n |-> IF i = n THEN step[n][f[n - 1]] ELSE f[i]]
  <2>7. f \in [0 .. n - 1 -> V] /\ f[0] = base /\ (\A i \in 0 .. n - 1 : f[i] \in good[i])
          /\ \A i \in 1 .. n - 1 : f[i] = step[i][f[i - 1]]
    BY <2>6
  <2>8. step[n][f[n - 1]] \in good[n]
    BY <2>4, <2>7
  <2>9. \A i \in 0 .. n : g[i] \in good[i]
    <3> HIDE DEF V
    <3> QED
      BY <2>4, <2>7, <2>8
  <2>10. g \in [0 .. n -> V]
    <3>1. \A i \in 0 .. n : g[i] \in V
      <4> HIDE DEF g
      <4> QED
        BY <2>2, <2>9
    <3> HIDE DEF V
    <3> QED
      BY <3>1
  <2>11. g[0] = base
    BY <2>4, <2>7
  <2>12. ASSUME NEW i \in 1 .. n PROVE g[i] = step[i][g[i - 1]]
    BY <2>4, <2>7
  <2>13. g \in Run(n)
    <3> HIDE DEF g, V
    <3> QED
      BY <2>9, <2>10, <2>11, <2>12
  <2> QED
    BY <2>2, <2>13
<1>2. PICK f \in [0 .. N -> V] : /\ f[0] = base
                                 /\ \A i \in 0 .. N : f[i] \in good[i]
                                 /\ \A i \in 1 .. N : f[i] = step[i][f[i - 1]]
  <2>1. N \in 0 .. N
    OBVIOUS
  <2>2. Run(N) # {}
    BY <1>1, <2>1
  <2> QED
    BY <2>2
<1> HIDE DEF V
<1> QED
  BY <1>2

(* What goes from good to good with each turn stays good.                  *)
LEMMA LoopStays ==
  ASSUME NEW N \in Nat, NEW good, NEW f, f[0] \in good[0],
         \A i \in 1 .. N : f[i - 1] \in good[i - 1] => f[i] \in good[i]
  PROVE  \A i \in 0 .. N : f[i] \in good[i]
<1> DEFINE Bad == {i \in 0 .. N : f[i] \notin good[i]}
<1> SUFFICES ASSUME Bad # {} PROVE FALSE
  OBVIOUS
<1>1. Bad \in SUBSET Nat
  OBVIOUS
<1>2. PICK n \in Bad : \A m \in Bad : n <= m
  <2> HIDE DEF Bad
  <2> QED
    BY <1>1, LeastOf, Zenon
<1>3. n \in 0 .. N /\ f[n] \notin good[n] /\ n # 0
  OBVIOUS
<1>4. n - 1 \in 0 .. N /\ n \in 1 .. N /\ ~(n <= n - 1)
  BY <1>3
<1>5. n - 1 \notin Bad
  BY <1>2, <1>4
<1> QED
  BY <1>3, <1>4, <1>5

(* What `insert_run` comes to.                                             *)
LEMMA UnifiedRuns ==
  ASSUME NEW entries, NEW v, NEW range, Len(range) \in Nat,
         NEW good, entries \in good[0],
         \A i \in 1 .. Len(range) : \A x \in good[i - 1] :
           Insert(x, range[i], v) \in good[i]
  PROVE  Unified(entries, v, range) \in good[Len(range)]
<1> DEFINE N == Len(range)
           base == entries
           Turn(i, x) == Insert(x, range[i], v)
           step == [i \in 1 .. N |-> [x \in good[i - 1] |-> Turn(i, x)]]
           IsRun(f) == f = [i \in 0 .. N |-> IF i = 0 THEN base ELSE Turn(i, f[i - 1])]
           run == CHOOSE f : IsRun(f)
<1>1. N \in Nat /\ N \in 0 .. N /\ base \in good[0]
  OBVIOUS
<1>2. \A i \in 1 .. N : \A x \in good[i - 1] : step[i][x] = Turn(i, x) /\ Turn(i, x) \in good[i]
  <2> HIDE DEF base
  <2> QED
    OBVIOUS
<1>3. IsRun(run)
  <2> HIDE DEF N, base, Turn, step
  <2>1. Keeps(step, N, good)
    BY <1>2 DEF Keeps
  <2>2. PICK f : Runs(f, base, step, N, good)
    BY <1>1, <2>1, LoopRuns, Zenon
  <2>3. /\ f = [i \in 0 .. N |-> f[i]] /\ f[0] = base
        /\ \A i \in 1 .. N : f[i] = step[i][f[i - 1]]
        /\ \A i \in 0 .. N : f[i] \in good[i]
    BY <2>2, Zenon DEF Runs
  <2>4. ASSUME NEW i \in 0 .. N
        PROVE  f[i] = IF i = 0 THEN base ELSE Turn(i, f[i - 1])
    <3>1. i # 0 => i \in 1 .. N /\ i - 1 \in 0 .. N
      BY <1>1
    <3>2. i # 0 => f[i - 1] \in good[i - 1]
      BY <2>3, <3>1
    <3>3. i # 0 => step[i][f[i - 1]] = Turn(i, f[i - 1])
      BY <1>2, <3>1, <3>2
    <3> QED
      BY <2>3, <3>1, <3>3
  <2>5. IsRun(f)
    BY <2>3, <2>4
  <2> QED
    BY <2>5, Zenon
<1>4. run[N] \in good[N]
  <2>1. run[0] = base /\ \A i \in 1 .. N : run[i] = Turn(i, run[i - 1])
    <3> HIDE DEF run, base, Turn
    <3> QED
      BY <1>1, <1>3
  <2>2. \A i \in 1 .. N : run[i - 1] \in good[i - 1] => run[i] \in good[i]
    <3> HIDE DEF run, base, Turn, N
    <3> QED
      BY <1>2, <2>1
  <2> HIDE DEF run, N, base
  <2> QED
    BY <1>1, <2>1, <2>2, LoopStays, Zenon
<1>5. Unified(entries, v, range) = run[N]
  BY DEF Unified, Loop
<1> HIDE DEF run, N
<1> QED
  BY <1>4, <1>5, Zenon DEF N

(* What `extract` comes to.                                                *)
LEMMA ExtractedRuns ==
  ASSUME NEW entries, NEW range, Len(range) \in Nat,
         NEW good, [entries |-> entries, next |-> 1] \in good[0],
         \A i \in 1 .. Len(range) : \A x \in good[i - 1] :
           ExtractedOne(x, range) \in good[i]
  PROVE  \E x \in good[Len(range)] : Extracted(entries, range) = x.entries
<1> DEFINE N == Len(range)
           base == [entries |-> entries, next |-> 1]
           Turn(i, x) == ExtractedOne(x, range)
           step == [i \in 1 .. N |-> [x \in good[i - 1] |-> Turn(i, x)]]
           IsRun(f) == f = [i \in 0 .. N |-> IF i = 0 THEN base ELSE Turn(i, f[i - 1])]
           run == CHOOSE f : IsRun(f)
<1>1. N \in Nat /\ N \in 0 .. N /\ base \in good[0]
  OBVIOUS
<1>2. \A i \in 1 .. N : \A x \in good[i - 1] : step[i][x] = Turn(i, x) /\ Turn(i, x) \in good[i]
  <2> HIDE DEF base
  <2> QED
    OBVIOUS
<1>3. IsRun(run)
  <2> HIDE DEF N, base, Turn, step
  <2>1. Keeps(step, N, good)
    BY <1>2 DEF Keeps
  <2>2. PICK f : Runs(f, base, step, N, good)
    BY <1>1, <2>1, LoopRuns, Zenon
  <2>3. /\ f = [i \in 0 .. N |-> f[i]] /\ f[0] = base
        /\ \A i \in 1 .. N : f[i] = step[i][f[i - 1]]
        /\ \A i \in 0 .. N : f[i] \in good[i]
    BY <2>2, Zenon DEF Runs
  <2>4. ASSUME NEW i \in 0 .. N
        PROVE  f[i] = IF i = 0 THEN base ELSE Turn(i, f[i - 1])
    <3>1. i # 0 => i \in 1 .. N /\ i - 1 \in 0 .. N
      BY <1>1
    <3>2. i # 0 => f[i - 1] \in good[i - 1]
      BY <2>3, <3>1
    <3>3. i # 0 => step[i][f[i - 1]] = Turn(i, f[i - 1])
      BY <1>2, <3>1, <3>2
    <3> QED
      BY <2>3, <3>1, <3>3
  <2>5. IsRun(f)
    BY <2>3, <2>4
  <2> QED
    BY <2>5, Zenon
<1>4. run[N] \in good[N]
  <2>1. run[0] = base /\ \A i \in 1 .. N : run[i] = Turn(i, run[i - 1])
    <3> HIDE DEF run, base, Turn
    <3> QED
      BY <1>1, <1>3
  <2>2. \A i \in 1 .. N : run[i - 1] \in good[i - 1] => run[i] \in good[i]
    <3> HIDE DEF run, base, Turn, N
    <3> QED
      BY <1>2, <2>1
  <2> HIDE DEF run, N, base
  <2> QED
    BY <1>1, <2>1, <2>2, LoopStays, Zenon
<1>5. Extracted(entries, range) = run[N].entries
  BY DEF Extracted, Loop
<1> HIDE DEF run, N
<1> QED
  BY <1>4, <1>5, Zenon DEF N

(* What the walk comes to.                                                 *)
LEMMA WalkRuns ==
  ASSUME NEW q, NEW range, NEW entries, NEW limit, Len(range) + Cardinality(entries) + 1 \in Nat,
         NEW good, [q |-> q, done |-> FALSE] \in good[0],
         \A i \in 1 .. Len(range) + Cardinality(entries) + 1 : \A x \in good[i - 1] :
           Stepped(x, range, entries, limit) \in good[i]
  PROVE  \E w \in good[Len(range) + Cardinality(entries) + 1] :
           Walk(q, range, entries, limit) = w.q
<1> DEFINE N == Len(range) + Cardinality(entries) + 1
           base == [q |-> q, done |-> FALSE]
           Turn(i, x) == Stepped(x, range, entries, limit)
           step == [i \in 1 .. N |-> [x \in good[i - 1] |-> Turn(i, x)]]
           IsRun(f) == f = [i \in 0 .. N |-> IF i = 0 THEN base ELSE Turn(i, f[i - 1])]
           run == CHOOSE f : IsRun(f)
<1>1. N \in Nat /\ N \in 0 .. N /\ base \in good[0]
  OBVIOUS
<1>2. \A i \in 1 .. N : \A x \in good[i - 1] : step[i][x] = Turn(i, x) /\ Turn(i, x) \in good[i]
  <2> HIDE DEF base
  <2> QED
    OBVIOUS
<1>3. IsRun(run)
  <2> HIDE DEF N, base, Turn, step
  <2>1. Keeps(step, N, good)
    BY <1>2 DEF Keeps
  <2>2. PICK f : Runs(f, base, step, N, good)
    BY <1>1, <2>1, LoopRuns, Zenon
  <2>3. /\ f = [i \in 0 .. N |-> f[i]] /\ f[0] = base
        /\ \A i \in 1 .. N : f[i] = step[i][f[i - 1]]
        /\ \A i \in 0 .. N : f[i] \in good[i]
    BY <2>2, Zenon DEF Runs
  <2>4. ASSUME NEW i \in 0 .. N
        PROVE  f[i] = IF i = 0 THEN base ELSE Turn(i, f[i - 1])
    <3>1. i # 0 => i \in 1 .. N /\ i - 1 \in 0 .. N
      BY <1>1
    <3>2. i # 0 => f[i - 1] \in good[i - 1]
      BY <2>3, <3>1
    <3>3. i # 0 => step[i][f[i - 1]] = Turn(i, f[i - 1])
      BY <1>2, <3>1, <3>2
    <3> QED
      BY <2>3, <3>1, <3>3
  <2>5. IsRun(f)
    BY <2>3, <2>4
  <2> QED
    BY <2>5, Zenon
<1>4. run[N] \in good[N]
  <2>1. run[0] = base /\ \A i \in 1 .. N : run[i] = Turn(i, run[i - 1])
    <3> HIDE DEF run, base, Turn
    <3> QED
      BY <1>1, <1>3
  <2>2. \A i \in 1 .. N : run[i - 1] \in good[i - 1] => run[i] \in good[i]
    <3> HIDE DEF run, base, Turn, N
    <3> QED
      BY <1>2, <2>1
  <2> HIDE DEF run, N, base
  <2> QED
    BY <1>1, <2>1, <2>2, LoopStays, Zenon
<1>5. Walk(q, range, entries, limit) = run[N].q
  BY DEF Walk, Loop
<1> HIDE DEF run, N
<1> QED
  BY <1>4, <1>5, Zenon DEF N

(* What it comes to when several are taken out.                            *)
LEMMA AllUnassignedRuns ==
  ASSUME NEW m, NEW qs, NEW gone, Len(gone) \in Nat,
         NEW good, [matrix |-> m, queries |-> qs] \in good[0],
         \A i \in 1 .. Len(gone) : \A x \in good[i - 1] :
           Unassigned(x.matrix, x.queries, phys[gone[i]], ranges[gone[i]]) \in good[i]
  PROVE  AllUnassigned(m, qs, gone) \in good[Len(gone)]
<1> DEFINE N == Len(gone)
           base == [matrix |-> m, queries |-> qs]
           Turn(i, x) == Unassigned(x.matrix, x.queries, phys[gone[i]], ranges[gone[i]])
           step == [i \in 1 .. N |-> [x \in good[i - 1] |-> Turn(i, x)]]
           IsRun(f) == f = [i \in 0 .. N |-> IF i = 0 THEN base ELSE Turn(i, f[i - 1])]
           run == CHOOSE f : IsRun(f)
<1>1. N \in Nat /\ N \in 0 .. N /\ base \in good[0]
  OBVIOUS
<1>2. \A i \in 1 .. N : \A x \in good[i - 1] : step[i][x] = Turn(i, x) /\ Turn(i, x) \in good[i]
  <2> HIDE DEF base
  <2> QED
    OBVIOUS
<1>3. IsRun(run)
  <2> HIDE DEF N, base, Turn, step
  <2>1. Keeps(step, N, good)
    BY <1>2 DEF Keeps
  <2>2. PICK f : Runs(f, base, step, N, good)
    BY <1>1, <2>1, LoopRuns, Zenon
  <2>3. /\ f = [i \in 0 .. N |-> f[i]] /\ f[0] = base
        /\ \A i \in 1 .. N : f[i] = step[i][f[i - 1]]
        /\ \A i \in 0 .. N : f[i] \in good[i]
    BY <2>2, Zenon DEF Runs
  <2>4. ASSUME NEW i \in 0 .. N
        PROVE  f[i] = IF i = 0 THEN base ELSE Turn(i, f[i - 1])
    <3>1. i # 0 => i \in 1 .. N /\ i - 1 \in 0 .. N
      BY <1>1
    <3>2. i # 0 => f[i - 1] \in good[i - 1]
      BY <2>3, <3>1
    <3>3. i # 0 => step[i][f[i - 1]] = Turn(i, f[i - 1])
      BY <1>2, <3>1, <3>2
    <3> QED
      BY <2>3, <3>1, <3>3
  <2>5. IsRun(f)
    BY <2>3, <2>4
  <2> QED
    BY <2>5, Zenon
<1>4. run[N] \in good[N]
  <2>1. run[0] = base /\ \A i \in 1 .. N : run[i] = Turn(i, run[i - 1])
    <3> HIDE DEF run, base, Turn
    <3> QED
      BY <1>1, <1>3
  <2>2. \A i \in 1 .. N : run[i - 1] \in good[i - 1] => run[i] \in good[i]
    <3> HIDE DEF run, base, Turn, N
    <3> QED
      BY <1>2, <2>1
  <2> HIDE DEF run, N, base
  <2> QED
    BY <1>1, <2>1, <2>2, LoopStays, Zenon
<1>5. AllUnassigned(m, qs, gone) = run[N]
  BY DEF AllUnassigned, Loop
<1> HIDE DEF run, N
<1> QED
  BY <1>4, <1>5, Zenon DEF N

-----------------------------------------------------------------------------
(* An entry, and a union as it should be: entries that do not overlap, of  *)
(* which no two of a register touch.                                       *)
Entry == [start : Nat, stop : Nat, reg : VRegs]

Apart(e, f) ==
  \/ e.stop < f.start \/ f.stop < e.start
  \/ (e.stop = f.start \/ f.stop = e.start) /\ e.reg # f.reg

InOrder(entries) ==
  /\ IsFiniteSet(entries) /\ entries \subseteq Entry
  /\ \A e \in entries : e.start < e.stop
  /\ \A e, f \in entries : e = f \/ Apart(e, f)

(* A slot is one of v's in a union, and one of a range.                    *)
Has(entries, v, x) == \E e \in entries : e.reg = v /\ e.start <= x /\ x < e.stop
Covers(range, x) == \E i \in 1 .. Len(range) : range[i].start <= x /\ x < range[i].end

Segments == Seq([start : Nat, end : Nat])
Sorted(range) ==
  /\ range \in Segments
  /\ \A i, j \in 1 .. Len(range) :
       range[i].start < range[i].end /\ (i < j => range[i].end <= range[j].start)

LEMMA ElementIs ==
  ASSUME NEW S, NEW s \in Seq(S), NEW i \in 1 .. Len(s)
  PROVE  s[i] \in S
  OBVIOUS

LEMMA RangesAreSorted ==
  ASSUME NEW range \in Ranges
  PROVE  Sorted(range)
<1>1. range \in Segments
  BY MatrixAssumption DEF Segments
<1>2. DOMAIN range = 1 .. Len(range)
  BY <1>1 DEF Segments
<1>3. \A i, j \in DOMAIN range :
        range[i].start < range[i].end /\ (i < j => range[i].end <= range[j].start)
  BY MatrixAssumption, Zenon
<1> QED
  BY <1>1, <1>2, <1>3 DEF Sorted

LEMMA SegmentIs ==
  ASSUME NEW range, Sorted(range), NEW i \in 1 .. Len(range)
  PROVE  range[i].start \in Nat /\ range[i].end \in Nat /\ range[i].start < range[i].end
<1>1. range[i] \in [start : Nat, end : Nat]
  <2>1. range \in Seq([start : Nat, end : Nat])
    BY DEF Sorted, Segments
  <2> QED
    BY <2>1, ElementIs, Zenon
<1> QED
  BY <1>1 DEF Sorted

LEMMA LenIs ==
  ASSUME NEW range, Sorted(range)
  PROVE  Len(range) \in Nat
  BY DEF Sorted, Segments

LEMMA SlotsAreCovered ==
  ASSUME NEW range, Sorted(range)
  PROVE  \A x : x \in Slots(range) <=> x \in Nat /\ Covers(range, x)
<1>1. ToSet(range) = {range[i] : i \in 1 .. Len(range)}
  BY DEF Sorted, Segments, ToSet
<1> TAKE x
<1>2. ASSUME x \in Slots(range) PROVE x \in Nat /\ Covers(range, x)
  <2>1. PICK seg \in ToSet(range) : x \in seg.start .. seg.end - 1
    BY <1>2 DEF Slots
  <2>2. PICK i \in 1 .. Len(range) : seg = range[i]
    BY <1>1, <2>1
  <2> QED
    BY <2>1, <2>2, SegmentIs DEF Covers
<1>3. ASSUME x \in Nat, Covers(range, x) PROVE x \in Slots(range)
  <2>1. PICK i \in 1 .. Len(range) : range[i].start <= x /\ x < range[i].end
    BY <1>3 DEF Covers
  <2>2. x \in range[i].start .. range[i].end - 1
    BY <1>3, <2>1, SegmentIs
  <2>3. range[i] \in ToSet(range)
    BY <1>1
  <2> QED
    BY <2>2, <2>3 DEF Slots
<1> QED
  BY <1>2, <1>3

-----------------------------------------------------------------------------
(* Where an iterator is put.                                               *)

LEMMA FirstOfIs ==
  ASSUME NEW entries, entries # {}, \A e \in entries : e.start \in Nat
  PROVE  FirstOf(entries) \in entries /\ \A f \in entries : FirstOf(entries).start <= f.start
<1> DEFINE starts == {e.start : e \in entries}
<1>1. starts \in SUBSET Nat /\ starts # {}
  OBVIOUS
<1>2. PICK s \in starts : \A t \in starts : s <= t
  <2> HIDE DEF starts
  <2> QED
    BY <1>1, LeastOf, Zenon
<1>3. PICK e \in entries : \A f \in entries : e.start <= f.start
  BY <1>2
<1> QED
  BY <1>3, Zenon DEF FirstOf

LEMMA FindIs ==
  ASSUME NEW entries, InOrder(entries), NEW x \in Nat
  PROVE  \/ Find(entries, x) = End /\ \A e \in entries : e.stop <= x
         \/ /\ Find(entries, x) \in entries /\ Find(entries, x).stop > x
            /\ \A e \in entries : e.start < Find(entries, x).start => e.stop <= x
<1> DEFINE after == {e \in entries : e.stop > x}
<1>1. \A e \in entries : e.start \in Nat /\ e.stop \in Nat
  BY DEF InOrder, Entry
<1>2. CASE after = {}
  <2>1. Find(entries, x) = End
    BY <1>2 DEF Find, FirstOf
  <2> QED
    BY <1>1, <1>2, <2>1
<1>3. CASE after # {}
  <2>1. FirstOf(after) \in after /\ \A f \in after : FirstOf(after).start <= f.start
    <3>1. \A e \in after : e.start \in Nat
      BY <1>1
    <3> HIDE DEF after
    <3> QED
      BY <1>3, <3>1, FirstOfIs
  <2>2. Find(entries, x) = FirstOf(after)
    BY DEF Find
  <2> QED
    BY <1>1, <2>1, <2>2
<1> QED
  BY <1>2, <1>3

LEMMA NextOfIs ==
  ASSUME NEW entries, InOrder(entries), NEW at, at.start \in Nat
  PROVE  \/ NextOf(entries, at) = End /\ \A e \in entries : e.start <= at.start
         \/ /\ NextOf(entries, at) \in entries /\ NextOf(entries, at).start > at.start
            /\ \A e \in entries : e.start < NextOf(entries, at).start => e.start <= at.start
<1> DEFINE after == {e \in entries : e.start > at.start}
<1>1. \A e \in entries : e.start \in Nat
  BY DEF InOrder, Entry
<1>2. CASE after = {}
  <2>1. NextOf(entries, at) = End
    BY <1>2 DEF NextOf, FirstOf
  <2> QED
    BY <1>1, <1>2, <2>1
<1>3. CASE after # {}
  <2>1. FirstOf(after) \in after /\ \A f \in after : FirstOf(after).start <= f.start
    <3>1. \A e \in after : e.start \in Nat
      BY <1>1
    <3> HIDE DEF after
    <3> QED
      BY <1>3, <3>1, FirstOfIs
  <2>2. NextOf(entries, at) = FirstOf(after)
    BY DEF NextOf
  <2> QED
    BY <1>1, <2>1, <2>2
<1> QED
  BY <1>2, <1>3

LEMMA EndIsNoEntry ==
  ASSUME NEW entries, InOrder(entries)
  PROVE  End \notin entries
  BY MatrixAssumption DEF InOrder, Entry, End

LEMMA AdvanceToIs ==
  ASSUME NEW range, Sorted(range), NEW i \in 1 .. Len(range) + 1, NEW x \in Nat
  PROVE  /\ AdvanceTo(range, i, x) \in i .. Len(range) + 1
         /\ \A j \in i .. AdvanceTo(range, i, x) - 1 : range[j].end <= x
         /\ AdvanceTo(range, i, x) <= Len(range) => range[AdvanceTo(range, i, x)].end > x
<1> DEFINE S == {k \in i .. Len(range) : range[k].end > x} \cup {Len(range) + 1}
<1>1. Len(range) \in Nat /\ \A j \in 1 .. Len(range) : range[j].end \in Nat
  BY LenIs, SegmentIs
<1>2. S \in SUBSET Nat /\ S # {} /\ S \subseteq i .. Len(range) + 1
  BY <1>1
<1>3. PICK k \in S : \A j \in S : k <= j
  <2> HIDE DEF S
  <2> QED
    BY <1>2, LeastOf, Zenon
<1>4. AdvanceTo(range, i, x) \in S /\ \A j \in S : AdvanceTo(range, i, x) <= j
  BY <1>3, Zenon DEF AdvanceTo, Min
<1>5. ASSUME NEW k1 \in S, \A j \in S : k1 <= j
      PROVE  /\ k1 \in i .. Len(range) + 1
             /\ \A j \in i .. k1 - 1 : range[j].end <= x
             /\ k1 <= Len(range) => range[k1].end > x
  <2>1. k1 \in i .. Len(range) + 1
    BY <1>2
  <2>2. ASSUME NEW j \in i .. k1 - 1 PROVE range[j].end <= x
    <3>1. j \in i .. Len(range) /\ j < k1 /\ j \in 1 .. Len(range)
      BY <1>1, <2>1
    <3>2. j \notin S
      <4>1. ~(k1 <= j)
        BY <2>1, <3>1
      <4> QED
        BY <1>5, <4>1
    <3> QED
      BY <1>1, <3>1, <3>2
  <2>3. k1 <= Len(range) => range[k1].end > x
    BY <1>1, <2>1
  <2> QED
    BY <2>1, <2>2, <2>3
<1> HIDE DEF S
<1> QED
  BY <1>4, <1>5, Zenon

-----------------------------------------------------------------------------
(* A range is put into a union.                                            *)

LEMMA MinIs ==
  ASSUME NEW S \in SUBSET Nat, NEW m \in S, \A y \in S : m <= y
  PROVE  Min(S) = m
<1>1. Min(S) \in S /\ \A y \in S : Min(S) <= y
  BY Zenon DEF Min
<1>2. Min(S) <= m /\ m <= Min(S)
  BY <1>1
<1>3. Min(S) \in Nat /\ m \in Nat
  BY <1>1
<1> HIDE DEF Min
<1> QED
  BY <1>2, <1>3

LEMMA MaxIs ==
  ASSUME NEW S \in SUBSET Nat, NEW m \in S, \A y \in S : y <= m
  PROVE  Max(S) = m
<1>0. \A y \in S : m >= y
  OBVIOUS
<1>1. Max(S) \in S /\ \A y \in S : Max(S) >= y
  BY <1>0, Zenon DEF Max
<1>2. Max(S) >= m /\ m >= Max(S)
  BY <1>0, <1>1
<1>3. Max(S) \in Nat /\ m \in Nat
  BY <1>1
<1> HIDE DEF Max
<1> QED
  BY <1>2, <1>3

(* Two entries that share a slot, or touch and are of one register, are    *)
(* one.                                                                    *)
LEMMA EntriesAreOne ==
  ASSUME NEW es, InOrder(es), NEW e \in es, NEW f \in es
  PROVE  /\ e \in Entry /\ e.start \in Nat /\ e.stop \in Nat /\ e.reg \in VRegs /\ e.start < e.stop
         /\ e # f => e.stop <= f.start \/ f.stop <= e.start
         /\ e # f /\ e.reg = f.reg => e.stop < f.start \/ f.stop < e.start
<1>1. e \in Entry /\ e.start \in Nat /\ e.stop \in Nat /\ e.reg \in VRegs /\ e.start < e.stop
  BY DEF InOrder, Entry
<1>2. f.start \in Nat /\ f.stop \in Nat
  BY DEF InOrder, Entry
<1>3. e = f \/ Apart(e, f)
  BY DEF InOrder
<1> QED
  BY <1>1, <1>2, <1>3 DEF Apart

LEMMA InsertIs ==
  ASSUME NEW es, InOrder(es), NEW v \in VRegs,
         NEW seg, seg.start \in Nat, seg.end \in Nat, seg.start < seg.end,
         \A w \in VRegs, x \in Nat : seg.start <= x /\ x < seg.end => ~Has(es, w, x)
  PROVE  /\ InOrder(Insert(es, seg, v))
         /\ \A w \in VRegs, x \in Nat :
              Has(Insert(es, seg, v), w, x)
                <=> Has(es, w, x) \/ (w = v /\ seg.start <= x /\ x < seg.end)
<1> DEFINE left == {e \in es : e.reg = v /\ e.stop = seg.start}
           right == {e \in es : e.reg = v /\ e.start = seg.end}
           lo == Min({seg.start} \cup {e.start : e \in left})
           hi == Max({seg.end} \cup {e.stop : e \in right})
           n == [start |-> lo, reg |-> v, stop |-> hi]
           rest == es \ (left \cup right)
<1>1. \A e \in es : /\ e \in Entry /\ e.start \in Nat /\ e.stop \in Nat /\ e.reg \in VRegs
                    /\ e.start < e.stop
  BY EntriesAreOne
<1>2. \A e, f \in es : e # f => e.stop <= f.start \/ f.stop <= e.start
  BY EntriesAreOne
<1>3. \A e, f \in es : e # f /\ e.reg = f.reg => e.stop < f.start \/ f.stop < e.start
  BY EntriesAreOne
<1>4. ASSUME NEW e \in es PROVE e.stop <= seg.start \/ seg.end <= e.start
  <2> SUFFICES ASSUME e.stop > seg.start, seg.end > e.start PROVE FALSE
    BY <1>1
  <2> DEFINE x == IF e.start <= seg.start THEN seg.start ELSE e.start
  <2>1. x \in Nat /\ seg.start <= x /\ x < seg.end /\ e.start <= x /\ x < e.stop
    BY <1>1
  <2>2. Has(es, e.reg, x)
    BY <2>1 DEF Has
  <2> HIDE DEF x
  <2> QED
    BY <1>1, <2>1, <2>2
<1>5. \/ left = {} /\ lo = seg.start
      \/ \E l \in es : left = {l} /\ l.reg = v /\ l.stop = seg.start /\ lo = l.start
  <2>1. CASE left = {}
    <3>1. {seg.start} \cup {e.start : e \in left} = {seg.start}
      BY <2>1
    <3>2. Min({seg.start}) = seg.start
      BY MinIs
    <3> QED
      BY <2>1, <3>1, <3>2
  <2>2. CASE left # {}
    <3>1. PICK l \in es : l \in left
      BY <2>2
    <3>2. left = {l}
      BY <1>1, <1>3, <3>1
    <3>3. {seg.start} \cup {e.start : e \in left} = {seg.start, l.start}
      BY <3>2
    <3>4. l.start < seg.start /\ l.start \in Nat
      BY <1>1, <3>1
    <3>5. Min({seg.start, l.start}) = l.start
      BY <3>4, MinIs
    <3> QED
      BY <3>1, <3>2, <3>3, <3>5
  <2> QED
    BY <2>1, <2>2
<1>6. \/ right = {} /\ hi = seg.end
      \/ \E r \in es : right = {r} /\ r.reg = v /\ r.start = seg.end /\ hi = r.stop
  <2>1. CASE right = {}
    <3>1. {seg.end} \cup {e.stop : e \in right} = {seg.end}
      BY <2>1
    <3>2. Max({seg.end}) = seg.end
      BY MaxIs
    <3> QED
      BY <2>1, <3>1, <3>2
  <2>2. CASE right # {}
    <3>1. PICK r \in es : r \in right
      BY <2>2
    <3>2. right = {r}
      BY <1>1, <1>3, <3>1
    <3>3. {seg.end} \cup {e.stop : e \in right} = {seg.end, r.stop}
      BY <3>2
    <3>4. r.stop > seg.end /\ r.stop \in Nat
      BY <1>1, <3>1
    <3>5. Max({seg.end, r.stop}) = r.stop
      BY <3>4, MaxIs
    <3> QED
      BY <3>1, <3>2, <3>3, <3>5
  <2> QED
    BY <2>1, <2>2
<1>7. Insert(es, seg, v) = rest \cup {n}
  BY Zenon DEF Insert
<1> HIDE DEF lo, hi
<1>8. /\ lo \in Nat /\ hi \in Nat /\ lo <= seg.start /\ seg.end <= hi
      /\ n.start = lo /\ n.stop = hi /\ n.reg = v /\ n \in Entry
  <2>1. lo \in Nat /\ lo <= seg.start
    BY <1>1, <1>5
  <2>2. hi \in Nat /\ seg.end <= hi
    BY <1>1, <1>6
  <2> QED
    BY <2>1, <2>2 DEF Entry
<1>9. ASSUME NEW f \in rest
      PROVE  f.stop < n.start \/ n.stop < f.start
               \/ ((f.stop = n.start \/ n.stop = f.start) /\ f.reg # v)
  <2>1. f \in es /\ f \notin left /\ f \notin right
    OBVIOUS
  <2>2. CASE f.stop <= seg.start
    <3>1. CASE left = {} /\ lo = seg.start
      BY <1>1, <1>8, <2>1, <2>2, <3>1
    <3>2. CASE \E l \in es : left = {l} /\ l.reg = v /\ l.stop = seg.start /\ lo = l.start
      <4>1. PICK l \in es : left = {l} /\ l.reg = v /\ l.stop = seg.start /\ lo = l.start
        BY <3>2
      <4>2. f # l
        BY <2>1, <4>1
      <4>3. f.stop <= l.start
        BY <1>1, <1>2, <2>1, <2>2, <4>1, <4>2
      <4>4. f.reg = v => f.stop < l.start
        BY <1>1, <1>3, <2>1, <4>1, <4>2, <4>3
      <4> QED
        BY <1>1, <1>8, <2>1, <4>1, <4>3, <4>4
    <3> QED
      BY <1>5, <3>1, <3>2
  <2>3. CASE seg.end <= f.start
    <3>1. CASE right = {} /\ hi = seg.end
      BY <1>1, <1>8, <2>1, <2>3, <3>1
    <3>2. CASE \E r \in es : right = {r} /\ r.reg = v /\ r.start = seg.end /\ hi = r.stop
      <4>1. PICK r \in es : right = {r} /\ r.reg = v /\ r.start = seg.end /\ hi = r.stop
        BY <3>2
      <4>2. f # r
        BY <2>1, <4>1
      <4>3. r.stop <= f.start
        BY <1>1, <1>2, <2>1, <2>3, <4>1, <4>2
      <4>4. f.reg = v => r.stop < f.start
        BY <1>1, <1>3, <2>1, <4>1, <4>2, <4>3
      <4> QED
        BY <1>1, <1>8, <2>1, <4>1, <4>3, <4>4
    <3> QED
      BY <1>6, <3>1, <3>2
  <2> QED
    BY <1>4, <2>1, <2>2, <2>3
<1>10. InOrder(rest \cup {n})
  <2>1. IsFiniteSet(rest \cup {n})
    <3>1. IsFiniteSet(es)
      BY DEF InOrder
    <3>2. IsFiniteSet(rest)
      BY <3>1, FS_Subset
    <3> HIDE DEF rest, n
    <3> QED
      BY <3>2, FS_AddElement
  <2>2. rest \cup {n} \subseteq Entry
    BY <1>1, <1>8
  <2>3. \A e \in rest \cup {n} : e.start < e.stop
    BY <1>1, <1>8
  <2>4. ASSUME NEW e \in rest \cup {n}, NEW f \in rest \cup {n} PROVE e = f \/ Apart(e, f)
    <3>1. CASE e \in rest /\ f \in rest
      BY <3>1 DEF InOrder
    <3>2. CASE e = n /\ f \in rest
      BY <1>8, <1>9, <3>2, Zenon DEF Apart
    <3>3. CASE e \in rest /\ f = n
      BY <1>8, <1>9, <3>3, Zenon DEF Apart
    <3> HIDE DEF rest, n
    <3> QED
      BY <3>1, <3>2, <3>3
  <2> HIDE DEF rest, n
  <2> QED
    BY <2>1, <2>2, <2>3, <2>4 DEF InOrder
<1>11. ASSUME NEW w \in VRegs, NEW x \in Nat
       PROVE  Has(rest \cup {n}, w, x)
                <=> Has(es, w, x) \/ (w = v /\ seg.start <= x /\ x < seg.end)
  <2>1. ASSUME NEW e \in rest \cup {n}, e.reg = w, e.start <= x, x < e.stop
        PROVE  Has(es, w, x) \/ (w = v /\ seg.start <= x /\ x < seg.end)
    <3>1. CASE e \in rest
      BY <2>1, <3>1 DEF Has
    <3>2. CASE e = n
      <4>1. w = v /\ lo <= x /\ x < hi
        BY <1>8, <2>1, <3>2
      <4>2. CASE x < seg.start
        <5>1. PICK l \in es : left = {l} /\ l.reg = v /\ l.stop = seg.start /\ lo = l.start
          BY <1>5, <1>8, <4>1, <4>2
        <5> QED
          BY <4>1, <4>2, <5>1 DEF Has
      <4>3. CASE x >= seg.end
        <5>1. PICK r \in es : right = {r} /\ r.reg = v /\ r.start = seg.end /\ hi = r.stop
          BY <1>6, <1>8, <4>1, <4>3
        <5> QED
          BY <4>1, <4>3, <5>1 DEF Has
      <4> QED
        BY <4>1, <4>2, <4>3
    <3> QED
      BY <2>1, <3>1, <3>2
  <2>2. ASSUME NEW e \in es, e.reg = w, e.start <= x, x < e.stop
        PROVE  Has(rest \cup {n}, w, x)
    <3>1. CASE e \in rest
      BY <2>2, <3>1 DEF Has
    <3>2. CASE e \in left
      <4>1. lo = e.start /\ e.stop = seg.start /\ w = v
        BY <1>5, <2>2, <3>2
      <4>2. n.reg = w /\ n.start <= x /\ x < n.stop
        BY <1>1, <1>8, <2>2, <4>1
      <4> HIDE DEF n
      <4> QED
        BY <4>2 DEF Has
    <3>3. CASE e \in right
      <4>1. hi = e.stop /\ e.start = seg.end /\ w = v
        BY <1>6, <2>2, <3>3
      <4>2. n.reg = w /\ n.start <= x /\ x < n.stop
        BY <1>1, <1>8, <2>2, <4>1
      <4> HIDE DEF n
      <4> QED
        BY <4>2 DEF Has
    <3> QED
      BY <3>1, <3>2, <3>3
  <2>3. ASSUME w = v, seg.start <= x, x < seg.end PROVE Has(rest \cup {n}, w, x)
    <3>1. n.reg = w /\ n.start <= x /\ x < n.stop
      BY <1>8, <2>3
    <3> HIDE DEF n
    <3> QED
      BY <3>1 DEF Has
  <2> HIDE DEF rest, n
  <2> QED
    BY <2>1, <2>2, <2>3 DEF Has
<1> HIDE DEF rest, n
<1> QED
  BY <1>7, <1>10, <1>11

(* Put into a union where it overlaps nothing, the range is v's there and  *)
(* nothing else has changed.                                               *)
LEMMA UnifiedIs ==
  ASSUME NEW es, InOrder(es), NEW v \in VRegs, NEW range, Sorted(range),
         \A w \in VRegs, x \in Nat : Covers(range, x) => ~Has(es, w, x)
  PROVE  /\ InOrder(Unified(es, v, range))
         /\ \A w \in VRegs, x \in Nat :
              Has(Unified(es, v, range), w, x) <=> Has(es, w, x) \/ (w = v /\ Covers(range, x))
<1> DEFINE To(i, x) == \E k \in 1 .. i : range[k].start <= x /\ x < range[k].end
           Is(f, i) == /\ InOrder(f)
                       /\ \A w \in VRegs, x \in Nat :
                            Has(f, w, x) <=> Has(es, w, x) \/ (w = v /\ To(i, x))
           good == [i \in 0 .. Len(range) |-> {f \in SUBSET Entry : Is(f, i)}]
<1>1. Len(range) \in Nat /\ Len(range) \in 0 .. Len(range)
  BY LenIs
<1>2. es \in good[0]
  <2>1. es \in SUBSET Entry
    BY DEF InOrder
  <2>2. \A x : ~To(0, x)
    OBVIOUS
  <2>3. Is(es, 0)
    BY <2>2
  <2>4. 0 \in 0 .. Len(range)
    BY <1>1
  <2> HIDE DEF Is
  <2> QED
    BY <2>1, <2>3, <2>4
<1>3. ASSUME NEW i \in 1 .. Len(range), NEW f \in good[i - 1]
      PROVE  Insert(f, range[i], v) \in good[i]
  <2>0. i \in 0 .. Len(range) /\ i - 1 \in 0 .. Len(range)
    BY <1>1
  <2>1. Is(f, i - 1)
    <3> HIDE DEF Is
    <3> QED
      BY <2>0
  <2>2. range[i].start \in Nat /\ range[i].end \in Nat /\ range[i].start < range[i].end
    BY SegmentIs
  <2>3. ASSUME NEW w \in VRegs, NEW x \in Nat, range[i].start <= x, x < range[i].end
        PROVE  ~Has(f, w, x)
    <3>1. ~Has(es, w, x)
      BY <2>3 DEF Covers
    <3>2. ASSUME NEW k \in 1 .. i - 1 PROVE ~(range[k].start <= x /\ x < range[k].end)
      <4>1. k \in 1 .. Len(range) /\ k < i
        BY <1>1
      <4>2. range[k].end <= range[i].start
        BY <4>1 DEF Sorted
      <4>3. range[k].end \in Nat
        BY <4>1, SegmentIs
      <4> QED
        BY <2>2, <2>3, <4>2, <4>3
    <3> QED
      BY <2>1, <3>1, <3>2
  <2>4. /\ InOrder(Insert(f, range[i], v))
        /\ \A w \in VRegs, x \in Nat :
             Has(Insert(f, range[i], v), w, x)
               <=> Has(f, w, x) \/ (w = v /\ range[i].start <= x /\ x < range[i].end)
    <3>1. InOrder(f)
      BY <2>1
    <3> HIDE DEF Is, good
    <3> QED
      BY <2>2, <2>3, <3>1, InsertIs
  <2>5. ASSUME NEW x \in Nat
        PROVE  To(i, x) <=> To(i - 1, x) \/ (range[i].start <= x /\ x < range[i].end)
    <3>1. \A k : k \in 1 .. i <=> k \in 1 .. i - 1 \/ k = i
      OBVIOUS
    <3> QED
      BY <3>1, Zenon
  <2>6. Is(Insert(f, range[i], v), i)
    <3> HIDE DEF To
    <3> QED
      BY <2>1, <2>4, <2>5
  <2>7. Insert(f, range[i], v) \in SUBSET Entry
    BY <2>4 DEF InOrder
  <2> HIDE DEF Is
  <2> QED
    BY <2>0, <2>6, <2>7
<1>4. Unified(es, v, range) \in good[Len(range)]
  <2> HIDE DEF good
  <2> QED
    BY <1>1, <1>2, <1>3, UnifiedRuns
<1>5. Is(Unified(es, v, range), Len(range))
  <2> HIDE DEF Is
  <2> QED
    BY <1>1, <1>4
<1> QED
  BY <1>5 DEF Covers

-----------------------------------------------------------------------------
(* A range is taken out of a union.                                        *)

(* What is left of v in a union is the range from a segment on.            *)
From(range, n, x) == \E k \in n .. Len(range) : range[k].start <= x /\ x < range[k].end
Leaves(es, v, range, n) == \A x \in Nat : Has(es, v, x) <=> From(range, n, x)

(* A turn removes the entry the next segment is in, and goes on to the     *)
(* first segment that is not in it.                                        *)
LEMMA ExtractedOneIs ==
  ASSUME NEW es, InOrder(es), NEW v \in VRegs, NEW range, Sorted(range),
         NEW n \in 1 .. Len(range), Leaves(es, v, range, n)
  PROVE  \E at \in es, m \in n + 1 .. Len(range) + 1 :
           /\ ExtractedOne([entries |-> es, next |-> n], range)
                = [entries |-> es \ {at}, next |-> m]
           /\ at.reg = v /\ Leaves(es \ {at}, v, range, m)
<1> DEFINE at == Find(es, range[n].start)
           rest == es \ {at}
           after == NextOf(rest, at)
           m == IF after = End THEN Len(range) + 1 ELSE AdvanceTo(range, n, after.start)
<1>0. Len(range) \in Nat /\ n \in 1 .. Len(range) + 1 /\ ~(n > Len(range))
  BY LenIs
<1>1. \A k \in 1 .. Len(range) :
        range[k].start \in Nat /\ range[k].end \in Nat /\ range[k].start < range[k].end
  BY SegmentIs
<1>2. \A j, k \in 1 .. Len(range) : j < k => range[j].end <= range[k].start
  BY DEF Sorted
<1>3. \A e \in es : e.start \in Nat /\ e.stop \in Nat /\ e.reg \in VRegs /\ e.start < e.stop
  BY EntriesAreOne
<1>4. \A e, f \in es : e # f => e.stop <= f.start \/ f.stop <= e.start
  BY EntriesAreOne
<1>5. \A e, f \in es : e # f /\ e.reg = f.reg => e.stop < f.start \/ f.stop < e.start
  BY EntriesAreOne
<1>6. at \in es /\ at.reg = v /\ at.start <= range[n].start /\ range[n].start < at.stop
  <2> DEFINE s == range[n].start
  <2>1. s \in Nat
    BY <1>1
  <2>2. From(range, n, s)
    BY <1>0, <1>1 DEF From
  <2>3. PICK e \in es : e.reg = v /\ e.start <= s /\ s < e.stop
    BY <2>1, <2>2 DEF Leaves, Has
  <2>4. at # End /\ at \in es /\ at.stop > s /\ ~(e.start < at.start /\ e.stop > s)
    <3> HIDE DEF s
    <3>1. \/ Find(es, s) = End /\ \A f \in es : f.stop <= s
          \/ /\ Find(es, s) \in es /\ Find(es, s).stop > s
             /\ \A f \in es : f.start < Find(es, s).start => f.stop <= s
      BY <2>1, FindIs
    <3>2. at = Find(es, s)
      BY DEF s
    <3> HIDE DEF at
    <3> QED
      BY <1>3, <2>1, <2>3, <3>1, <3>2, EndIsNoEntry
  <2>5. at = e
    <3> HIDE DEF at, s
    <3> QED
      BY <1>3, <1>4, <2>1, <2>3, <2>4
  <2> QED
    BY <2>3, <2>5
<1>7. ExtractedOne([entries |-> es, next |-> n], range) = [entries |-> rest, next |-> m]
  <2>1. at # End
    BY <1>6, EndIsNoEntry
  <2> QED
    BY <1>0, <2>1, SMT DEF ExtractedOne
<1> HIDE DEF at
<1>8. InOrder(rest)
  <2>1. IsFiniteSet(rest)
    BY FS_Subset DEF InOrder
  <2> QED
    BY <2>1 DEF InOrder
<1>9. \/ after = End /\ \A f \in rest : f.start <= at.start
      \/ /\ after \in rest /\ after.start > at.start
         /\ \A f \in rest : f.start < after.start => f.start <= at.start
  <2>1. at.start \in Nat
    BY <1>3, <1>6
  <2> HIDE DEF rest
  <2> QED
    BY <1>8, <2>1, NextOfIs
(* None of v's is before the entry found.                                  *)
<1>10. ASSUME NEW f \in rest, f.reg = v PROVE f.start > at.start
  <2>1. f \in es /\ f # at
    OBVIOUS
  <2>2. f.start \in Nat /\ f.start < f.stop
    BY <1>3, <2>1
  <2>3. Has(es, v, f.start)
    BY <1>10, <2>1, <2>2 DEF Has
  <2>4. PICK k \in n .. Len(range) : range[k].start <= f.start
    BY <2>2, <2>3 DEF Leaves, From
  <2>5. range[n].start <= f.start
    <3>1. k \in 1 .. Len(range)
      BY <1>0, <2>4
    <3>2. CASE k = n
      BY <2>4, <3>2
    <3>3. CASE k # n
      <4>1. n < k
        BY <1>0, <2>4, <3>3
      <4>2. range[n].end <= range[k].start
        BY <1>2, <3>1, <4>1
      <4> QED
        BY <1>1, <2>2, <2>4, <3>1, <4>2
    <3> QED
      BY <3>2, <3>3
  <2> QED
    BY <1>1, <1>3, <1>4, <1>6, <2>1, <2>2, <2>5
(* A segment passed over ends where the entry does, or before.             *)
<1>11. /\ m \in n .. Len(range) + 1
       /\ after = End => m = Len(range) + 1
       /\ after # End => /\ \A j \in n .. m - 1 : range[j].end <= after.start
                         /\ m <= Len(range) => range[m].end > after.start
  <2>1. CASE after = End
    BY <1>0, <2>1
  <2>2. CASE after # End
    <3>1. after.start \in Nat
      BY <1>3, <1>9, <2>2
    <3>2. m = AdvanceTo(range, n, after.start)
      BY <2>2
    <3> HIDE DEF m, after
    <3> QED
      BY <1>0, <2>2, <3>1, <3>2, AdvanceToIs
  <2> QED
    BY <2>1, <2>2
<1> HIDE DEF m
(* A segment gone on to starts where the entry has stopped.                *)
<1>12. ASSUME NEW k \in m .. Len(range) PROVE range[k].start >= at.stop
  <2>1. m \in n .. Len(range) /\ m \in 1 .. Len(range) /\ k \in 1 .. Len(range) /\ after # End
    BY <1>0, <1>11
  <2>2. range[m].end > after.start /\ after \in rest /\ after.start > at.start
    BY <1>9, <1>11, <2>1
  <2>3. after.start >= at.stop
    <3>1. after \in es /\ after # at
      BY <2>2
    <3> HIDE DEF after, rest
    <3> QED
      BY <1>3, <1>4, <1>6, <2>2, <3>1
  <2>4. range[m].start >= at.stop
    <3> SUFFICES ASSUME range[m].start < at.stop PROVE FALSE
      BY <1>1, <1>3, <1>6, <2>1
    <3>1. at.stop \in Nat /\ range[m].start <= at.stop /\ at.stop < range[m].end
      BY <1>1, <1>3, <1>6, <2>1, <2>2, <2>3
    <3>2. From(range, n, at.stop)
      BY <2>1, <3>1 DEF From
    <3>3. PICK e \in es : e.reg = v /\ e.start <= at.stop /\ at.stop < e.stop
      BY <3>1, <3>2 DEF Leaves, Has
    <3>4. e # at
      BY <1>3, <3>3
    <3> QED
      BY <1>3, <1>5, <1>6, <3>3, <3>4
  <2>5. CASE k = m
    BY <2>4, <2>5
  <2>6. CASE k # m
    <3>1. m < k
      BY <2>1, <2>6
    <3>2. range[m].end <= range[k].start
      BY <1>2, <2>1, <3>1
    <3> QED
      BY <1>1, <1>3, <1>6, <2>1, <2>4, <3>2
  <2> QED
    BY <2>5, <2>6
<1>13. m # n
  <2> SUFFICES ASSUME m = n PROVE FALSE
    OBVIOUS
  <2>1. n \in m .. Len(range)
    BY <1>0
  <2>2. range[n].start >= at.stop
    BY <1>12, <2>1
  <2> QED
    BY <1>1, <1>3, <1>6, <2>2
<1>14. Leaves(rest, v, range, m)
  <2> SUFFICES ASSUME NEW x \in Nat PROVE Has(rest, v, x) <=> From(range, m, x)
    BY DEF Leaves
  <2>1. ASSUME Has(rest, v, x) PROVE From(range, m, x)
    <3>1. PICK e \in rest : e.reg = v /\ e.start <= x /\ x < e.stop
      BY <2>1 DEF Has
    <3>2. PICK k \in n .. Len(range) : range[k].start <= x /\ x < range[k].end
      BY <3>1 DEF Leaves, Has, From
    <3>3. after # End /\ after.start <= e.start
      <4>1. e.start > at.start /\ e \in es
        BY <1>10, <3>1
      <4>2. at.start \in Nat /\ e.start \in Nat
        BY <1>3, <1>6, <4>1
      <4>3. ~(e.start <= at.start)
        BY <4>1, <4>2
      <4>4. after # End /\ ~(e.start < after.start)
        <5>1. e \in rest
          OBVIOUS
        <5>2. CASE after = End /\ \A f \in rest : f.start <= at.start
          BY <4>3, <5>1, <5>2
        <5>3. CASE /\ after \in rest /\ after.start > at.start
                   /\ \A f \in rest : f.start < after.start => f.start <= at.start
          <6>1. after # End
            BY <1>8, <5>3, EndIsNoEntry
          <6> HIDE DEF after, rest
          <6> QED
            BY <4>3, <5>1, <5>3, <6>1
        <5> QED
          BY <1>9, <5>2, <5>3
      <4>5. after.start \in Nat
        BY <1>3, <1>9, <4>4
      <4> QED
        BY <4>2, <4>4, <4>5
    <3>4. k >= m
      <4> SUFFICES ASSUME k < m PROVE FALSE
        BY <1>0, <1>11
      <4>1. k \in n .. m - 1 /\ k \in 1 .. Len(range)
        BY <1>0, <1>11
      <4>2. range[k].end <= after.start
        BY <1>11, <3>3, <4>1
      <4>3. after \in es /\ e \in es
        BY <1>9, <3>3
      <4> QED
        BY <1>1, <1>3, <3>1, <3>2, <3>3, <4>1, <4>2, <4>3
    <3>5. k \in m .. Len(range)
      BY <1>0, <1>11, <3>4
    <3> QED
      BY <3>2, <3>5 DEF From
  <2>2. ASSUME From(range, m, x) PROVE Has(rest, v, x)
    <3>1. PICK k \in m .. Len(range) : range[k].start <= x /\ x < range[k].end
      BY <2>2 DEF From
    <3>2. k \in n .. Len(range) /\ k \in 1 .. Len(range)
      BY <1>0, <1>11
    <3>3. From(range, n, x)
      BY <3>1, <3>2 DEF From
    <3>4. PICK e \in es : e.reg = v /\ e.start <= x /\ x < e.stop
      BY <3>3 DEF Leaves, Has
    <3>5. range[k].start >= at.stop
      BY <1>12, <3>1
    <3>6. e # at
      BY <1>1, <1>3, <1>6, <3>1, <3>2, <3>4, <3>5
    <3> QED
      BY <3>4, <3>6 DEF Has
  <2> QED
    BY <2>1, <2>2
<1>15. m \in n + 1 .. Len(range) + 1
  BY <1>0, <1>11, <1>13
<1> HIDE DEF rest
<1> QED
  BY <1>6, <1>7, <1>14, <1>15 DEF rest

(* Out of a union where it is v's, the range leaves the other entries.     *)
LEMMA ExtractedIs ==
  ASSUME NEW es, InOrder(es), NEW v \in VRegs, NEW range, Sorted(range),
         \A x \in Nat : Has(es, v, x) <=> Covers(range, x)
  PROVE  Extracted(es, range) = {e \in es : e.reg # v}
<1> DEFINE L == Len(range)
           Is(x, i) == /\ InOrder(x.entries) /\ x.entries \subseteq es
                       /\ {e \in es : e.reg # v} \subseteq x.entries
                       /\ Leaves(x.entries, v, range, x.next) /\ x.next > i
           All0 == [entries : SUBSET es, next : 1 .. L + 1]
           good == [i \in 0 .. L |-> {x \in All0 : Is(x, i)}]
           base == [entries |-> es, next |-> 1]
<1>1. L \in Nat /\ L \in 0 .. L
  BY LenIs
<1>2. base \in good[0]
  <2>1. base.entries = es /\ base.next = 1 /\ base \in All0
    BY <1>1
  <2>2. Leaves(es, v, range, 1)
    BY DEF Leaves, From, Covers
  <2>3. Is(base, 0)
    <3> HIDE DEF base
    <3> QED
      BY <2>1, <2>2
  <2>4. 0 \in 0 .. L
    BY <1>1
  <2> HIDE DEF Is, base, All0
  <2> QED
    BY <2>1, <2>3, <2>4
<1>3. ASSUME NEW i \in 1 .. L, NEW x \in good[i - 1]
      PROVE  ExtractedOne(x, range) \in good[i]
  <2>1. i \in 0 .. L /\ i - 1 \in 0 .. L
    BY <1>1
  <2>2. x \in All0 /\ Is(x, i - 1)
    <3> HIDE DEF Is, All0
    <3> QED
      BY <2>1
  <2>3. x.next \in 1 .. L + 1 /\ x = [entries |-> x.entries, next |-> x.next]
    BY <2>2
  <2>4. CASE x.next > L
    <3>1. ExtractedOne(x, range) = x
      <4> HIDE DEF Is
      <4> QED
        BY <2>4, Zenon DEF ExtractedOne
    <3>2. Is(x, i)
      BY <1>1, <2>2, <2>3, <2>4
    <3> HIDE DEF Is, All0
    <3> QED
      BY <2>1, <2>2, <3>1, <3>2
  <2>5. CASE ~(x.next > L)
    <3>1. x.next \in 1 .. Len(range)
      BY <1>1, <2>3, <2>5
    <3>2. PICK at \in x.entries, m \in x.next + 1 .. Len(range) + 1 :
            /\ ExtractedOne([entries |-> x.entries, next |-> x.next], range)
                 = [entries |-> x.entries \ {at}, next |-> m]
            /\ at.reg = v /\ Leaves(x.entries \ {at}, v, range, m)
      BY <2>2, <3>1, ExtractedOneIs
    <3> DEFINE y == [entries |-> x.entries \ {at}, next |-> m]
    <3>3. y.entries = x.entries \ {at} /\ y.next = m /\ y \in All0
      BY <1>1, <2>2, <3>1, <3>2
    <3>4. InOrder(y.entries)
      <4>1. IsFiniteSet(x.entries \ {at})
        BY <2>2, FS_Subset DEF InOrder
      <4> QED
        BY <2>2, <3>3, <4>1 DEF InOrder
    <3>5. y.next > i
      BY <2>1, <2>2, <2>3, <3>2, <3>3
    <3>6. y.entries \subseteq es /\ {e \in es : e.reg # v} \subseteq y.entries
      <4> HIDE DEF y
      <4> QED
        BY <2>2, <3>2, <3>3
    <3>7. Leaves(y.entries, v, range, y.next)
      <4> HIDE DEF y
      <4> QED
        BY <3>2, <3>3
    <3>8. ExtractedOne(x, range) = y
      BY <2>3, <3>2
    <3>9. Is(y, i)
      <4> HIDE DEF y
      <4> QED
        BY <3>4, <3>5, <3>6, <3>7
    <3> HIDE DEF Is, All0, y
    <3> QED
      BY <2>1, <3>3, <3>8, <3>9
  <2> QED
    BY <2>4, <2>5
<1>4. PICK x \in good[L] : Extracted(es, range) = x.entries
  <2>1. \A i \in 1 .. Len(range) : \A y \in good[i - 1] : ExtractedOne(y, range) \in good[i]
    <3> HIDE DEF good
    <3> QED
      BY <1>3
  <2>2. Len(range) \in Nat /\ [entries |-> es, next |-> 1] \in good[0]
    <3> HIDE DEF good
    <3> QED
      BY <1>1, <1>2
  <2> HIDE DEF good
  <2> QED
    BY <2>1, <2>2, ExtractedRuns
<1>5. Is(x, L) /\ x \in All0
  <2> HIDE DEF Is, All0
  <2> QED
    BY <1>1, <1>4
<1>6. ASSUME NEW e \in x.entries PROVE e.reg # v
  <2> SUFFICES ASSUME e.reg = v PROVE FALSE
    OBVIOUS
  <2>1. e.start \in Nat /\ e.start < e.stop
    BY <1>5, EntriesAreOne
  <2>2. Has(x.entries, v, e.start)
    BY <2>1 DEF Has
  <2>3. PICK k \in x.next .. L : TRUE
    BY <1>5, <2>1, <2>2 DEF Leaves, From
  <2> QED
    BY <1>1, <1>5, <2>3
<1> HIDE DEF Is
<1>7. x.entries \subseteq es /\ {e \in es : e.reg # v} \subseteq x.entries
  BY <1>5 DEF Is
<1> QED
  BY <1>4, <1>6, <1>7

-----------------------------------------------------------------------------
(* What a query has found.                                                 *)

QueryType ==
  [lr : VRegs \cup {NoVReg}, lri : Nat, at : Entry \cup {End}, found : Seq(VRegs),
   checked : BOOLEAN, seen_all : BOOLEAN, tag : BOOLEAN, user_tag : BOOLEAN]

Listed(s, w) == \E j \in 1 .. Len(s) : s[j] = w
Distinct(s) == \A j, k \in 1 .. Len(s) : s[j] = s[k] => j = k

Meets(range, e) == \E i \in 1 .. Len(range) : range[i].start < e.stop /\ e.start < range[i].end
InTheWay(range, entries, w) == \E e \in entries : e.reg = w /\ Meets(range, e)

(* What was found is in the way, and found once.                           *)
Sound(q, range, entries) ==
  Distinct(q.found) /\ \A w \in VRegs : Listed(q.found, w) => InTheWay(range, entries, w)

Complete(q, range, entries) ==
  \A w \in VRegs : InTheWay(range, entries, w) => Listed(q.found, w)

(* Entries before the place it is at have been looked at, and segments     *)
(* before the one it is at end before.                                     *)
Going(q, range, entries) ==
  /\ q.lri \in 1 .. Len(range) /\ q.at \in entries \cup {End}
  /\ \A e \in entries : (q.at = End \/ e.start < q.at.start) /\ Meets(range, e)
                          => Listed(q.found, e.reg)
  /\ q.at # End => \A i \in 1 .. q.lri - 1 : range[i].end <= q.at.start

Valid(q, range, entries) ==
  /\ Sound(q, range, entries)
  /\ q.seen_all => Complete(q, range, entries)
  /\ ~q.checked => q.found = <<>> /\ ~q.seen_all
  /\ q.checked /\ ~q.seen_all => Going(q, range, entries)

(* The entries and segments it has not passed.                             *)
Before(q, entries) == {e \in entries : q.at # End /\ e.start >= q.at.start}
Ahead(q, range, entries) == Cardinality(Before(q, entries)) + (Len(range) + 1 - q.lri)

LEMMA AppendIs ==
  ASSUME NEW S, NEW s \in Seq(S), NEW x \in S
  PROVE  /\ Append(s, x) \in Seq(S) /\ Len(Append(s, x)) = Len(s) + 1
         /\ \A j \in 1 .. Len(s) : Append(s, x)[j] = s[j]
         /\ Append(s, x)[Len(s) + 1] = x /\ Len(s) \in Nat
  OBVIOUS

Added(s, r) == IF Contains(s, r) THEN s ELSE Append(s, r)

LEMMA AddedIs ==
  ASSUME NEW s \in Seq(VRegs), Distinct(s), NEW r \in VRegs
  PROVE  /\ Added(s, r) \in Seq(VRegs) /\ Distinct(Added(s, r))
         /\ \A w : Listed(Added(s, r), w) <=> Listed(s, w) \/ w = r
<1> DEFINE t == Added(s, r)
<1>1. CASE Contains(s, r)
  BY <1>1 DEF Contains, Listed, Added
<1>2. CASE ~Contains(s, r)
  <2>1. /\ t \in Seq(VRegs) /\ Len(t) = Len(s) + 1 /\ Len(s) \in Nat
        /\ \A j \in 1 .. Len(s) : t[j] = s[j]
        /\ t[Len(s) + 1] = r
    BY <1>2, AppendIs DEF Added
  <2>2. \A j \in 1 .. Len(s) : s[j] # r
    BY <1>2 DEF Contains
  <2> HIDE DEF t
  <2>3. Distinct(t)
    <3> SUFFICES ASSUME NEW j \in 1 .. Len(t), NEW k \in 1 .. Len(t), t[j] = t[k]
                 PROVE  j = k
      BY DEF Distinct
    <3>1. (j \in 1 .. Len(s) \/ j = Len(s) + 1) /\ (k \in 1 .. Len(s) \/ k = Len(s) + 1)
      BY <2>1
    <3> QED
      BY <2>1, <2>2, <3>1 DEF Distinct
  <2>4. ASSUME NEW w PROVE Listed(t, w) <=> Listed(s, w) \/ w = r
    <3>1. \A j : j \in 1 .. Len(t) <=> j \in 1 .. Len(s) \/ j = Len(s) + 1
      BY <2>1
    <3> QED
      BY <2>1, <3>1 DEF Listed
  <2> QED
    BY <2>1, <2>3, <2>4 DEF t
<1> QED
  BY <1>1, <1>2

(* Fewer are before a place further on.                                    *)
LEMMA FewerAreBefore ==
  ASSUME NEW entries, InOrder(entries), NEW q, NEW p, q.at \in entries,
         p.at \in entries \cup {End}, p.at # End => p.at.start > q.at.start
  PROVE  Cardinality(Before(p, entries)) < Cardinality(Before(q, entries))
<1>1. IsFiniteSet(entries) /\ \A e \in entries : e.start \in Nat
  BY DEF InOrder, Entry
<1>2. Before(p, entries) \subseteq Before(q, entries)
  BY <1>1, EndIsNoEntry DEF Before
<1>3. q.at \in Before(q, entries) /\ q.at \notin Before(p, entries)
  BY <1>1, EndIsNoEntry DEF Before
<1>4. IsFiniteSet(Before(q, entries))
  BY <1>1, FS_Subset DEF Before
<1>5. /\ Cardinality(Before(p, entries)) <= Cardinality(Before(q, entries))
      /\ Cardinality(Before(p, entries)) = Cardinality(Before(q, entries))
           => Before(p, entries) = Before(q, entries)
      /\ IsFiniteSet(Before(p, entries))
  BY <1>2, <1>4, FS_Subset
<1>6. Cardinality(Before(p, entries)) \in Nat /\ Cardinality(Before(q, entries)) \in Nat
  BY <1>4, <1>5, FS_CardinalityType
<1>7. Cardinality(Before(p, entries)) # Cardinality(Before(q, entries))
  BY <1>3, <1>5
<1> QED
  BY <1>5, <1>6, <1>7

(* A query that is under way, and what a turn makes of it.                 *)
UnderWay(q, range, entries) ==
  /\ q \in QueryType /\ q.checked /\ ~q.seen_all
  /\ Sound(q, range, entries) /\ Going(q, range, entries)

Enough(q, limit) == q.seen_all \/ Len(q.found) >= limit
Same(p, q) == p.lr = q.lr /\ p.tag = q.tag /\ p.user_tag = q.user_tag

(* A walk that has ended.                                                  *)
Ended(p, range, entries, limit) ==
  /\ p \in QueryType /\ p.checked /\ Sound(p, range, entries)
  /\ Enough(p, limit)
  /\ p.seen_all => Complete(p, range, entries)
  /\ ~p.seen_all => Going(p, range, entries)

(* Past the last entry, everything has been looked at.                     *)
LEMMA EndOfEntries ==
  ASSUME NEW range, NEW entries, NEW q, UnderWay(q, range, entries), NEW limit, q.at = End,
         NEW p, p = [q EXCEPT !.seen_all = TRUE]
  PROVE  Ended(p, range, entries, limit) /\ Same(p, q)
<1>1. /\ p \in QueryType /\ p.checked /\ p.seen_all /\ p.found = q.found /\ Same(p, q)
  BY DEF QueryType, UnderWay, Same
<1>2. Sound(p, range, entries)
  BY <1>1 DEF UnderWay, Sound
<1>3. Complete(p, range, entries)
  BY <1>1 DEF UnderWay, Going, Complete, InTheWay
<1> QED
  BY <1>1, <1>2, <1>3 DEF Ended, Enough

(* An entry in the way is listed, and passed unless there are enough.      *)
Listing(q) == [q EXCEPT !.found = Added(q.found, q.at.reg)]
Passing(q, entries) ==
  [q EXCEPT !.found = Added(q.found, q.at.reg), !.at = NextOf(entries, q.at)]

LEMMA EntryMet ==
  ASSUME NEW range, Sorted(range), NEW entries, InOrder(entries),
         NEW q, UnderWay(q, range, entries), q.at # End,
         range[q.lri].start < q.at.stop, range[q.lri].end > q.at.start
  PROVE  /\ \A limit : Len(Listing(q).found) >= limit
              => Ended(Listing(q), range, entries, limit) /\ Same(Listing(q), q)
         /\ UnderWay(Passing(q, entries), range, entries) /\ Same(Passing(q, entries), q)
         /\ Cardinality(Before(Passing(q, entries), entries)) < Cardinality(Before(q, entries))
         /\ Passing(q, entries).lri = q.lri
<1> DEFINE found == Added(q.found, q.at.reg)
<1>1. q.at \in entries /\ q.lri \in 1 .. Len(range) /\ q \in QueryType
  BY DEF UnderWay, Going
<1>2. \A e \in entries : /\ e \in Entry /\ e.start \in Nat /\ e.stop \in Nat /\ e.reg \in VRegs
                         /\ e.start < e.stop
  BY EntriesAreOne
<1>3. \A e, f \in entries : e # f => e.stop <= f.start \/ f.stop <= e.start
  BY EntriesAreOne
<1>4. q.found \in Seq(VRegs) /\ Distinct(q.found) /\ q.at.reg \in VRegs
  BY <1>1, <1>2 DEF UnderWay, Sound, QueryType
<1>5. /\ found \in Seq(VRegs) /\ Distinct(found)
      /\ \A w : Listed(found, w) <=> Listed(q.found, w) \/ w = q.at.reg
  BY <1>4, AddedIs, Zenon
<1> HIDE DEF found
<1>6. InTheWay(range, entries, q.at.reg)
  BY <1>1 DEF InTheWay, Meets
<1>7. ASSUME NEW p, p.found = found PROVE Sound(p, range, entries)
  BY <1>5, <1>6, <1>7 DEF UnderWay, Sound
<1>8. ASSUME NEW p, NEW limit, p = [q EXCEPT !.found = found], Len(found) >= limit
      PROVE  Ended(p, range, entries, limit) /\ Same(p, q)
  <2>1. /\ p \in QueryType /\ p.found = found /\ p.at = q.at /\ p.lri = q.lri
        /\ p.checked /\ ~p.seen_all /\ Same(p, q)
    BY <1>1, <1>5, <1>8 DEF QueryType, UnderWay, Same
  <2>2. Going(p, range, entries)
    BY <1>5, <2>1 DEF UnderWay, Going
  <2> QED
    BY <1>7, <1>8, <2>1, <2>2 DEF Ended, Enough
<1>9. ASSUME NEW p, p = [q EXCEPT !.found = found, !.at = NextOf(entries, q.at)]
      PROVE  /\ UnderWay(p, range, entries) /\ Same(p, q)
             /\ Cardinality(Before(p, entries)) < Cardinality(Before(q, entries))
             /\ p.lri = q.lri
  <2> DEFINE next == NextOf(entries, q.at)
  <2>1. \/ next = End /\ \A e \in entries : e.start <= q.at.start
        \/ /\ next \in entries /\ next.start > q.at.start
           /\ \A e \in entries : e.start < next.start => e.start <= q.at.start
    BY <1>1, <1>2, NextOfIs
  <2> HIDE DEF next
  <2>2. next \in entries \cup {End} /\ next \in Entry \cup {End}
    BY <1>2, <2>1
  <2>3. /\ p \in QueryType /\ p.found = found /\ p.at = next /\ p.lri = q.lri
        /\ p.checked /\ ~p.seen_all /\ Same(p, q)
    BY <1>1, <1>5, <1>9, <2>2 DEF QueryType, UnderWay, Same, next
  <2>4. ASSUME NEW e \in entries, p.at = End \/ e.start < p.at.start, Meets(range, e)
        PROVE  Listed(p.found, e.reg)
    <3>1. e.start <= q.at.start
      <4>1. e.start \in Nat /\ q.at.start \in Nat
        BY <1>1, <1>2
      <4>2. CASE next = End /\ \A f \in entries : f.start <= q.at.start
        BY <4>2
      <4>3. CASE /\ next \in entries /\ next.start > q.at.start
                 /\ \A f \in entries : f.start < next.start => f.start <= q.at.start
        <5>1. next # End
          BY <4>3, EndIsNoEntry
        <5> QED
          BY <2>3, <2>4, <4>3, <5>1
      <4> QED
        BY <2>1, <4>2, <4>3
    <3>2. e = q.at \/ e.start < q.at.start
      BY <1>1, <1>2, <1>3, <3>1
    <3> QED
      BY <1>5, <2>3, <2>4, <3>2 DEF UnderWay, Going
  <2>5. ASSUME p.at # End, NEW i \in 1 .. p.lri - 1 PROVE range[i].end <= p.at.start
    <3>1. range[i].end <= q.at.start
      BY <2>3 DEF UnderWay, Going
    <3>2. range[i].end \in Nat
      <4>1. i \in 1 .. Len(range)
        BY <1>1, <2>3, LenIs
      <4> QED
        BY <4>1, SegmentIs
    <3>3. p.at.start > q.at.start /\ p.at.start \in Nat /\ q.at.start \in Nat
      BY <1>1, <1>2, <2>1, <2>3, <2>5
    <3> QED
      BY <3>1, <3>2, <3>3
  <2>6. Going(p, range, entries)
    BY <1>1, <2>2, <2>3, <2>4, <2>5 DEF Going
  <2>7. Cardinality(Before(p, entries)) < Cardinality(Before(q, entries))
    <3>1. p.at # End => p.at.start > q.at.start
      BY <2>1, <2>3
    <3> QED
      BY <1>1, <2>2, <2>3, <3>1, FewerAreBefore
  <2> QED
    BY <1>7, <2>3, <2>6, <2>7 DEF UnderWay
<1>10. Listing(q) = [q EXCEPT !.found = found] /\ Listing(q).found = found
  BY <1>1 DEF Listing, found, QueryType
<1>11. Passing(q, entries) = [q EXCEPT !.found = found, !.at = NextOf(entries, q.at)]
  BY Zenon DEF Passing, found
<1> QED
  BY <1>8, <1>9, <1>10, <1>11, Zenon

(* An entry and a segment that do not meet: whichever is behind goes on.   *)
LEMMA SegmentPassed ==
  ASSUME NEW range, Sorted(range), NEW entries, InOrder(entries),
         NEW q, UnderWay(q, range, entries), NEW limit, q.at # End,
         ~(range[q.lri].start < q.at.stop /\ range[q.lri].end > q.at.start),
         NEW lri, lri = AdvanceTo(range, q.lri, q.at.start)
  PROVE  /\ \A p : p = [q EXCEPT !.lri = lri, !.seen_all = TRUE] /\ lri > Len(range)
                     => Ended(p, range, entries, limit) /\ Same(p, q)
         /\ \A p : p = [q EXCEPT !.lri = lri,
                                 !.at = IF range[lri].start < q.at.stop THEN q.at
                                        ELSE Find(entries, range[lri].start)]
                   /\ ~(lri > Len(range))
                     => /\ UnderWay(p, range, entries) /\ Same(p, q)
                        /\ \/ p.lri > q.lri /\ p.at = q.at
                           \/ /\ p.lri >= q.lri
                              /\ Cardinality(Before(p, entries)) < Cardinality(Before(q, entries))
<1>1. q.at \in entries /\ q.lri \in 1 .. Len(range) /\ q \in QueryType
  BY DEF UnderWay, Going
<1>2. \A e \in entries : /\ e \in Entry /\ e.start \in Nat /\ e.stop \in Nat /\ e.reg \in VRegs
                         /\ e.start < e.stop
  BY EntriesAreOne
<1>3. \A e, f \in entries : e # f => e.stop <= f.start \/ f.stop <= e.start
  BY EntriesAreOne
<1>4. \A i \in 1 .. Len(range) :
        range[i].start \in Nat /\ range[i].end \in Nat /\ range[i].start < range[i].end
  BY SegmentIs
<1>5. Len(range) \in Nat /\ \A i, j \in 1 .. Len(range) : i < j => range[i].end <= range[j].start
  BY LenIs DEF Sorted
<1>6. /\ lri \in q.lri .. Len(range) + 1
      /\ \A j \in q.lri .. lri - 1 : range[j].end <= q.at.start
      /\ lri <= Len(range) => range[lri].end > q.at.start
  <2>1. q.at.start \in Nat /\ q.lri \in 1 .. Len(range) + 1
    BY <1>1, <1>2, <1>5
  <2> QED
    BY <2>1, AdvanceToIs
<1>10. lri \in Nat /\ q.checked /\ ~q.seen_all
  BY <1>1, <1>5, <1>6 DEF UnderWay
<1>7. ASSUME NEW i \in 1 .. lri - 1 PROVE range[i].end <= q.at.start
  <2>1. CASE i \in 1 .. q.lri - 1
    BY <2>1 DEF UnderWay, Going
  <2>2. CASE i \in q.lri .. lri - 1
    BY <1>6, <2>2
  <2> QED
    BY <1>1, <1>5, <1>6, <2>1, <2>2
<1>8. ASSUME NEW p, p = [q EXCEPT !.lri = lri, !.seen_all = TRUE], lri > Len(range)
      PROVE  Ended(p, range, entries, limit) /\ Same(p, q)
  <2>1. /\ p \in QueryType /\ p.found = q.found /\ p.checked /\ p.seen_all /\ Same(p, q)
    BY <1>1, <1>8, <1>10 DEF QueryType, Same
  <2>2. Sound(p, range, entries)
    BY <2>1 DEF UnderWay, Sound
  <2>3. ASSUME NEW e \in entries, Meets(range, e) PROVE Listed(p.found, e.reg)
    <3>1. CASE e.start < q.at.start
      BY <2>1, <2>3, <3>1 DEF UnderWay, Going
    <3>2. CASE ~(e.start < q.at.start)
      <4>1. PICK i \in 1 .. Len(range) : e.start < range[i].end
        BY <2>3 DEF Meets
      <4>2. range[i].end <= q.at.start
        BY <1>5, <1>6, <1>7, <1>8
      <4> QED
        BY <1>1, <1>2, <1>4, <3>2, <4>1, <4>2
    <3> QED
      BY <3>1, <3>2
  <2>4. Complete(p, range, entries)
    BY <2>3 DEF Complete, InTheWay
  <2> QED
    BY <2>1, <2>2, <2>4 DEF Ended, Enough
<1>9. ASSUME NEW p,
             p = [q EXCEPT !.lri = lri, !.at = IF range[lri].start < q.at.stop THEN q.at
                                               ELSE Find(entries, range[lri].start)],
             ~(lri > Len(range))
      PROVE  /\ UnderWay(p, range, entries) /\ Same(p, q)
             /\ \/ p.lri > q.lri /\ p.at = q.at
                \/ /\ p.lri >= q.lri
                   /\ Cardinality(Before(p, entries)) < Cardinality(Before(q, entries))
  <2>1. lri \in 1 .. Len(range) /\ lri >= q.lri /\ range[lri].end > q.at.start
    BY <1>1, <1>5, <1>6, <1>9
  <2>2. CASE range[lri].start < q.at.stop
    <3>1. /\ p \in QueryType /\ p.found = q.found /\ p.checked /\ ~p.seen_all /\ Same(p, q)
          /\ p.lri = lri /\ p.at = q.at
      BY <1>1, <1>9, <1>10, <2>2 DEF QueryType, Same
    <3>2. Sound(p, range, entries)
      BY <3>1 DEF UnderWay, Sound
    <3>3. Going(p, range, entries)
      BY <1>7, <2>1, <3>1 DEF UnderWay, Going
    <3>4. lri # q.lri
      BY <2>1, <2>2
    <3> QED
      BY <1>1, <1>6, <2>1, <3>1, <3>2, <3>3, <3>4 DEF UnderWay
  <2>3. CASE ~(range[lri].start < q.at.stop)
    <3> DEFINE to == range[lri].start
               found == Find(entries, to)
    <3>1. to \in Nat /\ to >= q.at.stop
      BY <1>1, <1>2, <1>4, <2>1, <2>3
    <3> HIDE DEF to
    <3>2. \/ found = End /\ \A e \in entries : e.stop <= to
          \/ /\ found \in entries /\ found.stop > to
             /\ \A e \in entries : e.start < found.start => e.stop <= to
      BY <3>1, FindIs
    <3>3. found \in entries \cup {End} /\ found \in Entry \cup {End}
      <4> HIDE DEF found
      <4> QED
        BY <1>2, <3>2
    <3>4. /\ p \in QueryType /\ p.found = q.found /\ p.checked /\ ~p.seen_all /\ Same(p, q)
          /\ p.lri = lri /\ p.at = found
      BY <1>1, <1>9, <1>10, <2>3, <3>3 DEF QueryType, Same, to
    <3> HIDE DEF found
    <3>5. Sound(p, range, entries)
      BY <3>4 DEF UnderWay, Sound
    <3>6. found # End => found \in entries /\ found.start > q.at.start
      <4>1. found # End => found \in entries /\ found.stop > to /\ found # q.at
        BY <1>1, <1>2, <3>1, <3>2
      <4> QED
        BY <1>1, <1>2, <1>3, <3>1, <4>1
    <3>7. ASSUME NEW e \in entries, found = End \/ e.start < found.start, Meets(range, e)
          PROVE  Listed(q.found, e.reg)
      <4>1. CASE e.start < q.at.start
        BY <3>7, <4>1 DEF UnderWay, Going
      <4>2. CASE ~(e.start < q.at.start)
        <5>1. e.stop <= to
          <6>1. CASE found = End
            <7>1. End \notin entries
              BY EndIsNoEntry
            <7> QED
              BY <3>2, <6>1, <7>1
          <6>2. CASE found # End
            BY <3>2, <3>7, <6>2
          <6> QED
            BY <6>1, <6>2
        <5>2. PICK i \in 1 .. Len(range) : range[i].start < e.stop /\ e.start < range[i].end
          BY <3>7 DEF Meets
        <5>3. CASE i < lri
          <6>1. range[i].end <= q.at.start
            BY <1>7, <2>1, <5>3
          <6> QED
            BY <1>1, <1>2, <1>4, <4>2, <5>2, <6>1
        <5>4. CASE i = lri
          BY <1>2, <1>4, <5>1, <5>2, <5>4 DEF to
        <5>5. CASE i > lri
          <6>1. range[lri].end <= range[i].start
            BY <1>5, <2>1, <5>5
          <6> QED
            BY <1>2, <1>4, <2>1, <5>1, <5>2, <6>1 DEF to
        <5> QED
          BY <2>1, <5>3, <5>4, <5>5
      <4> QED
        BY <4>1, <4>2
    <3>8. ASSUME found # End, NEW i \in 1 .. lri - 1 PROVE range[i].end <= found.start
      <4>1. range[i].end <= q.at.start /\ range[i].end \in Nat
        BY <1>4, <1>5, <1>6, <1>7, <2>1
      <4> QED
        BY <1>1, <1>2, <3>6, <3>8, <4>1
    <3>9. Going(p, range, entries)
      BY <2>1, <3>3, <3>4, <3>7, <3>8 DEF Going
    <3>10. Cardinality(Before(p, entries)) < Cardinality(Before(q, entries))
      BY <1>1, <3>3, <3>4, <3>6, FewerAreBefore
    <3> QED
      BY <2>1, <3>4, <3>5, <3>9, <3>10 DEF UnderWay
  <2> QED
    BY <2>2, <2>3
<1> QED
  BY <1>8, <1>9, Zenon

(* A turn of the walk ends it or brings it on.                             *)
LEMMA SteppedIs ==
  ASSUME NEW range, Sorted(range), NEW entries, InOrder(entries),
         NEW q, UnderWay(q, range, entries), NEW limit
  PROVE  \E p : \/ /\ Stepped([q |-> q, done |-> FALSE], range, entries, limit)
                        = [q |-> p, done |-> TRUE]
                   /\ Ended(p, range, entries, limit) /\ Same(p, q)
                \/ /\ Stepped([q |-> q, done |-> FALSE], range, entries, limit)
                        = [q |-> p, done |-> FALSE]
                   /\ UnderWay(p, range, entries) /\ Same(p, q)
                   /\ Ahead(p, range, entries) < Ahead(q, range, entries)
<1> DEFINE w == [q |-> q, done |-> FALSE]
           found == Added(q.found, q.at.reg)
           lri == AdvanceTo(range, q.lri, q.at.start)
           seg == range[q.lri]
<1>0. w.q = q /\ w.done = FALSE
  OBVIOUS
<1> HIDE DEF w
<1>1. /\ q.lri \in 1 .. Len(range) /\ Len(range) \in Nat /\ q \in QueryType
      /\ IsFiniteSet(entries)
  BY LenIs DEF UnderWay, Going, InOrder
<1>2. \A p : Cardinality(Before(p, entries)) \in Nat
  BY <1>1, FS_Subset, FS_CardinalityType DEF Before
<1>3. CASE q.at = End
  <2> DEFINE p == [q EXCEPT !.seen_all = TRUE]
  <2>1. Stepped(w, range, entries, limit) = [q |-> p, done |-> TRUE]
    BY <1>0, <1>3, Zenon DEF Stepped
  <2>2. Ended(p, range, entries, limit) /\ Same(p, q)
    BY <1>3, EndOfEntries, Zenon
  <2> QED
    BY <2>1, <2>2, Zenon DEF w
<1>4. CASE q.at # End /\ seg.start < q.at.stop /\ seg.end > q.at.start
  <2>0. Listing(q).found = found
    BY <1>1 DEF Listing, QueryType
  <2>1. CASE ~Contains(q.found, q.at.reg) /\ Len(found) >= limit
    <3>1. Stepped(w, range, entries, limit) = [q |-> Listing(q), done |-> TRUE]
      BY <1>0, <1>4, <2>1, Zenon DEF Stepped, Added, Listing
    <3>2. Ended(Listing(q), range, entries, limit) /\ Same(Listing(q), q)
      <4> HIDE DEF found
      <4> QED
        BY <1>4, <2>0, <2>1, EntryMet
    <3> QED
      BY <3>1, <3>2, Zenon DEF w
  <2>2. CASE ~(~Contains(q.found, q.at.reg) /\ Len(found) >= limit)
    <3> DEFINE p == Passing(q, entries)
    <3>1. Stepped(w, range, entries, limit) = [q |-> p, done |-> FALSE]
      BY <1>0, <1>4, <2>2, Zenon DEF Stepped, Added, Passing
    <3>2. /\ UnderWay(p, range, entries) /\ Same(p, q) /\ p.lri = q.lri
          /\ Cardinality(Before(p, entries)) < Cardinality(Before(q, entries))
      BY <1>4, EntryMet
    <3>3. Ahead(p, range, entries) < Ahead(q, range, entries)
      <4>1. q.lri \in Nat
        BY <1>1
      <4> HIDE DEF p
      <4> QED
        BY <1>1, <1>2, <3>2, <4>1 DEF Ahead
    <3> QED
      BY <3>1, <3>2, <3>3, Zenon DEF w
  <2> QED
    BY <2>1, <2>2
<1>5. CASE q.at # End /\ ~(seg.start < q.at.stop /\ seg.end > q.at.start)
  <2>1. CASE lri > Len(range)
    <3> DEFINE p == [q EXCEPT !.lri = lri, !.seen_all = TRUE]
    <3>1. Stepped(w, range, entries, limit) = [q |-> p, done |-> TRUE]
      BY <1>0, <1>5, <2>1, Zenon DEF Stepped
    <3>2. Ended(p, range, entries, limit) /\ Same(p, q)
      BY <1>5, <2>1, SegmentPassed, Zenon
    <3> QED
      BY <3>1, <3>2, Zenon DEF w
  <2>2. CASE ~(lri > Len(range))
    <3> DEFINE p == [q EXCEPT !.lri = lri,
                              !.at = IF range[lri].start < q.at.stop THEN q.at
                                     ELSE Find(entries, range[lri].start)]
    <3>1. Stepped(w, range, entries, limit) = [q |-> p, done |-> FALSE]
      BY <1>0, <1>5, <2>2, Zenon DEF Stepped
    <3>2. /\ UnderWay(p, range, entries) /\ Same(p, q)
          /\ \/ p.lri > q.lri /\ p.at = q.at
             \/ /\ p.lri >= q.lri
                /\ Cardinality(Before(p, entries)) < Cardinality(Before(q, entries))
      BY <1>5, <2>2, SegmentPassed, Zenon
    <3>3. Ahead(p, range, entries) < Ahead(q, range, entries)
      <4>1. p.lri \in Nat /\ q.lri \in Nat
        <5> HIDE DEF p
        <5> QED
          BY <1>1, <3>2 DEF UnderWay, QueryType
      <4>2. p.at = q.at => Before(p, entries) = Before(q, entries)
        <5> HIDE DEF p
        <5> QED
          BY DEF Before
      <4> HIDE DEF p
      <4> QED
        BY <1>1, <1>2, <3>2, <4>1, <4>2 DEF Ahead
    <3> QED
      BY <3>1, <3>2, <3>3, Zenon DEF w
  <2> QED
    BY <2>1, <2>2
<1> HIDE DEF seg
<1> QED
  BY <1>3, <1>4, <1>5, Zenon DEF w

(* The walk ends before its turns are over.                                *)
LEMMA WalkIs ==
  ASSUME NEW range, Sorted(range), NEW entries, InOrder(entries),
         NEW q, UnderWay(q, range, entries), NEW limit
  PROVE  /\ Ended(Walk(q, range, entries, limit), range, entries, limit)
         /\ Same(Walk(q, range, entries, limit), q)
<1> DEFINE N == Len(range) + Cardinality(entries) + 1
           Walks == [q : QueryType, done : BOOLEAN]
           Is(w, i) == /\ Same(w.q, q)
                       /\ w.done => Ended(w.q, range, entries, limit)
                       /\ ~w.done => /\ UnderWay(w.q, range, entries)
                                     /\ Ahead(w.q, range, entries) + i < N
           good == [i \in 0 .. N |-> {w \in Walks : Is(w, i)}]
<1>1. /\ Len(range) \in Nat /\ IsFiniteSet(entries) /\ Cardinality(entries) \in Nat
      /\ q \in QueryType
  BY LenIs, FS_CardinalityType DEF InOrder, UnderWay
<1>2. N \in Nat /\ 0 \in 0 .. N /\ N \in 0 .. N
  BY <1>1
<1>3. ASSUME NEW p, UnderWay(p, range, entries)
      PROVE  /\ Ahead(p, range, entries) \in Nat /\ Ahead(p, range, entries) > 0
             /\ Ahead(p, range, entries) < N
  <2>1. /\ Cardinality(Before(p, entries)) \in Nat
        /\ Cardinality(Before(p, entries)) <= Cardinality(entries)
    <3>1. Before(p, entries) \subseteq entries
      BY DEF Before
    <3> QED
      BY <1>1, <3>1, FS_Subset, FS_CardinalityType
  <2>2. p.lri \in 1 .. Len(range)
    BY <1>3 DEF UnderWay, Going
  <2> QED
    BY <1>1, <2>1, <2>2 DEF Ahead
<1> HIDE DEF N
<1>4. [q |-> q, done |-> FALSE] \in good[0]
  <2> DEFINE w == [q |-> q, done |-> FALSE]
  <2>1. w.q = q /\ ~w.done /\ w \in Walks
    BY <1>1
  <2>2. Is(w, 0)
    <3> HIDE DEF w
    <3> QED
      BY <1>3, <2>1 DEF Same
  <2> HIDE DEF Is, w, Walks
  <2>3. w \in good[0]
    BY <1>2, <2>1, <2>2
  <2> QED
    BY <2>3 DEF w
<1>5. ASSUME NEW i \in 1 .. N, NEW w \in good[i - 1]
      PROVE  Stepped(w, range, entries, limit) \in good[i]
  <2>1. i \in 0 .. N /\ i - 1 \in 0 .. N
    BY <1>2
  <2>2. w \in Walks /\ Is(w, i - 1)
    <3> HIDE DEF Is, Walks
    <3> QED
      BY <2>1
  <2>3. CASE w.done
    <3>1. Stepped(w, range, entries, limit) = w
      BY <2>3, Zenon DEF Stepped
    <3>2. Is(w, i)
      BY <2>2, <2>3
    <3> HIDE DEF Is, Walks
    <3> QED
      BY <2>1, <2>2, <3>1, <3>2
  <2>4. CASE ~w.done
    <3>1. w = [q |-> w.q, done |-> FALSE]
      BY <2>2, <2>4
    <3>2. UnderWay(w.q, range, entries) /\ Ahead(w.q, range, entries) + (i - 1) < N /\ Same(w.q, q)
      BY <2>2, <2>4
    <3> DEFINE u == w.q
    <3>3. UnderWay(u, range, entries) /\ w = [q |-> u, done |-> FALSE]
      BY <3>1, <3>2
    <3> HIDE DEF u
    <3>4. PICK p : \/ /\ Stepped([q |-> u, done |-> FALSE], range, entries, limit)
                           = [q |-> p, done |-> TRUE]
                      /\ Ended(p, range, entries, limit) /\ Same(p, u)
                   \/ /\ Stepped([q |-> u, done |-> FALSE], range, entries, limit)
                           = [q |-> p, done |-> FALSE]
                      /\ UnderWay(p, range, entries) /\ Same(p, u)
                      /\ Ahead(p, range, entries) < Ahead(u, range, entries)
      BY <3>3, SteppedIs, Zenon
    <3>5. CASE /\ Stepped(w, range, entries, limit) = [q |-> p, done |-> TRUE]
               /\ Ended(p, range, entries, limit) /\ Same(p, u)
      <4> DEFINE x == [q |-> p, done |-> TRUE]
      <4>1. x.q = p /\ x.done /\ x \in Walks
        BY <3>5 DEF Ended
      <4>2. Same(p, q)
        BY <3>2, <3>5 DEF Same, u
      <4>3. Is(x, i)
        <5> HIDE DEF x
        <5> QED
          BY <3>5, <4>1, <4>2
      <4> HIDE DEF Is, Walks, x
      <4>4. x \in good[i]
        BY <2>1, <4>1, <4>3
      <4> QED
        BY <3>5, <4>4 DEF x
    <3>6. CASE /\ Stepped(w, range, entries, limit) = [q |-> p, done |-> FALSE]
               /\ UnderWay(p, range, entries) /\ Same(p, u)
               /\ Ahead(p, range, entries) < Ahead(u, range, entries)
      <4> DEFINE x == [q |-> p, done |-> FALSE]
      <4>1. x.q = p /\ ~x.done /\ x \in Walks
        BY <3>6 DEF UnderWay
      <4>2. Same(p, q)
        BY <3>2, <3>6 DEF Same, u
      <4>3. Ahead(p, range, entries) + i < N
        <5>1. Ahead(p, range, entries) \in Nat /\ Ahead(u, range, entries) \in Nat
          BY <1>3, <3>3, <3>6
        <5>2. Ahead(u, range, entries) + (i - 1) < N
          BY <3>2 DEF u
        <5> QED
          BY <1>2, <2>1, <3>6, <5>1, <5>2
      <4>4. Is(x, i)
        <5> HIDE DEF x
        <5> QED
          BY <3>6, <4>1, <4>2, <4>3
      <4> HIDE DEF Is, Walks, x
      <4>5. x \in good[i]
        BY <2>1, <4>1, <4>4
      <4> QED
        BY <3>6, <4>5 DEF x
    <3> HIDE DEF good
    <3> QED
      BY <3>3, <3>4, <3>5, <3>6, Zenon
  <2> QED
    BY <2>3, <2>4
<1>6. PICK w \in good[N] : Walk(q, range, entries, limit) = w.q
  <2> HIDE DEF good
  <2>1. \A i \in 1 .. Len(range) + Cardinality(entries) + 1 : \A x \in good[i - 1] :
          Stepped(x, range, entries, limit) \in good[i]
    BY <1>5 DEF N
  <2> QED
    BY <1>1, <1>2, <1>4, <2>1, WalkRuns DEF N
<1>7. Is(w, N) /\ w \in Walks
  <2> HIDE DEF Is, Walks
  <2> QED
    BY <1>2, <1>6
<1>8. w.done
  <2> SUFFICES ASSUME ~w.done PROVE FALSE
    OBVIOUS
  <2>1. UnderWay(w.q, range, entries) /\ Ahead(w.q, range, entries) + N < N
    BY <1>7
  <2>2. Ahead(w.q, range, entries) \in Nat
    BY <1>3, <2>1
  <2> QED
    BY <1>2, <2>1, <2>2
<1> QED
  BY <1>6, <1>7, <1>8

(* The iterators are set up before any entry and any segment.              *)
LEMMA BegunIs ==
  ASSUME NEW range, Sorted(range), NEW entries, InOrder(entries), range # <<>>,
         NEW q \in QueryType, Valid(q, range, entries), ~q.checked
  PROVE  UnderWay(Begun(q, range, entries), range, entries) /\ Same(Begun(q, range, entries), q)
<1> DEFINE p == Begun(q, range, entries)
           to == range[1].start
           at == Find(entries, to)
<1>1. 1 \in 1 .. Len(range)
  BY DEF Sorted, Segments
<1>2. \A i \in 1 .. Len(range) :
        range[i].start \in Nat /\ range[i].end \in Nat /\ range[i].start < range[i].end
  BY SegmentIs
<1>3. Len(range) \in Nat /\ \A i, j \in 1 .. Len(range) : i < j => range[i].end <= range[j].start
  BY LenIs DEF Sorted
<1>4. \A e \in entries : e \in Entry /\ e.start \in Nat /\ e.stop \in Nat
  BY EntriesAreOne
<1>5. \/ at = End /\ \A e \in entries : e.stop <= to
      \/ /\ at \in entries /\ at.stop > to
         /\ \A e \in entries : e.start < at.start => e.stop <= to
  BY <1>1, <1>2, FindIs
<1> HIDE DEF at
<1>6. at \in entries \cup {End} /\ at \in Entry \cup {End}
  BY <1>4, <1>5
<1>7. /\ p \in QueryType /\ p.checked /\ ~p.seen_all /\ p.lri = 1 /\ p.at = at
      /\ p.found = q.found /\ Same(p, q) /\ q.found = <<>>
  BY <1>6 DEF QueryType, Begun, Same, Valid, at
<1> HIDE DEF p
<1>8. Sound(p, range, entries)
  BY <1>7 DEF Valid, Sound
<1>9. ASSUME NEW e \in entries, p.at = End \/ e.start < p.at.start, Meets(range, e)
      PROVE  FALSE
  <2>1. e.stop <= to
    <3>1. End \notin entries
      BY EndIsNoEntry
    <3>2. CASE at = End
      BY <1>5, <3>1, <3>2
    <3>3. CASE at # End
      BY <1>5, <1>7, <1>9, <3>3
    <3> QED
      BY <3>2, <3>3
  <2>2. PICK i \in 1 .. Len(range) : range[i].start < e.stop
    BY <1>9 DEF Meets
  <2>3. to <= range[i].start
    <3>1. CASE i = 1
      BY <1>2, <3>1
    <3>2. CASE i # 1
      <4>1. range[1].end <= range[i].start
        BY <1>1, <1>3, <3>2
      <4> QED
        BY <1>1, <1>2, <4>1
    <3> QED
      BY <3>1, <3>2
  <2> QED
    BY <1>1, <1>2, <1>4, <2>1, <2>2, <2>3
<1>10. Going(p, range, entries)
  <2>1. \A i \in 1 .. p.lri - 1 : range[i].end <= p.at.start
    BY <1>7
  <2> QED
    BY <1>1, <1>6, <1>7, <1>9, <2>1 DEF Going
<1>11. UnderWay(p, range, entries) /\ Same(p, q)
  BY <1>7, <1>8, <1>10 DEF UnderWay
<1> QED
  BY <1>11 DEF p

(* Collecting goes on until everything is found, or enough.                *)
LEMMA CollectIs ==
  ASSUME NEW range, Sorted(range), NEW entries, InOrder(entries),
         NEW q \in QueryType, Valid(q, range, entries), NEW limit
  PROVE  /\ Collect(q, range, entries, limit) \in QueryType
         /\ Valid(Collect(q, range, entries, limit), range, entries)
         /\ Same(Collect(q, range, entries, limit), q)
         /\ Enough(Collect(q, range, entries, limit), limit)
<1> DEFINE c == Collect(q, range, entries, limit)
<1>1. ASSUME NEW p, UnderWay(p, range, entries), Same(p, q), c = Walk(p, range, entries, limit)
      PROVE  c \in QueryType /\ Valid(c, range, entries) /\ Same(c, q) /\ Enough(c, limit)
  <2>1. Ended(c, range, entries, limit) /\ Same(c, p)
    <3> HIDE DEF c
    <3> QED
      BY <1>1, WalkIs
  <2> HIDE DEF c
  <2> QED
    BY <1>1, <2>1 DEF Ended, Valid, Same
<1>2. CASE q.seen_all \/ Len(q.found) >= limit
  <2>1. c = q
    BY <1>2, Zenon DEF Collect
  <2> QED
    BY <1>2, <2>1 DEF Enough, Same
<1>3. CASE ~(q.seen_all \/ Len(q.found) >= limit) /\ q.checked
  <2>1. c = Walk(q, range, entries, limit)
    BY <1>3, Zenon DEF Collect
  <2>2. UnderWay(q, range, entries) /\ Same(q, q)
    BY <1>3 DEF UnderWay, Valid, Same
  <2> HIDE DEF c
  <2>3. c \in QueryType /\ Valid(c, range, entries) /\ Same(c, q) /\ Enough(c, limit)
    BY <1>1, <2>1, <2>2
  <2> QED
    BY <2>3 DEF c
<1>4. CASE ~(q.seen_all \/ Len(q.found) >= limit) /\ ~q.checked /\ (range = <<>> \/ entries = {})
  <2>1. c = [q EXCEPT !.checked = TRUE, !.seen_all = TRUE]
    BY <1>4, Zenon DEF Collect
  <2>2. c \in QueryType /\ c.checked /\ c.seen_all /\ c.found = q.found /\ Same(c, q)
    <3> HIDE DEF c
    <3> QED
      BY <2>1 DEF QueryType, Same
  <2>3. \A w : ~InTheWay(range, entries, w)
    BY <1>4 DEF InTheWay, Meets
  <2> HIDE DEF c
  <2>4. Valid(c, range, entries) /\ Enough(c, limit)
    BY <2>2, <2>3 DEF Valid, Sound, Complete, Enough
  <2> QED
    BY <2>2, <2>4 DEF c
<1>5. CASE ~(q.seen_all \/ Len(q.found) >= limit) /\ ~q.checked /\ ~(range = <<>> \/ entries = {})
  <2>1. c = Walk(Begun(q, range, entries), range, entries, limit)
    BY <1>5, Zenon DEF Collect
  <2>2. UnderWay(Begun(q, range, entries), range, entries) /\ Same(Begun(q, range, entries), q)
    BY <1>5, BegunIs
  <2> HIDE DEF c
  <2>3. c \in QueryType /\ Valid(c, range, entries) /\ Same(c, q) /\ Enough(c, limit)
    BY <1>1, <2>1, <2>2
  <2> QED
    BY <2>3 DEF c
<1> QED
  BY <1>2, <1>3, <1>4, <1>5

(* What is kept of a query, where it says that nothing has changed.        *)
Kept(q, range, entries, asked) ==
  q \in QueryType /\ (q.tag /\ q.user_tag /\ q.lr \in asked => Valid(q, range, entries))

LEMMA QueryInitIs ==
  ASSUME NEW v \in VRegs, NEW range, NEW entries, NEW q,
         q \in QueryType, q.tag /\ q.user_tag /\ q.lr = v => Valid(q, range, entries)
  PROVE  /\ QueryInit(q, v) \in QueryType /\ QueryInit(q, v).lr = v
         /\ Valid(QueryInit(q, v), range, entries)
<1> DEFINE k == QueryInit(q, v)
<1>1. CASE q.user_tag /\ q.lr = v /\ q.tag
  BY <1>1 DEF QueryInit
<1>2. CASE ~(q.user_tag /\ q.lr = v /\ q.tag)
  <2>1. k = [Fresh EXCEPT !.lr = v, !.user_tag = TRUE]
    BY <1>2, Zenon DEF QueryInit
  <2>2. /\ k \in QueryType /\ k.lr = v /\ k.found = <<>> /\ ~k.checked /\ ~k.seen_all
    <3>1. <<>> \in Seq(VRegs)
      OBVIOUS
    <3>2. k = [lr |-> v, lri |-> 1, at |-> End, found |-> <<>>, checked |-> FALSE,
               seen_all |-> FALSE, tag |-> TRUE, user_tag |-> TRUE]
      BY <2>1, Zenon DEF Fresh
    <3> HIDE DEF k
    <3> QED
      BY <3>1, <3>2 DEF QueryType
  <2> HIDE DEF k
  <2>3. Len(<<>>) = 0
    OBVIOUS
  <2>4. Valid(k, range, entries)
    BY <2>2, <2>3 DEF Valid, Sound, Distinct, Listed
  <2> QED
    BY <2>2, <2>4 DEF k
<1> QED
  BY <1>1, <1>2

-----------------------------------------------------------------------------
(* The matrix as a whole.                                                  *)

(* Each union is in order, and holds for each register assigned to its     *)
(* unit the range it has, and nothing for the others.                      *)
Holds(m, p, rs) ==
  \A u \in Units :
    /\ InOrder(m[u])
    /\ \A v \in VRegs, x \in Nat :
         Has(m[u], v, x) <=> p[v] # None /\ u \in ToSet(UnitsOf[p[v]]) /\ Covers(rs[v], x)

(* What a query says it knows is so.                                       *)
QueriesHold(qs, m, rs, asked) ==
  \A u \in Units : Kept(qs[u], rs[qs[u].lr], m[u], asked)

Placed(p) == p \in [VRegs -> Regs \cup {None}]
Unions == [Units -> SUBSET Entry]
Queries == [Units -> QueryType]

LEMMA NothingUnified ==
  ASSUME NEW es, NEW v, NEW range, Len(range) = 0
  PROVE  Unified(es, v, range) = es
<1> DEFINE good == [i \in 0 .. 0 |-> {es}]
<1>1. Len(range) \in Nat /\ es \in good[0] /\ 1 .. Len(range) = {} /\ good[Len(range)] = {es}
  OBVIOUS
<1>2. Unified(es, v, range) \in good[Len(range)]
  <2> HIDE DEF good
  <2> QED
    BY <1>1, UnifiedRuns
<1> QED
  BY <1>1, <1>2

LEMMA NothingExtracted ==
  ASSUME NEW es, NEW range, Len(range) = 0
  PROVE  Extracted(es, range) = es
<1> DEFINE good == [i \in 0 .. 0 |-> {[entries |-> es, next |-> 1]}]
<1>1. /\ Len(range) \in Nat /\ [entries |-> es, next |-> 1] \in good[0] /\ 1 .. Len(range) = {}
      /\ good[Len(range)] = {[entries |-> es, next |-> 1]}
  OBVIOUS
<1>2. \E x \in good[Len(range)] : Extracted(es, range) = x.entries
  <2> HIDE DEF good
  <2> QED
    BY <1>1, ExtractedRuns
<1> QED
  BY <1>1, <1>2

(* A register is given to one that overlaps none of its units' entries.    *)
LEMMA AssignedIs ==
  ASSUME NEW m, NEW p, NEW rs \in [VRegs -> Ranges], Placed(p), Holds(m, p, rs),
         NEW v \in VRegs, NEW r \in Regs, p[v] = None, NEW qs,
         \A u \in ToSet(UnitsOf[r]), w \in VRegs, x \in Nat :
           Covers(rs[v], x) => ~Has(m[u], w, x)
  PROVE  /\ Holds(Assigned(m, qs, v, r, rs[v]).matrix, [p EXCEPT ![v] = r], rs)
         /\ Assigned(m, qs, v, r, rs[v]).matrix \in Unions
<1> DEFINE n == Assigned(m, qs, v, r, rs[v]).matrix
           here == ToSet(UnitsOf[r])
           given == [p EXCEPT ![v] = r]
<1>1. n = [u \in Units |-> IF u \in here THEN Unified(m[u], v, rs[v]) ELSE m[u]]
  BY DEF Assigned
<1>2. given[v] = r /\ (\A w \in VRegs : w # v => given[w] = p[w]) /\ r # None
  BY MatrixAssumption DEF Placed
<1>3. Sorted(rs[v])
  BY RangesAreSorted
<1> HIDE DEF n, given
<1>4. ASSUME NEW u \in Units
      PROVE  /\ InOrder(n[u])
             /\ \A w \in VRegs, x \in Nat :
                  Has(n[u], w, x)
                    <=> given[w] # None /\ u \in ToSet(UnitsOf[given[w]]) /\ Covers(rs[w], x)
  <2>1. InOrder(m[u])
    BY DEF Holds
  <2>2. \A w \in VRegs, x \in Nat :
          Has(m[u], w, x) <=> p[w] # None /\ u \in ToSet(UnitsOf[p[w]]) /\ Covers(rs[w], x)
    BY DEF Holds
  <2>3. CASE u \in here
    <3>1. /\ InOrder(Unified(m[u], v, rs[v]))
          /\ \A w \in VRegs, x \in Nat :
               Has(Unified(m[u], v, rs[v]), w, x)
                 <=> Has(m[u], w, x) \/ (w = v /\ Covers(rs[v], x))
      BY <1>3, <2>1, <2>3, UnifiedIs
    <3>2. n[u] = Unified(m[u], v, rs[v])
      BY <1>1, <2>3
    <3> HIDE DEF here
    <3>3. u \in ToSet(UnitsOf[given[v]])
      BY <1>2, <2>3 DEF here
    <3> QED
      BY <1>2, <2>2, <3>1, <3>2, <3>3
  <2>4. CASE u \notin here
    <3>1. n[u] = m[u]
      BY <1>1, <2>4
    <3>2. u \notin ToSet(UnitsOf[given[v]])
      BY <1>2, <2>4
    <3> HIDE DEF here
    <3> QED
      BY <1>2, <2>1, <2>2, <3>1, <3>2
  <2> QED
    BY <2>3, <2>4
<1>5. Holds(n, given, rs)
  BY <1>4 DEF Holds
<1>6. n \in Unions
  <2>1. \A u \in Units : n[u] \in SUBSET Entry
    BY <1>4 DEF InOrder
  <2> QED
    BY <1>1, <2>1 DEF Unions
<1> QED
  BY <1>5, <1>6 DEF n, given

(* A register is taken back.                                               *)
LEMMA UnassignedIs ==
  ASSUME NEW m, NEW p, NEW rs \in [VRegs -> Ranges], Placed(p), Holds(m, p, rs),
         NEW v \in VRegs, p[v] # None, NEW qs
  PROVE  /\ Holds(Unassigned(m, qs, p[v], rs[v]).matrix, [p EXCEPT ![v] = None], rs)
         /\ Unassigned(m, qs, p[v], rs[v]).matrix \in Unions
<1> DEFINE n == Unassigned(m, qs, p[v], rs[v]).matrix
           here == ToSet(UnitsOf[p[v]])
           left == [p EXCEPT ![v] = None]
<1>1. n = [u \in Units |-> IF u \in here THEN Extracted(m[u], rs[v]) ELSE m[u]]
  BY DEF Unassigned
<1>2. left[v] = None /\ (\A w \in VRegs : w # v => left[w] = p[w])
  BY DEF Placed
<1>3. Sorted(rs[v])
  BY RangesAreSorted
<1> HIDE DEF n, left
<1>4. ASSUME NEW u \in Units
      PROVE  /\ InOrder(n[u])
             /\ \A w \in VRegs, x \in Nat :
                  Has(n[u], w, x)
                    <=> left[w] # None /\ u \in ToSet(UnitsOf[left[w]]) /\ Covers(rs[w], x)
  <2>1. InOrder(m[u])
    BY DEF Holds
  <2>2. \A w \in VRegs, x \in Nat :
          Has(m[u], w, x) <=> p[w] # None /\ u \in ToSet(UnitsOf[p[w]]) /\ Covers(rs[w], x)
    BY DEF Holds
  <2>3. CASE u \in here
    <3>1. \A x \in Nat : Has(m[u], v, x) <=> Covers(rs[v], x)
      BY <2>2, <2>3
    <3>2. Extracted(m[u], rs[v]) = {e \in m[u] : e.reg # v}
      BY <1>3, <2>1, <3>1, ExtractedIs
    <3>3. n[u] = {e \in m[u] : e.reg # v}
      BY <1>1, <2>3, <3>2
    <3>4. InOrder(n[u])
      <4>1. IsFiniteSet({e \in m[u] : e.reg # v})
        BY <2>1, FS_Subset DEF InOrder
      <4> QED
        BY <2>1, <3>3, <4>1 DEF InOrder
    <3>5. \A w \in VRegs, x \in Nat : Has(n[u], w, x) <=> Has(m[u], w, x) /\ w # v
      BY <3>3 DEF Has
    <3> HIDE DEF here
    <3> QED
      BY <1>2, <2>2, <3>4, <3>5
  <2>4. CASE u \notin here
    <3>1. n[u] = m[u]
      BY <1>1, <2>4
    <3>2. \A x \in Nat : ~Has(m[u], v, x)
      BY <2>2, <2>4
    <3> HIDE DEF here
    <3> QED
      BY <1>2, <2>1, <2>2, <3>1, <3>2
  <2> QED
    BY <2>3, <2>4
<1>5. Holds(n, left, rs)
  BY <1>4 DEF Holds
<1>6. n \in Unions
  <2>1. \A u \in Units : n[u] \in SUBSET Entry
    BY <1>4 DEF InOrder
  <2> QED
    BY <1>1, <2>1 DEF Unions
<1> QED
  BY <1>5, <1>6 DEF n, left

(* The tags of the unions that change say that what was known is not.      *)
LEMMA StaleHold ==
  ASSUME NEW m, NEW n, NEW rs, NEW qs \in Queries, NEW asked, NEW units, NEW range \in Ranges,
         QueriesHold(qs, m, rs, asked),
         \A u \in Units : u \notin units \/ Len(range) = 0 => n[u] = m[u]
  PROVE  /\ QueriesHold(Stale(qs, units, range), n, rs, asked)
         /\ Stale(qs, units, range) \in Queries
<1> DEFINE new == Stale(qs, units, range)
<1>1. range # <<>> <=> Len(range) # 0
  <2>1. range \in Segments
    BY RangesAreSorted DEF Sorted
  <2> QED
    BY <2>1 DEF Segments
<1>2. new = [u \in Units |-> IF u \in units /\ range # <<>>
                             THEN [qs[u] EXCEPT !.tag = FALSE] ELSE qs[u]]
  BY DEF Stale
<1> HIDE DEF new
<1>3. ASSUME NEW u \in Units
      PROVE  new[u] \in QueryType /\ Kept(new[u], rs[new[u].lr], n[u], asked)
  <2>1. qs[u] \in QueryType /\ Kept(qs[u], rs[qs[u].lr], m[u], asked)
    BY DEF QueriesHold, Queries
  <2>2. CASE u \in units /\ range # <<>>
    <3>1. new[u] = [qs[u] EXCEPT !.tag = FALSE]
      BY <1>2, <2>2
    <3>2. new[u] \in QueryType /\ ~new[u].tag
      BY <2>1, <3>1 DEF QueryType
    <3> QED
      BY <3>2 DEF Kept
  <2>3. CASE ~(u \in units /\ range # <<>>)
    <3>1. new[u] = qs[u] /\ n[u] = m[u]
      BY <1>1, <1>2, <2>3
    <3> QED
      BY <2>1, <3>1
  <2> QED
    BY <2>2, <2>3
<1>4. new \in Queries
  BY <1>2, <1>3 DEF Queries
<1> QED
  BY <1>3, <1>4 DEF QueriesHold, new

LEMMA AssignedKnows ==
  ASSUME NEW m, NEW rs \in [VRegs -> Ranges], NEW qs \in Queries, NEW asked,
         NEW v \in VRegs, NEW r, QueriesHold(qs, m, rs, asked)
  PROVE  /\ QueriesHold(Assigned(m, qs, v, r, rs[v]).queries,
                        Assigned(m, qs, v, r, rs[v]).matrix, rs, asked)
         /\ Assigned(m, qs, v, r, rs[v]).queries \in Queries
<1> DEFINE n == Assigned(m, qs, v, r, rs[v]).matrix
           units == ToSet(UnitsOf[r])
<1>1. n = [u \in Units |-> IF u \in units THEN Unified(m[u], v, rs[v]) ELSE m[u]]
  BY DEF Assigned
<1>2. Assigned(m, qs, v, r, rs[v]).queries = Stale(qs, units, rs[v])
  BY DEF Assigned
<1> HIDE DEF n, units
<1>3. \A u \in Units : u \notin units \/ Len(rs[v]) = 0 => n[u] = m[u]
  BY <1>1, NothingUnified
<1>4. rs[v] \in Ranges
  OBVIOUS
<1>5. QueriesHold(Stale(qs, units, rs[v]), n, rs, asked) /\ Stale(qs, units, rs[v]) \in Queries
  BY <1>3, <1>4, StaleHold
<1> QED
  BY <1>2, <1>5 DEF n

LEMMA UnassignedKnows ==
  ASSUME NEW m, NEW rs \in [VRegs -> Ranges], NEW qs \in Queries, NEW asked,
         NEW v \in VRegs, NEW r, QueriesHold(qs, m, rs, asked)
  PROVE  /\ QueriesHold(Unassigned(m, qs, r, rs[v]).queries,
                        Unassigned(m, qs, r, rs[v]).matrix, rs, asked)
         /\ Unassigned(m, qs, r, rs[v]).queries \in Queries
<1> DEFINE n == Unassigned(m, qs, r, rs[v]).matrix
           units == ToSet(UnitsOf[r])
<1>1. n = [u \in Units |-> IF u \in units THEN Extracted(m[u], rs[v]) ELSE m[u]]
  BY DEF Unassigned
<1>2. Unassigned(m, qs, r, rs[v]).queries = Stale(qs, units, rs[v])
  BY DEF Unassigned
<1> HIDE DEF n, units
<1>3. \A u \in Units : u \notin units \/ Len(rs[v]) = 0 => n[u] = m[u]
  BY <1>1, NothingExtracted
<1>4. rs[v] \in Ranges
  OBVIOUS
<1>5. QueriesHold(Stale(qs, units, rs[v]), n, rs, asked) /\ Stale(qs, units, rs[v]) \in Queries
  BY <1>3, <1>4, StaleHold
<1> QED
  BY <1>2, <1>5 DEF n

(* A set as a sequence: each of its elements once.                         *)
LEMMA SetToSeqIs ==
  ASSUME NEW S, IsFiniteSet(S)
  PROVE  /\ SetToSeq(S) \in Seq(S) /\ Distinct(SetToSeq(S))
         /\ S = {SetToSeq(S)[i] : i \in 1 .. Len(SetToSeq(S))}
<1> DEFINE n == Cardinality(S)
           s == SetToSeq(S)
<1>1. n \in Nat /\ ExistsBijection(1 .. n, S)
  <2>1. PICK k \in Nat : ExistsBijection(1 .. k, S)
    BY FS_NatBijection
  <2>2. Cardinality(S) = k
    BY <2>1, FS_CountingElements
  <2> QED
    BY <2>1, <2>2
<1>2. PICK f \in [1 .. n -> S] : IsInjective(f)
  BY <1>1 DEF ExistsBijection, Bijection, Injection
<1>3. s \in [1 .. n -> S] /\ IsInjective(s)
  BY <1>2, Zenon DEF SetToSeq
<1> HIDE DEF s, n
<1>4. s \in Seq(S) /\ Len(s) = n
  BY <1>1, <1>3
<1>5. Distinct(s)
  BY <1>3, <1>4 DEF Distinct, IsInjective
<1>6. s \in Surjection(1 .. n, S)
  <2>1. IsFiniteSet(1 .. n) /\ Cardinality(1 .. n) = n
    <3>1. 1 \in Int /\ n \in Int
      BY <1>1
    <3>2. Cardinality(1 .. n) = IF 1 > n THEN 0 ELSE n - 1 + 1
      BY <3>1, FS_Interval
    <3>3. IsFiniteSet(1 .. n)
      BY <3>1, FS_Interval
    <3> QED
      BY <1>1, <3>2, <3>3
  <2>2. s \in Injection(1 .. n, S)
    BY <1>3 DEF Injection
  <2> QED
    BY <2>1, <2>2, FS_Injection DEF n
<1>7. S = {s[i] : i \in 1 .. n}
  BY <1>3, <1>6 DEF Surjection
<1> QED
  BY <1>4, <1>5, <1>7 DEF s

Without(p, gone) == [w \in VRegs |-> IF w \in gone THEN None ELSE p[w]]

(* Several are taken back, one after the other.                            *)
LEMMA AllUnassignedIs ==
  ASSUME NEW m \in Unions, NEW qs \in Queries, NEW asked, NEW S \in SUBSET VRegs,
         ranges \in [VRegs -> Ranges], Placed(phys), Holds(m, phys, ranges),
         QueriesHold(qs, m, ranges, asked), \A w \in S : phys[w] # None
  PROVE  LET g == AllUnassigned(m, qs, SetToSeq(S)) IN
           /\ g.matrix \in Unions /\ g.queries \in Queries
           /\ Holds(g.matrix, Without(phys, S), ranges)
           /\ QueriesHold(g.queries, g.matrix, ranges, asked)
<1> DEFINE gone == SetToSeq(S)
           Gone(i) == {gone[j] : j \in 1 .. i}
           Is(x, i) == /\ Holds(x.matrix, Without(phys, Gone(i)), ranges)
                       /\ QueriesHold(x.queries, x.matrix, ranges, asked)
           States == [matrix : Unions, queries : Queries]
           good == [i \in 0 .. Len(gone) |-> {x \in States : Is(x, i)}]
           base == [matrix |-> m, queries |-> qs]
<1>1. gone \in Seq(S) /\ Distinct(gone) /\ S = Gone(Len(gone))
  <2>1. IsFiniteSet(S)
    BY MatrixAssumption, FS_Subset
  <2> HIDE DEF gone
  <2> QED
    BY <2>1, SetToSeqIs DEF gone
<1> HIDE DEF gone
<1>2. Len(gone) \in Nat /\ 0 \in 0 .. Len(gone) /\ Len(gone) \in 0 .. Len(gone)
  BY <1>1
<1>3. base \in good[0]
  <2>1. base.matrix = m /\ base.queries = qs /\ base \in States
    OBVIOUS
  <2>2. Without(phys, Gone(0)) = phys
    BY DEF Without, Placed
  <2>3. Is(base, 0)
    <3> HIDE DEF base, Gone
    <3> QED
      BY <2>1, <2>2
  <2> HIDE DEF Is, States, base
  <2> QED
    BY <1>2, <2>1, <2>3
<1>4. ASSUME NEW i \in 1 .. Len(gone), NEW x \in good[i - 1]
      PROVE  Unassigned(x.matrix, x.queries, phys[gone[i]], ranges[gone[i]]) \in good[i]
  <2> DEFINE v == gone[i]
             p == Without(phys, Gone(i - 1))
             y == Unassigned(x.matrix, x.queries, phys[v], ranges[v])
  <2>1. i \in 0 .. Len(gone) /\ i - 1 \in 0 .. Len(gone)
    BY <1>2
  <2>2. x \in States /\ Is(x, i - 1)
    <3> HIDE DEF Is, States
    <3> QED
      BY <2>1
  <2>3. v \in S /\ v \in VRegs /\ phys[v] # None
    <3>1. v \in S
      BY <1>1
    <3> HIDE DEF v
    <3> QED
      BY <3>1
  <2>4. v \notin Gone(i - 1)
    <3>1. \A j \in 1 .. i - 1 : j \in 1 .. Len(gone) /\ j # i
      BY <1>2
    <3> QED
      BY <1>1, <3>1 DEF Distinct
  <2>5. \A w : w \in Gone(i) <=> w \in Gone(i - 1) \/ w = v
    <3>1. \A j : j \in 1 .. i <=> j \in 1 .. i - 1 \/ j = i
      BY <1>2
    <3> QED
      BY <3>1
  <2> HIDE DEF v, Gone
  <2>6. p[v] = phys[v] /\ Placed(p)
    BY <2>3, <2>4 DEF Without, Placed
  <2>7. [p EXCEPT ![v] = None] = Without(phys, Gone(i))
    BY <2>3, <2>5 DEF Without
  <2> HIDE DEF p
  <2>8. Holds(x.matrix, p, ranges) /\ QueriesHold(x.queries, x.matrix, ranges, asked)
    BY <2>2 DEF p
  <2>9. Holds(y.matrix, [p EXCEPT ![v] = None], ranges) /\ y.matrix \in Unions
    <3>1. /\ Holds(Unassigned(x.matrix, x.queries, p[v], ranges[v]).matrix,
                   [p EXCEPT ![v] = None], ranges)
          /\ Unassigned(x.matrix, x.queries, p[v], ranges[v]).matrix \in Unions
      BY <2>3, <2>6, <2>8, UnassignedIs
    <3> QED
      BY <2>6, <3>1
  <2>10. QueriesHold(y.queries, y.matrix, ranges, asked) /\ y.queries \in Queries
    <3>1. x.queries \in Queries
      BY <2>2
    <3> QED
      BY <2>3, <2>8, <3>1, UnassignedKnows
  <2>11. y = [matrix |-> y.matrix, queries |-> y.queries]
    BY DEF Unassigned
  <2> HIDE DEF y
  <2>12. y \in States
    BY <2>9, <2>10, <2>11
  <2>13. Is(y, i)
    BY <2>7, <2>9, <2>10
  <2> HIDE DEF Is, States
  <2>14. y \in good[i]
    BY <2>1, <2>12, <2>13
  <2> QED
    BY <2>14 DEF y, v
<1>5. AllUnassigned(m, qs, gone) \in good[Len(gone)]
  <2> HIDE DEF good
  <2>1. [matrix |-> m, queries |-> qs] \in good[0]
    BY <1>3
  <2> QED
    BY <1>2, <1>4, <2>1, AllUnassignedRuns
<1> DEFINE g == AllUnassigned(m, qs, gone)
<1>6. g \in States /\ Is(g, Len(gone))
  <2> HIDE DEF Is, States
  <2> QED
    BY <1>2, <1>5
<1> HIDE DEF g
<1>7. /\ g.matrix \in Unions /\ g.queries \in Queries
      /\ Holds(g.matrix, Without(phys, S), ranges)
      /\ QueriesHold(g.queries, g.matrix, ranges, asked)
  <2>1. Is(g, Len(gone)) /\ g \in States /\ S = Gone(Len(gone))
    BY <1>1, <1>6
  <2> HIDE DEF Gone
  <2> QED
    BY <2>1
<1> QED
  BY <1>7 DEF g, gone

-----------------------------------------------------------------------------
(* The questions.                                                          *)

(* In the way is who has a slot of the range.                              *)
LEMMA InTheWayIs ==
  ASSUME NEW range, Sorted(range), NEW entries, InOrder(entries), NEW w
  PROVE  InTheWay(range, entries, w) <=> \E x \in Nat : Covers(range, x) /\ Has(entries, w, x)
<1>1. \A e \in entries : e.start \in Nat /\ e.stop \in Nat /\ e.start < e.stop
  BY EntriesAreOne
<1>2. \A i \in 1 .. Len(range) :
        range[i].start \in Nat /\ range[i].end \in Nat /\ range[i].start < range[i].end
  BY SegmentIs
<1>3. ASSUME InTheWay(range, entries, w)
      PROVE  \E x \in Nat : Covers(range, x) /\ Has(entries, w, x)
  <2>1. PICK e \in entries, i \in 1 .. Len(range) :
          e.reg = w /\ range[i].start < e.stop /\ e.start < range[i].end
    BY <1>3 DEF InTheWay, Meets
  <2> DEFINE x == IF range[i].start <= e.start THEN e.start ELSE range[i].start
  <2>2. /\ x \in Nat /\ range[i].start <= x /\ x < range[i].end
        /\ e.start <= x /\ x < e.stop
    BY <1>1, <1>2, <2>1
  <2> HIDE DEF x
  <2>3. Covers(range, x) /\ Has(entries, w, x)
    BY <2>1, <2>2 DEF Covers, Has
  <2> QED
    BY <2>2, <2>3
<1>4. ASSUME NEW x \in Nat, Covers(range, x), Has(entries, w, x)
      PROVE  InTheWay(range, entries, w)
  <2>1. PICK i \in 1 .. Len(range) : range[i].start <= x /\ x < range[i].end
    BY <1>4 DEF Covers
  <2>2. PICK e \in entries : e.reg = w /\ e.start <= x /\ x < e.stop
    BY <1>4 DEF Has
  <2>3. range[i].start < e.stop /\ e.start < range[i].end
    BY <1>1, <1>2, <2>1, <2>2
  <2> QED
    BY <2>2, <2>3 DEF InTheWay, Meets
<1> QED
  BY <1>3, <1>4

LEMMA HoldersAre ==
  ASSUME ranges \in [VRegs -> Ranges], Holds(matrix, phys, ranges),
         NEW v \in VRegs, NEW u \in Units, NEW w \in VRegs
  PROVE  w \in Holders(v, u) <=> InTheWay(ranges[v], matrix[u], w)
<1>1. Sorted(ranges[v]) /\ Sorted(ranges[w])
  BY RangesAreSorted
<1>2. InOrder(matrix[u])
  BY DEF Holds
<1>3. \A x \in Nat : Has(matrix[u], w, x)
                       <=> phys[w] # None /\ u \in ToSet(UnitsOf[phys[w]]) /\ Covers(ranges[w], x)
  BY DEF Holds
<1>4. Meet(ranges[v], ranges[w])
        <=> \E x \in Nat : Covers(ranges[v], x) /\ Covers(ranges[w], x)
  <2>1. \A x : x \in Slots(ranges[v]) <=> x \in Nat /\ Covers(ranges[v], x)
    BY <1>1, SlotsAreCovered
  <2>2. \A x : x \in Slots(ranges[w]) <=> x \in Nat /\ Covers(ranges[w], x)
    BY <1>1, SlotsAreCovered
  <2> QED
    BY <2>1, <2>2 DEF Meet
<1>5. InTheWay(ranges[v], matrix[u], w)
        <=> \E x \in Nat : Covers(ranges[v], x) /\ Has(matrix[u], w, x)
  BY <1>1, <1>2, InTheWayIs
<1> QED
  BY <1>3, <1>4, <1>5 DEF Holders

LEMMA FoundAreCounted ==
  ASSUME NEW s \in Seq(VRegs), Distinct(s)
  PROVE  /\ Cardinality(ToSet(s)) = Len(s) /\ Len(s) \in Nat /\ IsFiniteSet(ToSet(s))
         /\ ToSet(s) \subseteq VRegs /\ \A w : w \in ToSet(s) <=> Listed(s, w)
<1>1. Len(s) \in Nat /\ DOMAIN s = 1 .. Len(s)
  OBVIOUS
<1>2. \A w : w \in ToSet(s) <=> Listed(s, w)
  BY <1>1 DEF ToSet, Listed
<1>3. \A i \in 1 .. Len(s) : s[i] \in VRegs /\ s[i] \in ToSet(s)
  BY <1>2, ElementIs DEF Listed
<1>4. s \in [1 .. Len(s) -> ToSet(s)]
  BY <1>1, <1>3
<1>5. s \in Bijection(1 .. Len(s), ToSet(s))
  <2>1. IsInjective(s)
    BY <1>1 DEF Distinct, IsInjective
  <2>2. \A w \in ToSet(s) : \E i \in 1 .. Len(s) : s[i] = w
    BY <1>2 DEF Listed
  <2> QED
    BY <1>4, <2>1, <2>2 DEF Bijection, Injection, Surjection
<1>6. ExistsBijection(1 .. Len(s), ToSet(s))
  BY <1>5 DEF ExistsBijection
<1>7. Cardinality(ToSet(s)) = Len(s) /\ IsFiniteSet(ToSet(s))
  BY <1>1, <1>6, FS_NatBijection, FS_CountingElements
<1>8. ToSet(s) \subseteq VRegs
  BY <1>2, <1>3 DEF Listed
<1> QED
  BY <1>1, <1>2, <1>7, <1>8

(* A query answered: what it knows then, and that it is enough.            *)
Answers(q, v, range, entries, limit) ==
  q \in QueryType /\ q.lr = v /\ Valid(q, range, entries) /\ Enough(q, limit)

LEMMA CollectAnswers ==
  ASSUME ranges \in [VRegs -> Ranges], Holds(matrix, phys, ranges), queries \in Queries,
         NEW asked, QueriesHold(queries, matrix, ranges, asked),
         NEW v \in VRegs, v \in asked, NEW u \in Units, NEW limit
  PROVE  Answers(Collect(QueryInit(queries[u], v), ranges[v], matrix[u], limit),
                 v, ranges[v], matrix[u], limit)
<1> DEFINE q == queries[u]
           k == QueryInit(q, v)
<1>1. Sorted(ranges[v]) /\ InOrder(matrix[u])
  BY RangesAreSorted DEF Holds
<1>2. q \in QueryType /\ (q.tag /\ q.user_tag /\ q.lr = v => Valid(q, ranges[v], matrix[u]))
  BY DEF QueriesHold, Kept
<1> HIDE DEF q
<1>3. k \in QueryType /\ k.lr = v /\ Valid(k, ranges[v], matrix[u])
  BY <1>2, QueryInitIs
<1> HIDE DEF k
<1> DEFINE c == Collect(k, ranges[v], matrix[u], limit)
<1>4. c \in QueryType /\ Valid(c, ranges[v], matrix[u]) /\ Same(c, k) /\ Enough(c, limit)
  BY <1>1, <1>3, CollectIs
<1> HIDE DEF c
<1>5. Answers(c, v, ranges[v], matrix[u], limit)
  BY <1>3, <1>4 DEF Answers, Same
<1> QED
  BY <1>5 DEF c, k, q

LEMMA QueryAnswers ==
  ASSUME ranges \in [VRegs -> Ranges], Holds(matrix, phys, ranges), queries \in Queries,
         NEW asked, QueriesHold(queries, matrix, ranges, asked),
         NEW v \in VRegs, v \in asked, NEW u \in Units, NEW limit
  PROVE  Answers(Query(queries[u], v, u, limit), v, ranges[v], matrix[u], limit)
<1> DEFINE q == queries[u]
           k == QueryInit(q, v)
<1>1. q \in QueryType /\ (q.tag /\ q.user_tag /\ q.lr = v => Valid(q, ranges[v], matrix[u]))
  BY DEF QueriesHold, Kept
<1> HIDE DEF q
<1>2. k \in QueryType /\ k.lr = v /\ Valid(k, ranges[v], matrix[u])
  BY <1>1, QueryInitIs
<1>3. CASE ~k.seen_all \/ limit < Len(k.found)
  <2>1. Query(q, v, u, limit) = Collect(k, ranges[v], matrix[u], limit)
    BY <1>3, Zenon DEF Query
  <2> QED
    BY <2>1, CollectAnswers DEF q
<1>4. CASE ~(~k.seen_all \/ limit < Len(k.found))
  <2>1. Query(q, v, u, limit) = k
    BY <1>4, Zenon DEF Query
  <2> HIDE DEF k
  <2> QED
    BY <1>2, <1>4, <2>1 DEF Answers, Enough, q
<1> QED
  BY <1>3, <1>4

LEMMA AnswersAreKept ==
  ASSUME NEW q, NEW v, NEW entries, NEW limit, NEW asked,
         Answers(q, v, ranges[v], entries, limit)
  PROVE  q \in QueryType /\ Kept(q, ranges[q.lr], entries, asked)
  BY DEF Answers, Kept

(* What is found is in the way, all of it when there are not enough.       *)
LEMMA AnswersAreHolders ==
  ASSUME ranges \in [VRegs -> Ranges], Holds(matrix, phys, ranges),
         NEW v \in VRegs, NEW u \in Units, NEW limit,
         NEW q, Answers(q, v, ranges[v], matrix[u], limit)
  PROVE  /\ q.found \in Seq(VRegs) /\ Distinct(q.found)
         /\ ToSet(q.found) \subseteq Holders(v, u)
         /\ Holders(v, u) \subseteq ToSet(q.found) \/ Len(q.found) >= limit
<1>1. q.found \in Seq(VRegs) /\ Distinct(q.found)
  BY DEF Answers, Valid, Sound, QueryType
<1>2. ToSet(q.found) \subseteq VRegs /\ \A w : w \in ToSet(q.found) <=> Listed(q.found, w)
  BY <1>1, FoundAreCounted
<1>3. \A w \in VRegs : w \in Holders(v, u) <=> InTheWay(ranges[v], matrix[u], w)
  BY HoldersAre
<1>4. Holders(v, u) \subseteq VRegs
  BY DEF Holders
<1>5. ToSet(q.found) \subseteq Holders(v, u)
  BY <1>2, <1>3 DEF Answers, Valid, Sound
<1>6. q.seen_all => Holders(v, u) \subseteq ToSet(q.found)
  BY <1>2, <1>3, <1>4 DEF Answers, Valid, Complete
<1> QED
  BY <1>1, <1>5, <1>6 DEF Answers, Enough

(* A register is free, or someone in a unit of it is in the way.           *)
LEMMA AskUnitsIs ==
  ASSUME ranges \in [VRegs -> Ranges], Holds(matrix, phys, ranges), queries \in Queries,
         NEW asked, QueriesHold(queries, matrix, ranges, asked),
         NEW v \in VRegs, v \in asked, NEW r \in Regs
  PROVE  /\ AskUnits(v, r).queries \in Queries
         /\ QueriesHold(AskUnits(v, r).queries, matrix, ranges, asked)
         /\ AskUnits(v, r).taken <=> \E u \in ToSet(UnitsOf[r]) : Holders(v, u) # {}
<1> DEFINE units == UnitsOf[r]
           q(u) == Collect(QueryInit(queries[u], v), ranges[v], matrix[u], 1)
           taken == {i \in DOMAIN units : q(units[i]).found # <<>>}
           of == {units[i] : i \in {i \in DOMAIN units : \A j \in taken : i <= j}}
           new == [u \in Units |-> IF u \in of THEN q(u) ELSE queries[u]]
<1>1. AskUnits(v, r).queries = new /\ (AskUnits(v, r).taken <=> taken # {})
  BY DEF AskUnits
<1>2. ASSUME NEW u \in Units PROVE Answers(q(u), v, ranges[v], matrix[u], 1)
  BY CollectAnswers
<1>3. units \in Seq(Units) /\ DOMAIN units = 1 .. Len(units) /\ ToSet(units) \subseteq Units
  <2>1. units \in Seq(Units)
    BY MatrixAssumption
  <2> HIDE DEF units
  <2>2. DOMAIN units = 1 .. Len(units)
    BY <2>1
  <2> QED
    BY <2>1, <2>2, ElementIs DEF ToSet
<1> HIDE DEF q
<1>4. ASSUME NEW u \in Units PROVE new[u] \in QueryType /\ Kept(new[u], ranges[new[u].lr], matrix[u], asked)
  <2>1. queries[u] \in QueryType /\ Kept(queries[u], ranges[queries[u].lr], matrix[u], asked)
    BY DEF Queries, QueriesHold
  <2>2. q(u) \in QueryType /\ Kept(q(u), ranges[q(u).lr], matrix[u], asked)
    BY <1>2, AnswersAreKept
  <2> HIDE DEF of
  <2>3. new[u] = q(u) \/ new[u] = queries[u]
    OBVIOUS
  <2> QED
    BY <2>1, <2>2, <2>3
<1>5. new \in Queries /\ QueriesHold(new, matrix, ranges, asked)
  <2>1. new = [u \in Units |-> new[u]]
    BY Zenon
  <2> HIDE DEF new
  <2> QED
    BY <1>4, <2>1 DEF Queries, QueriesHold
<1>6. ASSUME NEW u \in Units PROVE q(u).found # <<>> <=> Holders(v, u) # {}
  <2>1. /\ q(u).found \in Seq(VRegs) /\ ToSet(q(u).found) \subseteq Holders(v, u)
        /\ Holders(v, u) \subseteq ToSet(q(u).found) \/ Len(q(u).found) >= 1
    BY <1>2, AnswersAreHolders
  <2> DEFINE s == q(u).found
  <2>2. s \in Seq(VRegs) /\ ToSet(s) \subseteq Holders(v, u)
          /\ (Holders(v, u) \subseteq ToSet(s) \/ Len(s) >= 1)
    BY <2>1
  <2> HIDE DEF s
  <2>3. s # <<>> => s[1] \in ToSet(s)
    BY <2>2 DEF ToSet
  <2>4. s = <<>> => ToSet(s) = {} /\ Len(s) = 0
    BY DEF ToSet
  <2>5. s # <<>> <=> Holders(v, u) # {}
    BY <2>2, <2>3, <2>4
  <2> QED
    BY <2>5 DEF s
<1>7. taken # {} <=> \E u \in ToSet(units) : Holders(v, u) # {}
  <2>1. \A u : u \in ToSet(units) <=> \E i \in DOMAIN units : u = units[i]
    BY DEF ToSet
  <2>2. \A i \in DOMAIN units : units[i] \in Units
    BY <1>3, <2>1
  <2> HIDE DEF units
  <2> QED
    BY <1>6, <2>1, <2>2
<1> HIDE DEF new, taken
<1> QED
  BY <1>1, <1>5, <1>7 DEF units

-----------------------------------------------------------------------------
(* The invariant.  A query's tags speak for a register only while it is    *)
(* Asked: one whose range was cut back is asked about again only after the *)
(* next is dequeued, which gives up every query.                           *)

RoleOf(range) == IF Slots(range) \cap CallsAt # {} THEN Destroyed ELSE {}

MaskHolds(mask, rs, asked) == mask.reg \in asked => mask.roots = RoleOf(rs[mask.reg])

Shaped ==
  /\ ranges \in [VRegs -> Ranges] /\ Placed(phys)
  /\ turns \subseteq {v \in VRegs : phys[v] = None}
  /\ matrix \in Unions /\ queries \in Queries
  /\ reg_mask \in [reg : VRegs \cup {NoVReg}, roots : SUBSET Regs]

Inv ==
  /\ Shaped
  /\ Holds(matrix, phys, ranges)
  /\ QueriesHold(queries, matrix, ranges, Asked)
  /\ MaskHolds(reg_mask, ranges, Asked)
  /\ answer.asked = "kind" => answer.vreg \in Asked
  /\ ChecksAreTrue /\ CollectedAreInTheWay

LEMMA AskedAre ==
  ASSUME Shaped
  PROVE  Asked \subseteq VRegs
  BY DEF Asked, Shaped

(* What is known is known of fewer.                                        *)
LEMMA FewerAsked ==
  ASSUME NEW qs, NEW m, NEW rs, NEW asked, NEW fewer \in SUBSET asked
  PROVE  /\ QueriesHold(qs, m, rs, asked) => QueriesHold(qs, m, rs, fewer)
         /\ \A mask : MaskHolds(mask, rs, asked) => MaskHolds(mask, rs, fewer)
  BY DEF QueriesHold, Kept, MaskHolds

LEMMA InitHolds == Init => Inv
<1> SUFFICES ASSUME Init PROVE Inv
  OBVIOUS
<1>1. ranges \in [VRegs -> Ranges] /\ phys = [v \in VRegs |-> None] /\ turns = {}
  BY DEF Init
<1>2. \A u \in Units : matrix[u] = {}
  BY DEF Init
<1>3. Fresh \in QueryType
  <2>1. <<>> \in Seq(VRegs)
    OBVIOUS
  <2> QED
    BY <2>1 DEF Fresh, QueryType
<1>4. queries = [u \in Units |-> Fresh] /\ queries \in Queries
  BY <1>3 DEF Init, Queries
<1>5. Shaped
  BY <1>1, <1>4 DEF Init, Shaped, Placed, Unions
<1>6. Holds(matrix, phys, ranges)
  <2>1. InOrder({})
    BY FS_EmptySet DEF InOrder
  <2>2. \A v, x : ~Has({}, v, x)
    BY DEF Has
  <2> QED
    BY <1>1, <1>2, <2>1, <2>2 DEF Holds
<1>7. QueriesHold(queries, matrix, ranges, Asked)
  <2>1. ~Fresh.user_tag
    BY DEF Fresh
  <2> QED
    BY <1>3, <1>4, <2>1 DEF QueriesHold, Kept
<1>8. MaskHolds(reg_mask, ranges, Asked)
  <2>1. reg_mask.reg = NoVReg
    BY DEF Init
  <2> QED
    BY <1>5, <2>1, AskedAre, MatrixAssumption DEF MaskHolds
<1>9. answer.asked = "nothing"
  BY DEF Init, Silent
<1> QED
  BY <1>5, <1>6, <1>7, <1>8, <1>9 DEF Inv, ChecksAreTrue, CollectedAreInTheWay

(* The answer is forgotten by every step that is not a question.           *)
LEMMA SilenceHolds ==
  ASSUME answer' = Silent
  PROVE  /\ answer'.asked # "kind"
         /\ ChecksAreTrue' /\ CollectedAreInTheWay'
  BY DEF Silent, ChecksAreTrue, CollectedAreInTheWay

LEMMA TakeKeepsInv ==
  ASSUME Inv, NEW v \in VRegs, Take(v)
  PROVE  Inv'
<1> DEFINE asked == Asked'
<1>1. Shaped /\ Holds(matrix, phys, ranges) /\ QueriesHold(queries, matrix, ranges, Asked)
  BY DEF Inv
<1>2. PICK w \in VRegs, range \in Ranges : phys[w] = None /\ ranges' = [ranges EXCEPT ![w] = range]
  BY DEF Take
<1>3. /\ phys[v] = None /\ turns' = {v} /\ queries' = Invalidated(queries)
      /\ reg_mask' = [reg_mask EXCEPT !.reg = NoVReg] /\ answer' = Silent
      /\ phys' = phys /\ matrix' = matrix
  BY DEF Take
<1>4. ranges' \in [VRegs -> Ranges] /\ \A x \in VRegs : x # w => ranges'[x] = ranges[x]
  BY <1>1, <1>2 DEF Shaped
<1>5. \A u \in Units : queries'[u] \in QueryType /\ ~queries'[u].user_tag
  <2>1. \A u \in Units : queries'[u] = [queries[u] EXCEPT !.user_tag = FALSE]
    BY <1>3 DEF Invalidated
  <2>2. \A u \in Units : queries[u] \in QueryType
    BY <1>1 DEF Shaped, Queries
  <2> QED
    BY <2>1, <2>2 DEF QueryType
<1>6. queries' \in Queries
  BY <1>3, <1>5 DEF Invalidated, Queries
<1>7. Shaped'
  BY <1>1, <1>3, <1>4, <1>6, MatrixAssumption DEF Shaped, Placed
<1>8. Holds(matrix', phys', ranges')
  BY <1>1, <1>2, <1>3, <1>4 DEF Holds
<1>9. QueriesHold(queries', matrix', ranges', Asked')
  BY <1>5 DEF QueriesHold, Kept
<1>10. MaskHolds(reg_mask', ranges', Asked')
  <2>1. reg_mask'.reg = NoVReg
    BY <1>1, <1>3 DEF Shaped
  <2>2. Asked' \subseteq VRegs
    BY <1>7 DEF Asked, Shaped
  <2> QED
    BY <2>1, <2>2, MatrixAssumption DEF MaskHolds
<1> QED
  BY <1>3, <1>7, <1>8, <1>9, <1>10, SilenceHolds DEF Inv

LEMMA CheckKeepsInv ==
  ASSUME Inv, NEW v \in VRegs, NEW r \in Regs, Check(v, r)
  PROVE  Inv'
<1> DEFINE mask == RegMaskOf(v)
           clobbered == RootOf[r] \in mask.roots
           fixed == \E u \in ToSet(UnitsOf[r]) : Slots(ranges[v]) \cap FixedAt[u] # {}
           ask == AskUnits(v, r)
           held == \E u \in ToSet(UnitsOf[r]) : Holders(v, u) # {}
           kind == IF ranges[v] = <<>> THEN "Free"
                   ELSE IF clobbered THEN "RegMask"
                   ELSE IF fixed THEN "RegUnit"
                   ELSE IF ask.taken THEN "VirtReg" ELSE "Free"
<1>1. /\ Shaped /\ Holds(matrix, phys, ranges) /\ QueriesHold(queries, matrix, ranges, Asked)
      /\ MaskHolds(reg_mask, ranges, Asked)
  BY DEF Inv
<1>2. /\ v \in Asked
      /\ reg_mask' = IF ranges[v] = <<>> THEN reg_mask ELSE mask
      /\ queries' = IF ranges[v] = <<>> \/ clobbered \/ fixed THEN queries ELSE ask.queries
      /\ answer' = [asked |-> "kind", vreg |-> v, reg |-> r, kind |-> kind]
      /\ ranges' = ranges /\ phys' = phys /\ turns' = turns /\ matrix' = matrix
  BY DEF Check
<1>3. /\ ask.queries \in Queries /\ QueriesHold(ask.queries, matrix, ranges, Asked)
      /\ ask.taken <=> held
  BY <1>1, <1>2, AskUnitsIs DEF Shaped
<1>4. mask \in [reg : VRegs \cup {NoVReg}, roots : SUBSET Regs] /\ mask.roots = RoleOf(ranges[v])
        /\ mask.reg = v
  <2>1. CASE reg_mask.reg = v
    <3>1. mask = reg_mask
      BY <2>1, Zenon DEF RegMaskOf
    <3> QED
      BY <1>1, <1>2, <2>1, <3>1 DEF Shaped, MaskHolds
  <2>2. CASE reg_mask.reg # v
    <3>1. mask = [reg |-> v, roots |-> RoleOf(ranges[v])]
      BY <2>2, Zenon DEF RegMaskOf, RoleOf
    <3>2. RoleOf(ranges[v]) \in SUBSET Regs
      BY MatrixAssumption DEF RoleOf
    <3> QED
      BY <3>1, <3>2
  <2> QED
    BY <2>1, <2>2
<1> HIDE DEF mask, ask, fixed
<1>5. Shaped'
  <2>1. queries' \in Queries
    BY <1>1, <1>2, <1>3 DEF Shaped
  <2>2. reg_mask' \in [reg : VRegs \cup {NoVReg}, roots : SUBSET Regs]
    BY <1>1, <1>2, <1>4 DEF Shaped
  <2> QED
    BY <1>1, <1>2, <2>1, <2>2 DEF Shaped
<1>6. Asked' = Asked
  BY <1>2 DEF Asked
<1>7. QueriesHold(queries', matrix', ranges', Asked')
  <2>1. QueriesHold(queries', matrix, ranges, Asked)
    BY <1>1, <1>2, <1>3
  <2> QED
    BY <1>2, <1>6, <2>1
<1>8. MaskHolds(reg_mask', ranges', Asked')
  <2>1. MaskHolds(mask, ranges, Asked)
    BY <1>4 DEF MaskHolds
  <2> QED
    BY <1>1, <1>2, <1>6, <2>1
<1>9. answer'.asked = "kind" /\ answer'.vreg = v /\ answer'.reg = r /\ answer'.kind = kind
  BY <1>2
<1>10. ChecksAreTrue'
  <2> DEFINE calls == Slots(ranges[v]) \cap CallsAt # {} /\ RootOf[r] \in Destroyed
  <2>1. \A u : Holders(v, u)' = Holders(v, u)
    BY <1>2 DEF Holders
  <2>2. clobbered <=> calls
    BY <1>4 DEF RoleOf
  <2>3. ranges[v] = <<>> => ~calls /\ ~fixed /\ ~held
    <3>1. ranges[v] = <<>> => Slots(ranges[v]) = {}
      BY DEF Slots, ToSet
    <3> QED
      BY <3>1 DEF fixed, Holders, Meet
  <2>4. kind = IF calls THEN "RegMask" ELSE IF fixed THEN "RegUnit"
               ELSE IF held THEN "VirtReg" ELSE "Free"
    <3> HIDE DEF calls, clobbered, held
    <3> QED
      BY <1>3, <2>2, <2>3, Zenon
  <2>5. answer'.kind = IF calls THEN "RegMask" ELSE IF fixed THEN "RegUnit"
                       ELSE IF held THEN "VirtReg" ELSE "Free"
    BY <1>9, <2>4
  <2> HIDE DEF kind
  <2> QED
    BY <1>2, <1>9, <2>1, <2>5, Zenon DEF ChecksAreTrue, fixed
<1>11. CollectedAreInTheWay'
  BY <1>9 DEF CollectedAreInTheWay
<1>12. Holds(matrix', phys', ranges') /\ answer'.vreg \in Asked'
  BY <1>1, <1>2, <1>6, <1>9
<1> QED
  BY <1>5, <1>7, <1>8, <1>10, <1>11, <1>12 DEF Inv

LEMMA QueryVRegsKeepsInv ==
  ASSUME Inv, NEW v \in VRegs, NEW u \in Units, NEW limit \in Limits, QueryVRegs(v, u, limit)
  PROVE  Inv'
<1> DEFINE q == Query(queries[u], v, u, limit)
           holders == Holders(v, u)
<1>1. Shaped /\ Holds(matrix, phys, ranges) /\ QueriesHold(queries, matrix, ranges, Asked)
  BY DEF Inv
<1>2. /\ v \in Asked /\ queries' = [queries EXCEPT ![u] = q]
      /\ answer' = [asked |-> "vregs", vreg |-> v, unit |-> u, limit |-> limit, found |-> q.found]
      /\ ranges' = ranges /\ phys' = phys /\ turns' = turns /\ matrix' = matrix
      /\ reg_mask' = reg_mask
  BY DEF QueryVRegs
<1>3. Answers(q, v, ranges[v], matrix[u], limit)
  BY <1>1, <1>2, QueryAnswers DEF Shaped
<1> HIDE DEF q
<1>4. /\ q.found \in Seq(VRegs) /\ Distinct(q.found) /\ ToSet(q.found) \subseteq holders
      /\ holders \subseteq ToSet(q.found) \/ Len(q.found) >= limit
  BY <1>1, <1>3, AnswersAreHolders DEF Shaped
<1>5. q \in QueryType /\ Kept(q, ranges[q.lr], matrix[u], Asked)
  BY <1>3, AnswersAreKept
<1>6. queries' \in Queries /\ QueriesHold(queries', matrix, ranges, Asked)
  <2>1. queries \in [Units -> QueryType]
    BY <1>1 DEF Shaped, Queries
  <2>2. queries'[u] = q /\ \A x \in Units : x # u => queries'[x] = queries[x]
    BY <1>2, <2>1
  <2>3. queries' \in Queries
    BY <1>2, <1>5, <2>1 DEF Queries
  <2> QED
    BY <1>1, <1>5, <2>2, <2>3 DEF QueriesHold
<1>7. Asked' = Asked
  BY <1>2 DEF Asked
<1>8. Shaped'
  BY <1>1, <1>2, <1>6 DEF Shaped
<1>9. /\ answer'.asked = "vregs" /\ answer'.vreg = v /\ answer'.unit = u
      /\ answer'.limit = limit /\ answer'.found = q.found
  BY <1>2
<1>10. Cardinality(ToSet(q.found)) = Len(q.found) /\ Len(q.found) >= Min({limit, Cardinality(holders)})
  <2>1. /\ Cardinality(ToSet(q.found)) = Len(q.found) /\ Len(q.found) \in Nat
        /\ IsFiniteSet(ToSet(q.found))
    BY <1>4, FoundAreCounted
  <2>2. IsFiniteSet(holders)
    BY MatrixAssumption, FS_Subset DEF Holders
  <2>3. limit \in Nat /\ Cardinality(holders) \in Nat
    BY <2>2, FS_CardinalityType, MatrixAssumption
  <2>4. Min({limit, Cardinality(holders)}) <= limit
          /\ Min({limit, Cardinality(holders)}) <= Cardinality(holders)
          /\ Min({limit, Cardinality(holders)}) \in Nat
    <3>1. CASE limit <= Cardinality(holders)
      <4>1. Min({limit, Cardinality(holders)}) = limit
        BY <2>3, <3>1, MinIs
      <4> QED
        BY <2>3, <3>1, <4>1
    <3>2. CASE ~(limit <= Cardinality(holders))
      <4>1. Min({limit, Cardinality(holders)}) = Cardinality(holders)
        BY <2>3, <3>2, MinIs
      <4> QED
        BY <2>3, <3>2, <4>1
    <3> QED
      BY <3>1, <3>2
  <2>5. holders \subseteq ToSet(q.found) => Cardinality(holders) = Len(q.found)
    <3>1. holders \subseteq ToSet(q.found) => holders = ToSet(q.found)
      BY <1>4, Zenon
    <3> QED
      BY <2>1, <3>1
  <2> QED
    BY <1>4, <2>1, <2>3, <2>4, <2>5
<1>11. CollectedAreInTheWay'
  <2>1. Holders(v, u)' = holders
    BY <1>2 DEF Holders
  <2> HIDE DEF holders
  <2>2. /\ ToSet(answer'.found) \subseteq holders
        /\ Cardinality(ToSet(answer'.found)) = Len(answer'.found)
        /\ Len(answer'.found) >= Min({answer'.limit, Cardinality(holders)})
    BY <1>4, <1>9, <1>10
  <2> QED
    BY <1>9, <2>1, <2>2, Zenon DEF CollectedAreInTheWay
<1>12. ChecksAreTrue' /\ answer'.asked # "kind"
  BY <1>9 DEF ChecksAreTrue
<1>13. /\ Holds(matrix', phys', ranges') /\ QueriesHold(queries', matrix', ranges', Asked')
       /\ MaskHolds(reg_mask', ranges', Asked')
  BY <1>1, <1>2, <1>6, <1>7 DEF Inv
<1> QED
  BY <1>8, <1>11, <1>12, <1>13 DEF Inv

(* What was found free is in nobody's way.                                 *)
LEMMA FreeIsFree ==
  ASSUME Inv, NEW v \in VRegs, NEW r \in Regs, Says(v, r, "Free")
  PROVE  v \in Asked /\ \A u \in ToSet(UnitsOf[r]) : Holders(v, u) = {}
<1>1. /\ answer.asked = "kind" /\ answer.vreg = v /\ answer.reg = r /\ answer.kind = "Free"
  BY DEF Says
<1>2. v \in Asked
  BY <1>1 DEF Inv
<1>3. ChecksAreTrue
  BY DEF Inv
<1>4. ~(\E u \in ToSet(UnitsOf[r]) : Holders(v, u) # {})
  BY <1>1, <1>3, Zenon DEF ChecksAreTrue
<1> QED
  BY <1>2, <1>4

LEMMA UnitsAreUnits ==
  ASSUME NEW r \in Regs
  PROVE  ToSet(UnitsOf[r]) \subseteq Units
<1>1. UnitsOf[r] \in Seq(Units)
  BY MatrixAssumption
<1> DEFINE s == UnitsOf[r]
<1> HIDE DEF s
<1>2. s \in Seq(Units) => ToSet(s) \subseteq Units
  BY ElementIs DEF ToSet
<1> QED
  BY <1>1, <1>2 DEF s

(* Who shares no slot of the range has none of its slots.                  *)
LEMMA NobodyThere ==
  ASSUME Shaped, Holds(matrix, phys, ranges), NEW v \in VRegs, NEW u \in Units,
         NEW w \in VRegs, w \notin Holders(v, u),
         NEW x \in Nat, Covers(ranges[v], x)
  PROVE  ~Has(matrix[u], w, x)
<1>1. Sorted(ranges[v]) /\ InOrder(matrix[u])
  BY RangesAreSorted DEF Holds, Shaped
<1>2. ~InTheWay(ranges[v], matrix[u], w)
  BY HoldersAre DEF Shaped
<1> QED
  BY <1>1, <1>2, InTheWayIs

(* v is given r: nobody has its slots in the units of r.                   *)
LEMMA GivingKeepsInv ==
  ASSUME Inv, NEW v \in VRegs, NEW r \in Regs, v \in Asked,
         NEW m \in Unions, NEW qs \in Queries, NEW p, Placed(p), p[v] = None,
         Holds(m, p, ranges), QueriesHold(qs, m, ranges, Asked),
         \A u \in ToSet(UnitsOf[r]), w \in VRegs, x \in Nat :
           Covers(ranges[v], x) => ~Has(m[u], w, x),
         phys' = [p EXCEPT ![v] = r],
         matrix' = Assigned(m, qs, v, r, ranges[v]).matrix,
         queries' = Assigned(m, qs, v, r, ranges[v]).queries,
         ranges' = ranges, reg_mask' = reg_mask, answer' = Silent,
         turns' \subseteq {w \in VRegs : phys'[w] = None}, Asked' \subseteq Asked
  PROVE  Inv'
<1>1. Shaped /\ MaskHolds(reg_mask, ranges, Asked)
  BY DEF Inv
<1>2. Holds(matrix', phys', ranges') /\ matrix' \in Unions
  BY <1>1, AssignedIs DEF Shaped
<1>3. QueriesHold(queries', matrix', ranges', Asked) /\ queries' \in Queries
  BY <1>1, AssignedKnows DEF Shaped
<1>4. Placed(phys')
  BY DEF Placed
<1>5. Shaped'
  BY <1>1, <1>2, <1>3, <1>4 DEF Shaped
<1>6. QueriesHold(queries', matrix', ranges', Asked') /\ MaskHolds(reg_mask', ranges', Asked')
  BY <1>1, <1>3, FewerAsked
<1> QED
  BY <1>2, <1>5, <1>6, SilenceHolds DEF Inv

LEMMA AssignKeepsInv ==
  ASSUME Inv, NEW v \in VRegs, NEW r \in Regs, Assign(v, r)
  PROVE  Inv'
<1>1. /\ Shaped /\ Holds(matrix, phys, ranges) /\ QueriesHold(queries, matrix, ranges, Asked)
      /\ matrix \in Unions /\ queries \in Queries /\ Placed(phys)
  BY DEF Inv, Shaped
<1>2. /\ Says(v, r, "Free") /\ phys[v] = None /\ phys' = [phys EXCEPT ![v] = r]
      /\ turns' = turns \ {v} /\ answer' = Silent /\ ranges' = ranges /\ reg_mask' = reg_mask
      /\ matrix' = Assigned(matrix, queries, v, r, ranges[v]).matrix
      /\ queries' = Assigned(matrix, queries, v, r, ranges[v]).queries
  BY DEF Assign
<1>3. v \in Asked /\ \A u \in ToSet(UnitsOf[r]) : Holders(v, u) = {}
  BY <1>2, FreeIsFree
<1>4. \A u \in ToSet(UnitsOf[r]), w \in VRegs, x \in Nat :
        Covers(ranges[v], x) => ~Has(matrix[u], w, x)
  BY <1>1, <1>3, UnitsAreUnits, NobodyThere
<1>5. \A w \in VRegs : phys'[w] = IF w = v THEN r ELSE phys[w]
  BY <1>1, <1>2 DEF Placed
<1>6. turns' \subseteq {w \in VRegs : phys'[w] = None}
  BY <1>1, <1>2, <1>5 DEF Shaped
<1>7. Asked' \subseteq Asked
  BY <1>2, <1>3, <1>5 DEF Asked
<1> QED
  BY <1>1, <1>2, <1>3, <1>4, <1>6, <1>7, GivingKeepsInv

LEMMA MoveKeepsInv ==
  ASSUME Inv, NEW v \in VRegs, NEW r \in Regs, Move(v, r)
  PROVE  Inv'
<1> DEFINE gone == Unassigned(matrix, queries, phys[v], ranges[v])
           p == [phys EXCEPT ![v] = None]
<1>1. /\ Shaped /\ Holds(matrix, phys, ranges) /\ QueriesHold(queries, matrix, ranges, Asked)
      /\ matrix \in Unions /\ queries \in Queries /\ Placed(phys)
      /\ ranges \in [VRegs -> Ranges]
  BY DEF Inv, Shaped
<1>2. /\ Says(v, r, "Free") /\ phys[v] # None /\ phys' = [phys EXCEPT ![v] = r]
      /\ turns' = turns /\ answer' = Silent /\ ranges' = ranges /\ reg_mask' = reg_mask
      /\ matrix' = Assigned(gone.matrix, gone.queries, v, r, ranges[v]).matrix
      /\ queries' = Assigned(gone.matrix, gone.queries, v, r, ranges[v]).queries
  BY DEF Move
<1>3. v \in Asked /\ \A u \in ToSet(UnitsOf[r]) : Holders(v, u) = {}
  BY <1>2, FreeIsFree
<1>4. Holds(gone.matrix, p, ranges) /\ gone.matrix \in Unions
  BY <1>1, <1>2, UnassignedIs
<1>5. QueriesHold(gone.queries, gone.matrix, ranges, Asked) /\ gone.queries \in Queries
  BY <1>1, UnassignedKnows
<1> HIDE DEF gone
<1>6. /\ Placed(p) /\ p[v] = None /\ phys' = [p EXCEPT ![v] = r]
      /\ \A w \in VRegs : w # v => p[w] = phys[w]
  BY <1>1, <1>2 DEF Placed
<1> HIDE DEF p
<1>7. ASSUME NEW u \in ToSet(UnitsOf[r]), NEW w \in VRegs, NEW x \in Nat, Covers(ranges[v], x)
      PROVE  ~Has(gone.matrix[u], w, x)
  <2>1. u \in Units
    BY UnitsAreUnits
  <2>2. ~Has(matrix[u], w, x)
    BY <1>1, <1>3, <1>7, <2>1, NobodyThere
  <2>3. /\ Has(gone.matrix[u], w, x)
             <=> p[w] # None /\ u \in ToSet(UnitsOf[p[w]]) /\ Covers(ranges[w], x)
        /\ Has(matrix[u], w, x)
             <=> phys[w] # None /\ u \in ToSet(UnitsOf[phys[w]]) /\ Covers(ranges[w], x)
    BY <1>1, <1>4, <2>1 DEF Holds
  <2> QED
    BY <1>6, <2>2, <2>3
<1>8. \A w \in VRegs : phys'[w] = IF w = v THEN r ELSE phys[w]
  BY <1>1, <1>2 DEF Placed
<1>9. turns' \subseteq {w \in VRegs : phys'[w] = None}
  BY <1>1, <1>2, <1>8 DEF Shaped
<1>10. Asked' \subseteq Asked
  BY <1>2, <1>3, <1>8 DEF Asked
<1> QED
  BY <1>2, <1>3, <1>4, <1>5, <1>6, <1>7, <1>9, <1>10, GivingKeepsInv

(* A range that has a register is unassigned, and is not asked of.         *)
LEMMA ShrinkOfPlacedKeepsInv ==
  ASSUME Inv, NEW w \in VRegs, NEW range \in Ranges, Shrink(w, range), phys[w] # None
  PROVE  Inv'
<1> DEFINE gone == Unassigned(matrix, queries, phys[w], ranges[w])
<1>1. /\ Shaped /\ Holds(matrix, phys, ranges) /\ QueriesHold(queries, matrix, ranges, Asked)
      /\ matrix \in Unions /\ queries \in Queries /\ Placed(phys)
      /\ ranges \in [VRegs -> Ranges] /\ MaskHolds(reg_mask, ranges, Asked)
  BY DEF Inv, Shaped
<1>2. /\ phys[w] # None /\ ranges' = [ranges EXCEPT ![w] = range]
      /\ phys' = [phys EXCEPT ![w] = None]
      /\ matrix' = gone.matrix /\ queries' = gone.queries /\ answer' = Silent
      /\ turns' = turns /\ reg_mask' = reg_mask
  BY DEF Shrink
<1>3. Holds(matrix', phys', ranges) /\ matrix' \in Unions
  BY <1>1, <1>2, UnassignedIs
<1>4. QueriesHold(queries', matrix', ranges, Asked) /\ queries' \in Queries
  BY <1>1, <1>2, UnassignedKnows
<1> HIDE DEF gone
<1>5. /\ phys'[w] = None /\ \A v \in VRegs : v # w => phys'[v] = phys[v]
      /\ ranges' \in [VRegs -> Ranges] /\ \A v \in VRegs : v # w => ranges'[v] = ranges[v]
      /\ Placed(phys')
  BY <1>1, <1>2 DEF Placed
<1>6. w \notin turns /\ turns \subseteq VRegs
  BY <1>1, <1>2 DEF Shaped
<1>7. Asked' \subseteq Asked /\ w \notin Asked' /\ Asked' \subseteq VRegs
  BY <1>2, <1>5, <1>6 DEF Asked
<1>8. Shaped'
  BY <1>1, <1>2, <1>3, <1>4, <1>5 DEF Shaped
<1>9. Holds(matrix', phys', ranges')
  BY <1>3, <1>5 DEF Holds
<1>10. QueriesHold(queries', matrix', ranges', Asked')
  <2>1. \A v \in Asked' : ranges'[v] = ranges[v]
    BY <1>5, <1>7
  <2>2. QueriesHold(queries', matrix', ranges, Asked')
    BY <1>4, <1>7, FewerAsked
  <2> QED
    BY <2>1, <2>2 DEF QueriesHold, Kept
<1>11. MaskHolds(reg_mask', ranges', Asked')
  BY <1>1, <1>2, <1>5, <1>7 DEF MaskHolds
<1> QED
  BY <1>2, <1>8, <1>9, <1>10, <1>11, SilenceHolds DEF Inv

(* One that has none is in no union, and what is known of it is not kept.  *)
LEMMA ShrinkOfUnplacedKeepsInv ==
  ASSUME Inv, NEW w \in VRegs, NEW range \in Ranges, Shrink(w, range), phys[w] = None
  PROVE  Inv'
<1>1. /\ Shaped /\ Holds(matrix, phys, ranges) /\ QueriesHold(queries, matrix, ranges, Asked)
      /\ Placed(phys) /\ ranges \in [VRegs -> Ranges] /\ MaskHolds(reg_mask, ranges, Asked)
  BY DEF Inv, Shaped
<1>2. /\ w \in turns => ~Remembered(w)
      /\ ranges' = [ranges EXCEPT ![w] = range] /\ phys' = [phys EXCEPT ![w] = None]
      /\ matrix' = matrix /\ queries' = queries /\ answer' = Silent
      /\ turns' = turns /\ reg_mask' = reg_mask
  BY DEF Shrink
<1>3. phys' = phys
  BY <1>1, <1>2 DEF Placed
<1>4. ranges' \in [VRegs -> Ranges] /\ \A v \in VRegs : v # w => ranges'[v] = ranges[v]
  BY <1>1, <1>2
<1>5. Asked' = Asked /\ (w \in Asked => w \in turns) /\ Asked \subseteq VRegs
  BY <1>1, <1>2, <1>3 DEF Asked, Shaped
<1>6. Shaped'
  BY <1>1, <1>2, <1>3, <1>4 DEF Shaped
<1>7. Holds(matrix', phys', ranges')
  BY <1>1, <1>2, <1>3, <1>4 DEF Holds
<1>8. QueriesHold(queries', matrix', ranges', Asked')
  <2>1. ASSUME NEW u \in Units
        PROVE  Kept(queries[u], ranges'[queries[u].lr], matrix[u], Asked)
    <3>1. Kept(queries[u], ranges[queries[u].lr], matrix[u], Asked)
      BY <1>1 DEF QueriesHold
    <3>2. CASE queries[u].lr = w
      BY <1>2, <1>5, <3>1, <3>2 DEF Kept, Remembered
    <3>3. CASE queries[u].lr # w
      BY <1>4, <1>5, <3>1, <3>3 DEF Kept
    <3> QED
      BY <3>2, <3>3
  <2> QED
    BY <1>2, <1>5, <2>1 DEF QueriesHold
<1>9. MaskHolds(reg_mask', ranges', Asked')
  <2>1. reg_mask.reg \in Asked => reg_mask.reg # w
    BY <1>2, <1>5 DEF Remembered
  <2> QED
    BY <1>1, <1>2, <1>4, <1>5, <2>1 DEF MaskHolds
<1> QED
  BY <1>2, <1>6, <1>7, <1>8, <1>9, SilenceHolds DEF Inv

(* Asked for all there are, a query finds everyone in the way.             *)
LEMMA AllAreFound ==
  ASSUME Shaped, Holds(matrix, phys, ranges), NEW v \in VRegs, NEW u \in Units,
         NEW q, Answers(q, v, ranges[v], matrix[u], All)
  PROVE  ToSet(q.found) = Holders(v, u)
<1>1. /\ q.found \in Seq(VRegs) /\ Distinct(q.found)
      /\ ToSet(q.found) \subseteq Holders(v, u)
      /\ Holders(v, u) \subseteq ToSet(q.found) \/ Len(q.found) >= All
  BY AnswersAreHolders DEF Shaped
<1>2. /\ Cardinality(ToSet(q.found)) = Len(q.found) /\ Len(q.found) \in Nat
      /\ ToSet(q.found) \subseteq VRegs
  BY <1>1, FoundAreCounted
<1>3. Cardinality(ToSet(q.found)) <= Cardinality(VRegs) /\ Cardinality(VRegs) \in Nat
  BY <1>2, FS_Subset, FS_CardinalityType, MatrixAssumption
<1>4. All \in Nat /\ All > Cardinality(VRegs)
  BY MatrixAssumption
<1>5. ~(Len(q.found) >= All)
  BY <1>2, <1>3, <1>4
<1> QED
  BY <1>1, <1>5, Zenon

LEMMA EvictKeepsInv ==
  ASSUME Inv, NEW v \in VRegs, NEW r \in Regs, NEW recolor \in BOOLEAN, Evict(v, r, recolor)
  PROVE  Inv'
<1> DEFINE units == ToSet(UnitsOf[r])
           now == [u \in Units |-> IF u \in units THEN Query(queries[u], v, u, All) ELSE queries[u]]
           inTheWay == UNION {ToSet(now[u].found) : u \in units}
           gone == AllUnassigned(matrix, now, SetToSeq(inTheWay))
           p == Without(phys, inTheWay)
<1>1. /\ Shaped /\ Holds(matrix, phys, ranges) /\ QueriesHold(queries, matrix, ranges, Asked)
      /\ matrix \in Unions /\ queries \in Queries /\ Placed(phys)
      /\ ranges \in [VRegs -> Ranges]
  BY DEF Inv, Shaped
<1>2. /\ Says(v, r, "VirtReg") /\ phys[v] = None
      /\ phys' = [w \in VRegs |-> IF w = v THEN r ELSE IF w \in inTheWay THEN None ELSE phys[w]]
      /\ turns' = (turns \ {v}) \cup IF recolor THEN inTheWay ELSE {}
      /\ matrix' = Assigned(gone.matrix, gone.queries, v, r, ranges[v]).matrix
      /\ queries' = Assigned(gone.matrix, gone.queries, v, r, ranges[v]).queries
      /\ answer' = Silent /\ ranges' = ranges /\ reg_mask' = reg_mask
  BY DEF Evict
<1>3. v \in Asked
  BY <1>2 DEF Says, Inv
<1>4. units \subseteq Units
  BY UnitsAreUnits
<1> HIDE DEF units
<1>5. ASSUME NEW u \in units PROVE Answers(now[u], v, ranges[v], matrix[u], All)
  <2>1. u \in Units /\ now[u] = Query(queries[u], v, u, All)
    BY <1>4
  <2> HIDE DEF now
  <2> QED
    BY <1>1, <1>3, <2>1, QueryAnswers
<1>6. now \in Queries /\ QueriesHold(now, matrix, ranges, Asked)
  <2>1. ASSUME NEW u \in Units
        PROVE  now[u] \in QueryType /\ Kept(now[u], ranges[now[u].lr], matrix[u], Asked)
    <3>1. CASE u \in units
      <4> HIDE DEF now
      <4> QED
        BY <1>5, <3>1, AnswersAreKept
    <3>2. CASE u \notin units
      <4>1. now[u] = queries[u]
        BY <3>2
      <4> HIDE DEF now
      <4> QED
        BY <1>1, <4>1 DEF Queries, QueriesHold
    <3> QED
      BY <3>1, <3>2
  <2>2. now = [u \in Units |-> now[u]]
    BY Zenon
  <2> HIDE DEF now
  <2> QED
    BY <2>1, <2>2 DEF Queries, QueriesHold
<1>7. ASSUME NEW u \in units PROVE ToSet(now[u].found) = Holders(v, u)
  <2>1. u \in Units
    BY <1>4
  <2> HIDE DEF now
  <2> QED
    BY <1>1, <1>5, <2>1, AllAreFound
<1> HIDE DEF now
<1>8. \A w : w \in inTheWay <=> \E u \in units : w \in Holders(v, u)
  BY <1>7
<1> HIDE DEF inTheWay
<1>9. inTheWay \in SUBSET VRegs /\ (\A w \in inTheWay : phys[w] # None) /\ v \notin inTheWay
  BY <1>2, <1>8 DEF Holders
<1>10. /\ gone.matrix \in Unions /\ gone.queries \in Queries
       /\ Holds(gone.matrix, p, ranges) /\ QueriesHold(gone.queries, gone.matrix, ranges, Asked)
  <2> HIDE DEF p, gone
  <2> QED
    BY <1>1, <1>6, <1>9, AllUnassignedIs, Zenon DEF p, gone
<1> HIDE DEF gone
<1>11. /\ p[v] = None /\ Placed(p)
       /\ \A w \in VRegs : p[w] = IF w \in inTheWay THEN None ELSE phys[w]
  BY <1>1, <1>2, <1>9 DEF Without, Placed
<1>12. phys' = [p EXCEPT ![v] = r]
  <2>1. \A w \in VRegs : phys'[w] = [p EXCEPT ![v] = r][w]
    BY <1>2 DEF Without
  <2>2. phys' = [w \in VRegs |-> phys'[w]]
    BY <1>2, Zenon
  <2>3. [p EXCEPT ![v] = r] = [w \in VRegs |-> [p EXCEPT ![v] = r][w]]
    BY <1>11 DEF Placed
  <2> HIDE DEF p
  <2> QED
    BY <2>1, <2>2, <2>3
<1> HIDE DEF p
<1>13. ASSUME NEW u \in units, NEW w \in VRegs, NEW x \in Nat, Covers(ranges[v], x)
       PROVE  ~Has(gone.matrix[u], w, x)
  <2>1. u \in Units
    BY <1>4
  <2>2. w \notin inTheWay => ~Has(matrix[u], w, x)
    BY <1>1, <1>8, <1>13, <2>1, NobodyThere
  <2>3. /\ Has(gone.matrix[u], w, x)
             <=> p[w] # None /\ u \in ToSet(UnitsOf[p[w]]) /\ Covers(ranges[w], x)
        /\ Has(matrix[u], w, x)
             <=> phys[w] # None /\ u \in ToSet(UnitsOf[phys[w]]) /\ Covers(ranges[w], x)
    BY <1>1, <1>10, <2>1 DEF Holds
  <2> QED
    BY <1>11, <2>2, <2>3
<1>14. \A w \in VRegs : phys'[w] = IF w = v THEN r ELSE IF w \in inTheWay THEN None ELSE phys[w]
  BY <1>2
<1>15. turns' \subseteq {w \in VRegs : phys'[w] = None}
  BY <1>1, <1>2, <1>9, <1>14 DEF Shaped
<1>16. Asked' \subseteq Asked
  <2>1. \A w \in VRegs : phys'[w] # None => w = v \/ phys[w] # None
    BY <1>14
  <2>2. turns' \subseteq turns \cup inTheWay
    BY <1>2
  <2> QED
    BY <1>3, <1>9, <2>1, <2>2 DEF Asked
<1> QED
  BY <1>1, <1>2, <1>3, <1>10, <1>11, <1>12, <1>13, <1>15, <1>16, GivingKeepsInv DEF units

LEMMA StutterKeepsInv ==
  ASSUME Inv, UNCHANGED vars
  PROVE  Inv'
<1>1. /\ ranges' = ranges /\ phys' = phys /\ turns' = turns /\ matrix' = matrix
      /\ queries' = queries /\ reg_mask' = reg_mask /\ answer' = answer
  BY DEF vars
<1>2. Asked' = Asked /\ \A v, u : Holders(v, u)' = Holders(v, u)
  BY <1>1 DEF Asked, Holders
<1>3. Shaped'
  BY <1>1 DEF Inv, Shaped
<1>4. ChecksAreTrue'
  BY <1>1, <1>2, Zenon DEF Inv, ChecksAreTrue
<1>5. CollectedAreInTheWay'
  BY <1>1, <1>2, Zenon DEF Inv, CollectedAreInTheWay
<1> QED
  BY <1>1, <1>2, <1>3, <1>4, <1>5 DEF Inv

-----------------------------------------------------------------------------
(* The unions hold what is assigned, and queries and the regmask say of    *)
(* what can be asked only what is so, always.                              *)
THEOREM LiveRegMatrixInvariant == Spec => []Inv
<1>1. Inv /\ [Next]_vars => Inv'
  <2> SUFFICES ASSUME Inv, [Next]_vars PROVE Inv'
    OBVIOUS
  <2>1. CASE \E v \in VRegs : Take(v)
    BY <2>1, TakeKeepsInv
  <2>2. CASE \E v \in VRegs, r \in Regs : Check(v, r)
    BY <2>2, CheckKeepsInv
  <2>3. CASE \E v \in VRegs, r \in Regs : Assign(v, r)
    BY <2>3, AssignKeepsInv
  <2>4. CASE \E v \in VRegs, r \in Regs : Move(v, r)
    BY <2>4, MoveKeepsInv
  <2>5. CASE \E v \in VRegs, r \in Regs, recolor \in BOOLEAN : Evict(v, r, recolor)
    BY <2>5, EvictKeepsInv
  <2>6. CASE \E v \in VRegs, u \in Units, limit \in Limits : QueryVRegs(v, u, limit)
    BY <2>6, QueryVRegsKeepsInv
  <2>7. CASE \E w \in VRegs, range \in Ranges : Shrink(w, range)
    BY <2>7, ShrinkOfPlacedKeepsInv, ShrinkOfUnplacedKeepsInv
  <2>8. CASE UNCHANGED vars
    BY <2>8, StutterKeepsInv
  <2> QED
    BY <2>1, <2>2, <2>3, <2>4, <2>5, <2>6, <2>7, <2>8, Zenon DEF Next
<1> QED
  BY <1>1, InitHolds, PTL DEF Spec

(* Registers that are being placed have no place, and what a query has     *)
(* found are registers.                                                    *)
THEOREM LiveRegMatrixTyped == Spec => []TypeOK
<1>1. Inv => TypeOK
  <2> SUFFICES ASSUME Inv PROVE TypeOK
    OBVIOUS
  <2>1. Shaped /\ Holds(matrix, phys, ranges)
    BY DEF Inv
  <2>2. ASSUME NEW u \in Units
        PROVE  /\ \A e \in matrix[u] : e.reg \in VRegs /\ e.start < e.stop
               /\ queries[u].found \in Seq(VRegs)
    <3>1. InOrder(matrix[u]) /\ queries[u] \in QueryType
      BY <2>1 DEF Holds, Shaped, Queries
    <3>2. queries[u].found \in Seq(VRegs)
      BY <3>1 DEF QueryType
    <3> QED
      BY <3>1, <3>2, EntriesAreOne
  <2> QED
    BY <2>1, <2>2 DEF TypeOK, Shaped, Placed
<1> QED
  BY <1>1, LiveRegMatrixInvariant, PTL

(* A unit's union holds the ranges of the registers assigned to it as they *)
(* are now and nothing else, whatever was joined on the way.               *)
THEOREM LiveRegMatrixUnionsHold == Spec => []UnionsHoldWhatIsAssigned
<1>1. Inv => UnionsHoldWhatIsAssigned
  <2> SUFFICES ASSUME Inv, NEW u \in Units
               PROVE  /\ \A v \in VRegs :
                           UNION {e.start .. e.stop - 1 : e \in {e \in matrix[u] : e.reg = v}}
                             = IF phys[v] # None /\ u \in ToSet(UnitsOf[phys[v]])
                               THEN Slots(ranges[v]) ELSE {}
                      /\ \A e, f \in matrix[u] :
                           \/ e = f \/ e.stop < f.start \/ f.stop < e.start
                           \/ (e.stop = f.start \/ f.stop = e.start) /\ e.reg # f.reg
    BY Zenon DEF UnionsHoldWhatIsAssigned
  <2>1. Shaped /\ Holds(matrix, phys, ranges) /\ InOrder(matrix[u])
    BY DEF Inv, Holds
  <2>2. ASSUME NEW v \in VRegs
        PROVE  UNION {e.start .. e.stop - 1 : e \in {e \in matrix[u] : e.reg = v}}
                 = IF phys[v] # None /\ u \in ToSet(UnitsOf[phys[v]])
                   THEN Slots(ranges[v]) ELSE {}
    <3> DEFINE slots == UNION {e.start .. e.stop - 1 : e \in {e \in matrix[u] : e.reg = v}}
    <3>1. \A e \in matrix[u] : e.start \in Nat /\ e.stop \in Nat
      BY <2>1, EntriesAreOne
    <3>2. \A x : x \in slots <=> x \in Nat /\ Has(matrix[u], v, x)
      BY <3>1 DEF Has
    <3>3. \A x : x \in Slots(ranges[v]) <=> x \in Nat /\ Covers(ranges[v], x)
      BY <2>1, RangesAreSorted, SlotsAreCovered DEF Shaped
    <3>4. \A x \in Nat : Has(matrix[u], v, x)
            <=> phys[v] # None /\ u \in ToSet(UnitsOf[phys[v]]) /\ Covers(ranges[v], x)
      BY <2>1 DEF Holds
    <3> HIDE DEF slots
    <3>5. slots = IF phys[v] # None /\ u \in ToSet(UnitsOf[phys[v]]) THEN Slots(ranges[v]) ELSE {}
      BY <3>2, <3>3, <3>4
    <3> QED
      BY <3>5 DEF slots
  <2>3. ASSUME NEW e \in matrix[u], NEW f \in matrix[u]
        PROVE  \/ e = f \/ e.stop < f.start \/ f.stop < e.start
               \/ (e.stop = f.start \/ f.stop = e.start) /\ e.reg # f.reg
    BY <2>1 DEF InOrder, Apart
  <2> QED
    BY <2>2, <2>3
<1> QED
  BY <1>1, LiveRegMatrixInvariant, PTL

(* A check is answered from what queries have kept, and is right.          *)
THEOREM LiveRegMatrixChecksAreTrue == Spec => []ChecksAreTrue
<1>1. Inv => ChecksAreTrue
  BY DEF Inv
<1> QED
  BY <1>1, LiveRegMatrixInvariant, PTL

(* The registers collected are the ones in the way, each once, and all of  *)
(* them or as many as were asked for.                                      *)
THEOREM LiveRegMatrixCollectedAreInTheWay == Spec => []CollectedAreInTheWay
<1>1. Inv => CollectedAreInTheWay
  BY DEF Inv
<1> QED
  BY <1>1, LiveRegMatrixInvariant, PTL

=============================================================================
