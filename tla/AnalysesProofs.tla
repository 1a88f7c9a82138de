--------------------------- MODULE AnalysesProofs ----------------------------
(***************************************************************************)
(* The analysis cache proved for any analyses and what they build on, any  *)
(* facets and any program, where a pass tells of its edits before it asks: *)
(* what a pass is answered is true of the body as it stands.               *)
(*                                                                         *)
(* `Inv` holds every entry to what was so at its mark, and every entry of  *)
(* the cache to the edits of this pass being the only ones since.  What    *)
(* asking one analysis leaves is shown for the analyses it builds on       *)
(* first, by induction on how far below it they are.                       *)
(***************************************************************************)
EXTENDS Analyses, SequenceTheorems, FiniteSetTheorems, WellFoundedInduction, TLAPS

(* Where a facet's form, and its meaning, were last changed up to n.       *)
Form(log, f, n) == Max({0} \cup {i \in 1 .. n : f \in log[i].facets})
Meaning(log, f, n) ==
  Max({0} \cup {i \in 1 .. n : f \in log[i].facets /\ ~log[i].sound})

(* No change after n touches f.                                            *)
Quiet(log, f, n) == \A i \in n + 1 .. Len(log) : f \notin log[i].facets

(* A result of k contradicts nothing that was so at n.                     *)
Covered(log, k, result, n, outer) ==
  \A s \in Sources[k] :
    IF s[2] = OuterFacts THEN result[s] = outer
    ELSE result[s] \in 0 .. n /\ Meaning(log, s[2], result[s]) = Meaning(log, s[2], n)

(* It is what `run` gave at n.                                             *)
Exact(log, k, result, n, outer) ==
  \A s \in Sources[k] :
    result[s] = IF s[2] = OuterFacts THEN outer ELSE Form(log, s[2], n)

(* The analyses that may know less than `run` would: something was kept as *)
(* sound, and what they are derived from is, but for one that is not soft  *)
(* itself.                                                                 *)
Inexact(tainted, soft) ==
  {k \in Kinds : tainted /\ ~(Chain[k] \cap Sound \subseteq {k} \ soft)}

Stands(log, inexact, k, result, n, outer) ==
  /\ Covered(log, k, result, n, outer)
  /\ k \notin inexact => Exact(log, k, result, n, outer)

Entry(log, k) ==
  [result: [Sources[k] -> Nat], outer: Nat, mark: 0 .. Len(log), fromOlder: BOOLEAN]

TrueEntry(log, inexact, k, e) ==
  e \in Entry(log, k) /\ Stands(log, inexact, k, e.result, e.mark, e.outer)

TrueEntries(log, inexact, asks, held) ==
  /\ DOMAIN held \subseteq asks
  /\ \A k \in DOMAIN held : TrueEntry(log, inexact, k, held[k])

(* Nothing but the pending edits touched what an entry held was read from, *)
(* and the outer facts are those it read.                                  *)
Current(log, pend, outer, held) ==
  \A k \in DOMAIN held :
    /\ ReadsOuter(k) => held[k].outer = outer
    /\ \A f \in Reach(k) \ (pend \cup {OuterFacts}) : Quiet(log, f, held[k].mark)

Fields == {"cache", "kept", "vouched", "soft", "tainted", "outer"}
Shaped(a) == a = [x \in Fields |-> a[x]]

(* What is kept may have been soft.                                        *)
Right(fn, a, pend, prog) ==
  /\ fn \in [log: Seq(Change), from: Nat] /\ fn.from <= Len(fn.log)
  /\ prog \in Programs
  /\ pend \subseteq Facets
  /\ Shaped(a)
  /\ a.outer \in 0 .. prog.outers /\ a.soft \subseteq prog.asks
  /\ a.tainted \in BOOLEAN
  /\ a.vouched \in {{}} \cup {{n} : n \in 0 .. Len(fn.log)}
  /\ a.vouched = {Len(fn.log)} => pend = {}
  /\ TrueEntries(fn.log, Inexact(a.tainted, a.soft), prog.asks, a.cache)
  /\ TrueEntries(fn.log, Inexact(a.tainted, Kinds), prog.asks, a.kept)
  /\ Current(fn.log, pend, a.outer, a.cache)

Inv == Right(function, analyses, pending, program)

(* What can be asked of a: all it keeps is true at its mark, and what it   *)
(* holds of C is true now.                                                 *)
Askable(a, C) ==
  /\ function \in [log: Seq(Change), from: Nat] /\ function.from <= Now
  /\ a.outer \in Nat /\ a.tainted \in BOOLEAN
  /\ \A x \in Kinds \cap DOMAIN a.kept :
       TrueEntry(function.log, Inexact(a.tainted, Kinds), x, a.kept[x])
  /\ \A x \in C \cap DOMAIN a.cache :
       /\ TrueEntry(function.log, Inexact(a.tainted, a.soft), x, a.cache[x])
       /\ Stands(function.log, Inexact(a.tainted, a.soft), x, a.cache[x].result, Now, a.outer)

(* What may be inexact once it was.                                        *)
InexactAfter(a, found) ==
  Inexact(a.tainted \/ found.soft # {}, (a.soft \ found.hard) \cup found.soft)

(* What was found for k: entries of k and what it builds on, true now,     *)
(* which are those held or were made now.                                  *)
AnswerIs(a, k, found) ==
  LET inexact == InexactAfter(a, found)
  IN  /\ found = Found(found.held, found.made, found.soft, found.hard, found.older)
      /\ found.older \in BOOLEAN
      /\ k \in DOMAIN found.held
      /\ DOMAIN found.held \subseteq Chain[k]
      /\ found.hard \subseteq DOMAIN found.held
      /\ found.soft \subseteq Chain[k] \cap DOMAIN a.kept
      /\ \A x \in DOMAIN found.held :
           /\ TrueEntry(function.log, inexact, x, found.held[x])
           /\ Stands(function.log, inexact, x, found.held[x].result, Now, a.outer)
           /\ \/ found.held[x].mark = Now /\ found.held[x].outer = a.outer
              \/ x \in DOMAIN a.cache /\ found.held[x] = a.cache[x]
-----------------------------------------------------------------------------
(* The least and the greatest of numbers.                                  *)
LEMMA LeastOf ==
  ASSUME NEW S \in SUBSET Nat, S # {}
  PROVE  \E x \in S : \A y \in S : x <= y
<1>1. PICK x \in S : \A y \in S : ~(<<y, x>> \in OpToRel(<, Nat))
  BY NatLessThanWellFounded, WFMin, Zenon
<1>2. ASSUME NEW y \in S PROVE x <= y
  <2>1. <<y, x>> \in Nat \X Nat /\ <<y, x>>[1] = y /\ <<y, x>>[2] = x
    OBVIOUS
  <2>2. y < x => <<y, x>> \in OpToRel(<, Nat)
    BY <2>1 DEF OpToRel
  <2>3. ~(y < x)
    BY <1>1, <2>2, Zenon
  <2>4. x \in Nat /\ y \in Nat
    OBVIOUS
  <2> QED
    BY <2>3, <2>4, SMT
<1> QED
  BY <1>2

LEMMA MaxOf ==
  ASSUME NEW n \in Nat, NEW S \in SUBSET (0 .. n), S # {}
  PROVE  Max(S) \in S /\ \A y \in S : y <= Max(S)
<1> DEFINE bounds == {m \in Nat : \A y \in S : y <= m}
<1>1. n \in bounds
  OBVIOUS
<1>2. PICK m \in bounds : \A b \in bounds : m <= b
  BY <1>1, LeastOf
<1>3. m \in S
  <2> SUFFICES ASSUME m \notin S PROVE FALSE
    OBVIOUS
  <2>1. PICK y \in S : TRUE
    OBVIOUS
  <2>2. m # 0
    BY <2>1
  <2>3. m - 1 \in bounds
    BY <2>2
  <2> QED
    BY <2>3, <1>2
<1>4. \A y \in S : m >= y
  OBVIOUS
<1> QED
  BY <1>3, <1>4 DEF Max

LEMMA MaxOfTwo ==
  ASSUME NEW m \in Nat, NEW n \in Nat, n <= m
  PROVE  Max({m, n}) = m
<1>1. Max({m, n}) \in {m, n} /\ \A y \in {m, n} : y <= Max({m, n})
  BY MaxOf
<1> QED
  BY <1>1
-----------------------------------------------------------------------------
(* What the analyses build on.                                             *)
LEMMA Ranks ==
  \E rank \in [Kinds -> Nat] : \A k \in Kinds : Dep[k] # None => rank[Dep[k]] < rank[k]
<1>1. Cardinality(Kinds) \in Nat
  BY KindsAssumption, FS_CardinalityType
<1>2. PICK rank \in [Kinds -> 0 .. Cardinality(Kinds)] :
        \A k \in Kinds : Dep[k] # None => rank[Dep[k]] < rank[k]
  BY KindsAssumption
<1>3. rank \in [Kinds -> Nat]
  BY <1>1
<1> QED
  BY <1>2, <1>3

(* What is so of a kind whenever it is of the one it builds on is so of    *)
(* all.                                                                    *)
LEMMA KindInduction ==
  ASSUME NEW S,
         \A k \in Kinds : Dep[k] = None \/ Dep[k] \in S => k \in S
  PROVE  Kinds \subseteq S
<1> SUFFICES ASSUME NEW out \in Kinds, out \notin S PROVE FALSE
  OBVIOUS
<1>1. PICK rank \in [Kinds -> Nat] : \A k \in Kinds : Dep[k] # None => rank[Dep[k]] < rank[k]
  BY Ranks
<1> DEFINE ranks == {rank[k] : k \in Kinds \ S}
<1>2. PICK low \in ranks : \A n \in ranks : low <= n
  <2>1. ranks \in SUBSET Nat /\ ranks # {}
    BY <1>1
  <2> QED
    BY <2>1, LeastOf
<1>3. PICK k \in Kinds \ S : rank[k] = low
  BY <1>2
<1>4. Dep[k] # None /\ Dep[k] \notin S
  BY <1>3
<1>5. Dep[k] \in Kinds
  BY <1>3, <1>4, KindsAssumption
<1>6. rank[Dep[k]] \in ranks /\ rank[Dep[k]] < rank[k]
  BY <1>1, <1>3, <1>4, <1>5
<1>7. rank[k] \in Nat /\ rank[Dep[k]] \in Nat
  BY <1>1, <1>3, <1>5
<1> QED
  BY <1>2, <1>3, <1>6, <1>7

LEMMA ChainFacts ==
  ASSUME NEW k \in Kinds
  PROVE  /\ k \in Chain[k] /\ Chain[k] \subseteq Kinds
         /\ \A S \in SUBSET Kinds : k \in S /\ WithWhatItBuildsOn(S) => Chain[k] \subseteq S
         /\ WithWhatItBuildsOn(Chain[k])
BY KindsAssumption DEF Chain, WithWhatItBuildsOn

LEMMA ChainOfOne ==
  ASSUME NEW k \in Kinds, Dep[k] = None
  PROVE  Chain[k] = {k}
<1>1. WithWhatItBuildsOn({k})
  BY DEF WithWhatItBuildsOn
<1> QED
  BY <1>1, ChainFacts

LEMMA ChainBelow ==
  ASSUME NEW k \in Kinds, Dep[k] # None
  PROVE  /\ Dep[k] \in Kinds /\ Chain[k] = {k} \cup Chain[Dep[k]]
         /\ k \notin Chain[Dep[k]]
<1> DEFINE d == Dep[k]
<1>1. d \in Kinds
  BY KindsAssumption
<1>2. Chain[k] \subseteq {k} \cup Chain[d]
  <2>1. WithWhatItBuildsOn({k} \cup Chain[d])
    BY <1>1, ChainFacts DEF WithWhatItBuildsOn
  <2> QED
    BY <2>1, <1>1, ChainFacts
<1>3. Chain[d] \subseteq Chain[k]
  <2>1. d \in Chain[k]
    BY ChainFacts DEF WithWhatItBuildsOn
  <2> QED
    BY <2>1, <1>1, ChainFacts
<1>4. k \notin Chain[d]
  <2>1. PICK rank \in [Kinds -> Nat] : \A x \in Kinds : Dep[x] # None => rank[Dep[x]] < rank[x]
    BY Ranks
  <2> DEFINE S == {x \in Kinds : rank[x] < rank[k]}
  <2>2. d \in S
    BY <1>1, <2>1
  <2>3. WithWhatItBuildsOn(S)
    <3> SUFFICES ASSUME NEW x \in S, Dep[x] # None PROVE Dep[x] \in S
      BY DEF WithWhatItBuildsOn
    <3>1. Dep[x] \in Kinds
      BY KindsAssumption
    <3>2. rank[Dep[x]] < rank[x] /\ rank[x] < rank[k]
      BY <2>1
    <3>3. rank[Dep[x]] \in Nat /\ rank[x] \in Nat /\ rank[k] \in Nat
      BY <2>1, <3>1
    <3> QED
      BY <3>1, <3>2, <3>3
  <2>4. k \notin S
    BY <2>1
  <2> QED
    BY <1>1, <2>2, <2>3, <2>4, ChainFacts
<1> QED
  BY <1>1, <1>2, <1>3, <1>4, ChainFacts

LEMMA SourcesFacts ==
  ASSUME NEW k \in Kinds
  PROVE  /\ \A s \in Sources[k] : s[2] \in Facets \cup {OuterFacts} /\ s[2] \in Reach(k)
         /\ \A s \in Sources[k] : s[2] = OuterFacts => ReadsOuter(k)
         /\ \A s \in Sources[k] :
              s[1] # k => Dep[k] # None /\ s \in Sources[Dep[k]]
<1>1. Sources[k] = UNION {{d} \X Own[d] : d \in Chain[k]}
  BY DEF Sources
<1>2. ASSUME NEW s \in Sources[k] PROVE s[1] \in Chain[k] /\ s \in {s[1]} \X Own[s[1]]
  BY <1>1
<1>3. ASSUME NEW s \in Sources[k] PROVE s[2] \in Facets \cup {OuterFacts}
  BY <1>2, ChainFacts, KindsAssumption
<1>4. ASSUME NEW s \in Sources[k] PROVE s[2] \in Reach(k)
  BY DEF Reach
<1>5. ASSUME NEW s \in Sources[k], s[1] # k PROVE Dep[k] # None /\ s \in Sources[Dep[k]]
  <2>1. Dep[k] # None
    BY <1>2, <1>5, ChainOfOne
  <2>2. s[1] \in Chain[Dep[k]] /\ Dep[k] \in Kinds
    BY <1>2, <1>5, <2>1, ChainBelow
  <2> QED
    BY <1>2, <2>1, <2>2 DEF Sources
<1> QED
  BY <1>3, <1>4, <1>5 DEF ReadsOuter
-----------------------------------------------------------------------------
(* The history of a body.                                                  *)
LEMMA FormIs ==
  ASSUME NEW log, NEW f, NEW n \in Nat
  PROVE  /\ Form(log, f, n) \in 0 .. n
         /\ Meaning(log, f, n) \in 0 .. n
         /\ Meaning(log, f, Form(log, f, n)) = Meaning(log, f, n)
<1> DEFINE changes == {i \in 1 .. n : f \in log[i].facets}
           meant(m) == {i \in 1 .. m : f \in log[i].facets /\ ~log[i].sound}
<1>1. {0} \cup changes \in SUBSET (0 .. n) /\ {0} \cup meant(n) \in SUBSET (0 .. n)
  OBVIOUS
<1>2. Form(log, f, n) \in 0 .. n /\ \A i \in changes : i <= Form(log, f, n)
  BY <1>1, MaxOf DEF Form
<1>3. Meaning(log, f, n) \in 0 .. n
  <2>1. Max({0} \cup meant(n)) \in {0} \cup meant(n)
    BY <1>1, MaxOf
  <2> QED
    BY <1>1, <2>1 DEF Meaning
<1>4. meant(Form(log, f, n)) = meant(n)
  <2>1. ASSUME NEW i \in meant(n) PROVE i \in meant(Form(log, f, n))
    BY <1>2
  <2>2. ASSUME NEW i \in meant(Form(log, f, n)) PROVE i \in meant(n)
    BY <1>2
  <2> QED
    BY <2>1, <2>2
<1> QED
  BY <1>2, <1>3, <1>4 DEF Meaning

LEMMA UntouchedIsSame ==
  ASSUME NEW log, NEW f, NEW n \in Nat, NEW m \in 0 .. n,
         \A i \in m + 1 .. n : f \notin log[i].facets
  PROVE  Form(log, f, m) = Form(log, f, n) /\ Meaning(log, f, m) = Meaning(log, f, n)
<1>1. {i \in 1 .. m : f \in log[i].facets} = {i \in 1 .. n : f \in log[i].facets}
  OBVIOUS
<1>2. {i \in 1 .. m : f \in log[i].facets /\ ~log[i].sound}
        = {i \in 1 .. n : f \in log[i].facets /\ ~log[i].sound}
  OBVIOUS
<1> QED
  BY <1>1, <1>2 DEF Form, Meaning

LEMMA SoundKeepsMeaning ==
  ASSUME NEW log, NEW f, NEW n \in Nat, NEW m \in 0 .. n,
         \A i \in m + 1 .. n : log[i].sound
  PROVE  Meaning(log, f, m) = Meaning(log, f, n)
<1>1. {i \in 1 .. m : f \in log[i].facets /\ ~log[i].sound}
        = {i \in 1 .. n : f \in log[i].facets /\ ~log[i].sound}
  OBVIOUS
<1> QED
  BY <1>1 DEF Meaning

LEMMA PastIsSame ==
  ASSUME NEW log \in Seq(Change), NEW c \in Change, NEW f, NEW n \in 0 .. Len(log)
  PROVE  /\ Form(Append(log, c), f, n) = Form(log, f, n)
         /\ Meaning(Append(log, c), f, n) = Meaning(log, f, n)
<1>1. \A i \in 1 .. n : Append(log, c)[i] = log[i]
  OBVIOUS
<1>2. {i \in 1 .. n : f \in Append(log, c)[i].facets} = {i \in 1 .. n : f \in log[i].facets}
  BY <1>1
<1>3. {i \in 1 .. n : f \in Append(log, c)[i].facets /\ ~Append(log, c)[i].sound}
        = {i \in 1 .. n : f \in log[i].facets /\ ~log[i].sound}
  BY <1>1
<1> QED
  BY <1>2, <1>3 DEF Form, Meaning

LEMMA LogIsEnough ==
  ASSUME function.log \in Seq(Change), function.from \in Nat, NEW mark \in Nat,
         function.from <= mark
  PROVE  /\ ChangesSince(mark) = {function.log[i] : i \in mark + 1 .. Now}
         /\ \A f : f \notin Touched(mark) => Quiet(function.log, f, mark)
<1>1. Max({mark, function.from}) = mark
  BY MaxOfTwo
<1>2. ChangesSince(mark) = {function.log[i] : i \in mark + 1 .. Now}
  BY <1>1 DEF ChangesSince
<1>3. ASSUME NEW f, f \notin Touched(mark) PROVE Quiet(function.log, f, mark)
  BY <1>2, <1>3 DEF Touched, Quiet, Now
<1> QED
  BY <1>2, <1>3
-----------------------------------------------------------------------------
(* What an entry says.                                                     *)
LEMMA ExactIsCovered ==
  ASSUME NEW log, NEW k \in Kinds, NEW result, NEW n \in Nat, NEW outer,
         Exact(log, k, result, n, outer)
  PROVE  Covered(log, k, result, n, outer)
<1> SUFFICES ASSUME NEW s \in Sources[k]
             PROVE  IF s[2] = OuterFacts THEN result[s] = outer
                    ELSE /\ result[s] \in 0 .. n
                         /\ Meaning(log, s[2], result[s]) = Meaning(log, s[2], n)
  BY DEF Covered
<1>1. result[s] = IF s[2] = OuterFacts THEN outer ELSE Form(log, s[2], n)
  BY DEF Exact
<1> QED
  BY <1>1, FormIs

(* What nothing touched is still so.                                       *)
LEMMA StillCovered ==
  ASSUME NEW log, Len(log) \in Nat, NEW k \in Kinds, NEW result,
         NEW m \in 0 .. Len(log), NEW was, NEW outer,
         \A f \in Reach(k) \ {OuterFacts} : Quiet(log, f, m),
         ReadsOuter(k) => was = outer
  PROVE  /\ Covered(log, k, result, m, was) => Covered(log, k, result, Len(log), outer)
         /\ Exact(log, k, result, m, was) => Exact(log, k, result, Len(log), outer)
<1>1. ASSUME NEW s \in Sources[k], s[2] # OuterFacts
      PROVE  /\ Form(log, s[2], m) = Form(log, s[2], Len(log))
             /\ Meaning(log, s[2], m) = Meaning(log, s[2], Len(log))
  <2>1. Quiet(log, s[2], m)
    BY <1>1, SourcesFacts
  <2> QED
    BY <2>1, UntouchedIsSame DEF Quiet
<1>2. ASSUME NEW s \in Sources[k], s[2] = OuterFacts PROVE was = outer
  BY <1>2, SourcesFacts
<1>3. ASSUME Covered(log, k, result, m, was) PROVE Covered(log, k, result, Len(log), outer)
  <2> SUFFICES ASSUME NEW s \in Sources[k]
               PROVE  IF s[2] = OuterFacts THEN result[s] = outer
                      ELSE /\ result[s] \in 0 .. Len(log)
                           /\ Meaning(log, s[2], result[s]) = Meaning(log, s[2], Len(log))
    BY DEF Covered
  <2>1. IF s[2] = OuterFacts THEN result[s] = was
        ELSE result[s] \in 0 .. m /\ Meaning(log, s[2], result[s]) = Meaning(log, s[2], m)
    BY <1>3 DEF Covered
  <2> QED
    BY <1>1, <1>2, <2>1
<1>4. ASSUME Exact(log, k, result, m, was) PROVE Exact(log, k, result, Len(log), outer)
  <2> SUFFICES ASSUME NEW s \in Sources[k]
               PROVE  result[s] = IF s[2] = OuterFacts THEN outer ELSE Form(log, s[2], Len(log))
    BY DEF Exact
  <2>1. result[s] = IF s[2] = OuterFacts THEN was ELSE Form(log, s[2], m)
    BY <1>4 DEF Exact
  <2> QED
    BY <1>1, <1>2, <2>1
<1> QED
  BY <1>3, <1>4

LEMMA EntryOutlivesAppend ==
  ASSUME NEW log \in Seq(Change), NEW c \in Change, NEW k \in Kinds,
         NEW inexact, NEW e, TrueEntry(log, inexact, k, e)
  PROVE  TrueEntry(Append(log, c), inexact, k, e)
<1> DEFINE L == Append(log, c)
<1>0. e \in Entry(log, k) /\ e.mark \in 0 .. Len(log)
  BY DEF TrueEntry, Entry
<1>1. Len(L) = Len(log) + 1 /\ Len(log) \in Nat
  OBVIOUS
<1>2. e \in Entry(L, k)
  <2>1. 0 .. Len(log) \subseteq 0 .. Len(L)
    BY <1>1
  <2> HIDE DEF L
  <2> QED
    BY <1>0, <2>1 DEF Entry
<1>3. Covered(L, k, e.result, e.mark, e.outer)
  <2> SUFFICES ASSUME NEW s \in Sources[k]
               PROVE  IF s[2] = OuterFacts THEN e.result[s] = e.outer
                      ELSE /\ e.result[s] \in 0 .. e.mark
                           /\ Meaning(L, s[2], e.result[s]) = Meaning(L, s[2], e.mark)
    BY DEF Covered
  <2>1. IF s[2] = OuterFacts THEN e.result[s] = e.outer
        ELSE /\ e.result[s] \in 0 .. e.mark
             /\ Meaning(log, s[2], e.result[s]) = Meaning(log, s[2], e.mark)
    BY DEF TrueEntry, Stands, Covered
  <2>2. ASSUME NEW n \in 0 .. e.mark PROVE Meaning(L, s[2], n) = Meaning(log, s[2], n)
    <3>1. n \in 0 .. Len(log)
      BY <1>0, <1>1
    <3> QED
      BY <3>1, PastIsSame
  <2>3. e.mark \in 0 .. e.mark
    BY <1>0
  <2> HIDE DEF L
  <2> QED
    BY <2>1, <2>2, <2>3
<1>4. Exact(log, k, e.result, e.mark, e.outer) => Exact(L, k, e.result, e.mark, e.outer)
  BY <1>0, PastIsSame DEF Exact
<1> HIDE DEF L
<1> QED
  BY <1>2, <1>3, <1>4 DEF L, TrueEntry, Stands
-----------------------------------------------------------------------------
(* Asking.                                                                 *)

(* `Asked` is the function it is written as: what it is of the kinds of a  *)
(* rank gives what it is of those of the next.                             *)
LEMMA AskedIs ==
  ASSUME NEW a, NEW willing
  PROVE  Asked(a, willing) =
           [k \in Kinds |->
              Answered(a, willing, k,
                       IF Dep[k] = None THEN Nothing ELSE Asked(a, willing)[Dep[k]])]
<1> DEFINE At(f, k) ==
             Answered(a, willing, k, IF Dep[k] = None THEN Nothing ELSE f[Dep[k]])
<1> DEFINE top == Cardinality(Kinds)
<1>0. top \in Nat
  BY KindsAssumption, FS_CardinalityType
<1>1. PICK rank \in [Kinds -> 0 .. top] :
        \A k \in Kinds : Dep[k] # None => rank[Dep[k]] < rank[k]
  BY KindsAssumption
<1> HIDE DEF top
<1> DEFINE Fits(f, n) == \A k \in Kinds : rank[k] < n => f[k] = At(f, k)
           broken == {n \in Nat : ~ \E f : Fits(f, n)}
<1>2. ASSUME NEW f, NEW g, NEW k \in Kinds, Dep[k] # None => f[Dep[k]] = g[Dep[k]]
      PROVE  At(f, k) = At(g, k)
  <2>1. CASE Dep[k] = None
    BY <2>1
  <2>2. CASE Dep[k] # None
    BY <1>2, <2>2
  <2> QED
    BY <2>1, <2>2
<1> HIDE DEF At
<1>3. ASSUME NEW n \in Nat PROVE \E f : Fits(f, n)
  <2> SUFFICES ASSUME broken # {} PROVE FALSE
    OBVIOUS
  <2>1. PICK m \in broken : \A b \in broken : m <= b
    BY LeastOf
  <2>2. m # 0
    <3>1. Fits(<<>>, 0)
      BY <1>1
    <3> QED
      BY <3>1
  <2>3. m - 1 \in Nat /\ m - 1 \notin broken
    BY <2>1, <2>2
  <2>4. PICK f : Fits(f, m - 1)
    BY <2>3
  <2> DEFINE g == [k \in Kinds |-> At(f, k)]
  <2>5. ASSUME NEW k \in Kinds, rank[k] < m PROVE g[k] = At(g, k)
    <3>1. ASSUME Dep[k] # None PROVE f[Dep[k]] = g[Dep[k]]
      <4>1. Dep[k] \in Kinds /\ rank[Dep[k]] < m - 1
        <5>1. Dep[k] \in Kinds
          BY <3>1, KindsAssumption
        <5>2. rank[Dep[k]] < rank[k] /\ rank[Dep[k]] \in Nat /\ rank[k] \in Nat
          BY <1>1, <3>1, <5>1
        <5> QED
          BY <2>1, <2>5, <5>1, <5>2
      <4> QED
        BY <2>4, <4>1
    <3> QED
      BY <1>2, <3>1
  <2>6. Fits(g, m)
    BY <2>5
  <2> QED
    BY <2>1, <2>6
<1>4. PICK f : Fits(f, top + 1)
  BY <1>0, <1>3
<1> DEFINE g == [k \in Kinds |-> At(f, k)]
<1>5. ASSUME NEW k \in Kinds PROVE f[k] = g[k]
  <2>1. rank[k] < top + 1
    BY <1>0, <1>1
  <2> QED
    BY <1>4, <2>1
<1>6. ASSUME NEW k \in Kinds PROVE At(f, k) = At(g, k)
  <2>1. ASSUME Dep[k] # None PROVE f[Dep[k]] = g[Dep[k]]
    BY <1>5, <2>1, KindsAssumption
  <2> QED
    BY <1>2, <2>1
<1>7. g = [k \in Kinds |-> At(g, k)]
  BY <1>6
<1>8. \E h : h = [k \in Kinds |-> At(h, k)]
  BY <1>7
<1>9. Asked(a, willing) = CHOOSE h : h = [k \in Kinds |-> At(h, k)]
  BY DEF Asked, At
<1> HIDE DEF g
<1> DEFINE found == CHOOSE h : h = [k \in Kinds |-> At(h, k)]
<1>10. found = [k \in Kinds |-> At(found, k)]
  BY <1>8
<1>11. Asked(a, willing) = [k \in Kinds |-> At(Asked(a, willing), k)]
  BY <1>9, <1>10
<1> QED
  BY <1>11 DEF At

(* What may be inexact only grows.                                         *)
LEMMA LessIsTrue ==
  ASSUME NEW log, NEW k, NEW inexact, NEW more, k \in inexact => k \in more
  PROVE  /\ \A result, n, outer :
              Stands(log, inexact, k, result, n, outer) => Stands(log, more, k, result, n, outer)
         /\ \A e : TrueEntry(log, inexact, k, e) => TrueEntry(log, more, k, e)
<1>1. \A result, n, outer :
        Stands(log, inexact, k, result, n, outer) => Stands(log, more, k, result, n, outer)
  BY DEF Stands
<1> QED
  BY <1>1 DEF TrueEntry

LEMMA HeldAnswers ==
  ASSUME NEW a, NEW C \in SUBSET Kinds, Askable(a, C), NEW k \in C, k \in DOMAIN a.cache
  PROVE  AnswerIs(a, k, AsHeld(a, k))
<1> DEFINE found == AsHeld(a, k)
<1>1. /\ found = Found(found.held, found.made, found.soft, found.hard, found.older)
      /\ found.held = Only(a.cache, {k}) /\ found.soft = {} /\ found.hard = {}
      /\ found.older = Older(a, a.cache[k])
  BY Zenon DEF AsHeld, Found
<1>2. DOMAIN found.held = {k} /\ found.held[k] = a.cache[k]
  BY <1>1 DEF Only
<1>3. /\ TrueEntry(function.log, Inexact(a.tainted, a.soft), k, a.cache[k])
      /\ Stands(function.log, Inexact(a.tainted, a.soft), k, a.cache[k].result, Now, a.outer)
  BY DEF Askable
<1>4. found.older \in BOOLEAN
  <2>1. a.cache[k].fromOlder \in BOOLEAN
    BY <1>3 DEF TrueEntry, Entry
  <2> QED
    BY <1>1, <2>1 DEF Older
<1>5. k \in Chain[k]
  BY ChainFacts
<1>6. InexactAfter(a, found) = Inexact(a.tainted, a.soft)
  <2>1. found.hard = {} /\ found.soft = {}
    BY <1>1
  <2> HIDE DEF found
  <2> QED
    BY <2>1 DEF InexactAfter, Inexact
<1> HIDE DEF found
<1> QED
  BY <1>1, <1>2, <1>3, <1>4, <1>5, <1>6 DEF AnswerIs, found

(* An entry made now of what is so now.                                    *)
LEMMA EntryMade ==
  ASSUME NEW a, NEW C, Askable(a, C), NEW k \in Kinds, NEW result \in [Sources[k] -> Nat],
         NEW older \in BOOLEAN, NEW inexact,
         Stands(function.log, inexact, k, result, Now, a.outer)
  PROVE  LET e == EntryOf(a, result, older)
         IN  /\ TrueEntry(function.log, inexact, k, e)
             /\ e.result = result /\ e.mark = Now /\ e.outer = a.outer
<1>1. Now \in 0 .. Len(function.log) /\ Now = Len(function.log) /\ a.outer \in Nat
  BY DEF Now, Askable
<1> QED
  BY <1>1 DEF EntryOf, TrueEntry, Entry

(* What was kept and can be used: no change since its mark is forgotten.   *)
LEMMA KeptIs ==
  ASSUME NEW a, NEW C, Askable(a, C), NEW k \in Kinds, Usable(a, k)
  PROVE  LET old == a.kept[k]
         IN  /\ old.result \in [Sources[k] -> Nat] /\ old.mark \in 0 .. Now
             /\ TrueEntry(function.log, Inexact(a.tainted, Kinds), k, old)
             /\ ReadsOuter(k) => old.outer = a.outer
             /\ ChangesSince(old.mark) = {function.log[i] : i \in old.mark + 1 .. Now}
             /\ \A f : f \notin Touched(old.mark) => Quiet(function.log, f, old.mark)
<1>1. TrueEntry(function.log, Inexact(a.tainted, Kinds), k, a.kept[k])
  BY DEF Askable, Usable
<1>2. a.kept[k] \in Entry(function.log, k)
  BY <1>1 DEF TrueEntry
<1>3. function.log \in Seq(Change) /\ function.from \in Nat
  BY DEF Askable
<1>4. a.kept[k].mark \in Nat /\ function.from <= a.kept[k].mark
  BY <1>2, <1>3 DEF Entry, Usable
<1> QED
  BY <1>1, <1>2, <1>3, <1>4, LogIsEnough DEF Usable, Entry, Now

LEMMA KeptAnswers ==
  ASSUME NEW a, NEW C, Askable(a, C), NEW k \in Kinds, Usable(a, k),
         NEW soft \in SUBSET {k},
         Stands(function.log, InexactAfter(a, AsKept(a, k, soft)), k,
                a.kept[k].result, Now, a.outer)
  PROVE  AnswerIs(a, k, AsKept(a, k, soft))
<1> DEFINE found == AsKept(a, k, soft)
           e == EntryOf(a, a.kept[k].result, FALSE)
           inexact == InexactAfter(a, found)
<1>1. /\ found = Found(found.held, found.made, found.soft, found.hard, found.older)
      /\ found.held = Put(<<>>, k, e) /\ found.soft = soft /\ found.hard = {}
      /\ found.older = FALSE
  BY DEF AsKept, Found
<1>2. DOMAIN found.held = {k} /\ found.held[k] = e
  <2>1. DOMAIN <<>> = {}
    OBVIOUS
  <2> QED
    BY <1>1, <2>1 DEF Put
<1>3. a.kept[k].result \in [Sources[k] -> Nat]
  BY KeptIs
<1>5. k \in Chain[k]
  BY ChainFacts
<1>7. k \in DOMAIN a.kept
  BY DEF Usable
<1>8. Stands(function.log, inexact, k, a.kept[k].result, Now, a.outer)
  OBVIOUS
<1> HIDE DEF inexact
<1>4. /\ TrueEntry(function.log, inexact, k, e)
      /\ e.result = a.kept[k].result /\ e.mark = Now /\ e.outer = a.outer
  BY <1>3, <1>8, EntryMade
<1> HIDE DEF found, e
<1>9. ASSUME NEW x \in DOMAIN found.held
      PROVE  /\ TrueEntry(function.log, inexact, x, found.held[x])
             /\ Stands(function.log, inexact, x, found.held[x].result, Now, a.outer)
             /\ found.held[x].mark = Now /\ found.held[x].outer = a.outer
  BY <1>2, <1>4, <1>8
<1>10. /\ found.older \in BOOLEAN /\ k \in DOMAIN found.held
       /\ DOMAIN found.held \subseteq Chain[k] /\ found.hard \subseteq DOMAIN found.held
       /\ found.soft \subseteq Chain[k] \cap DOMAIN a.kept
  BY <1>1, <1>2, <1>5, <1>7
<1>11. AnswerIs(a, k, found)
  BY <1>1, <1>9, <1>10 DEF AnswerIs, inexact
<1> QED
  BY <1>11 DEF found

(* Past sound edits it still says nothing untrue.                          *)
LEMMA SoundAnswers ==
  ASSUME NEW a, NEW C, Askable(a, C), NEW k \in Kinds,
         NEW willing, StandsAsSound(a, k, willing)
  PROVE  AnswerIs(a, k, AsKept(a, k, {k}))
<1> DEFINE old == a.kept[k]
<1>1. Usable(a, k) /\ k \in Sound /\ \A c \in ChangesSince(old.mark) : c.sound
  BY DEF StandsAsSound
<1>2. /\ old.mark \in 0 .. Now
      /\ TrueEntry(function.log, Inexact(a.tainted, Kinds), k, old)
      /\ ReadsOuter(k) => old.outer = a.outer
      /\ ChangesSince(old.mark) = {function.log[i] : i \in old.mark + 1 .. Now}
  BY <1>1, KeptIs
<1>3. Now = Len(function.log) /\ Now \in Nat
  BY DEF Now, Askable
<1>4. \A f : Meaning(function.log, f, old.mark) = Meaning(function.log, f, Now)
  <2>1. \A i \in old.mark + 1 .. Now : function.log[i].sound
    BY <1>1, <1>2
  <2> QED
    BY <2>1, <1>2, <1>3, SoundKeepsMeaning
<1>5. Covered(function.log, k, old.result, Now, a.outer)
  <2> SUFFICES ASSUME NEW s \in Sources[k]
               PROVE  IF s[2] = OuterFacts THEN old.result[s] = a.outer
                      ELSE /\ old.result[s] \in 0 .. Now
                           /\ Meaning(function.log, s[2], old.result[s])
                                = Meaning(function.log, s[2], Now)
    BY DEF Covered
  <2>1. IF s[2] = OuterFacts THEN old.result[s] = old.outer
        ELSE /\ old.result[s] \in 0 .. old.mark
             /\ Meaning(function.log, s[2], old.result[s])
                  = Meaning(function.log, s[2], old.mark)
    BY <1>2 DEF TrueEntry, Stands, Covered
  <2>2. s[2] = OuterFacts => old.outer = a.outer
    BY <1>2, SourcesFacts
  <2>3. 0 .. old.mark \subseteq 0 .. Now
    BY <1>2, <1>3
  <2> QED
    BY <1>4, <2>1, <2>2, <2>3
<1>6. k \in InexactAfter(a, AsKept(a, k, {k}))
  <2>1. AsKept(a, k, {k}).soft = {k}
    BY DEF AsKept, Found
  <2> QED
    BY <1>1, <2>1, ChainFacts DEF InexactAfter, Inexact
<1>7. Stands(function.log, InexactAfter(a, AsKept(a, k, {k})), k, old.result, Now, a.outer)
  BY <1>5, <1>6 DEF Stands
<1> QED
  BY <1>1, <1>7, KeptAnswers

(* What no change touched is exact, as nothing it is derived from is kept  *)
(* as sound.                                                               *)
LEMMA UnaffectedAnswers ==
  ASSUME NEW a, NEW C, Askable(a, C), NEW k \in Kinds, Unaffected(a, k)
  PROVE  AnswerIs(a, k, AsKept(a, k, {}))
<1> DEFINE old == a.kept[k]
<1>1. Usable(a, k) /\ k \in Skips /\ Touched(old.mark) \cap Reach(k) = {}
  BY DEF Unaffected
<1>2. /\ old.mark \in 0 .. Now
      /\ TrueEntry(function.log, Inexact(a.tainted, Kinds), k, old)
      /\ ReadsOuter(k) => old.outer = a.outer
      /\ \A f : f \notin Touched(old.mark) => Quiet(function.log, f, old.mark)
  BY <1>1, KeptIs
<1>3. k \notin Inexact(a.tainted, Kinds)
  BY <1>1, SoundAssumption DEF Inexact
<1>4. /\ Covered(function.log, k, old.result, old.mark, old.outer)
      /\ Exact(function.log, k, old.result, old.mark, old.outer)
  BY <1>2, <1>3 DEF TrueEntry, Stands
<1>5. Now = Len(function.log) /\ Now \in Nat
  BY DEF Now, Askable
<1>6. \A f \in Reach(k) \ {OuterFacts} : Quiet(function.log, f, old.mark)
  BY <1>1, <1>2
<1>7. /\ Covered(function.log, k, old.result, Now, a.outer)
      /\ Exact(function.log, k, old.result, Now, a.outer)
  BY <1>2, <1>4, <1>5, <1>6, StillCovered
<1>8. Stands(function.log, InexactAfter(a, AsKept(a, k, {})), k, old.result, Now, a.outer)
  BY <1>7 DEF Stands
<1> QED
  BY <1>1, <1>8, KeptAnswers

(* What was found of what k builds on.                                     *)
LEMMA BelowIs ==
  ASSUME NEW a, NEW k \in Kinds, NEW sub,
         IF Dep[k] = None THEN sub = Nothing ELSE AnswerIs(a, Dep[k], sub)
  PROVE  /\ sub.older \in BOOLEAN
         /\ DOMAIN sub.held \subseteq Chain[k] \ {k}
         /\ sub.hard \subseteq DOMAIN sub.held
         /\ sub.soft \subseteq (Chain[k] \ {k}) \cap DOMAIN a.kept
         /\ Dep[k] # None => Dep[k] \in DOMAIN sub.held
         /\ \A x \in DOMAIN sub.held :
              /\ TrueEntry(function.log, InexactAfter(a, sub), x, sub.held[x])
              /\ Stands(function.log, InexactAfter(a, sub), x, sub.held[x].result, Now, a.outer)
              /\ \/ sub.held[x].mark = Now /\ sub.held[x].outer = a.outer
                 \/ x \in DOMAIN a.cache /\ sub.held[x] = a.cache[x]
<1>1. CASE Dep[k] = None
  <2>1. sub.held = <<>> /\ sub.soft = {} /\ sub.hard = {} /\ sub.older = FALSE
    BY <1>1 DEF Nothing, Found
  <2>2. DOMAIN <<>> = {}
    OBVIOUS
  <2> QED
    BY <1>1, <2>1, <2>2
<1>2. CASE Dep[k] # None
  <2>1. Chain[Dep[k]] \subseteq Chain[k] \ {k}
    BY <1>2, ChainBelow
  <2> QED
    BY <1>2, <2>1 DEF AnswerIs
<1> QED
  BY <1>1, <1>2

(* `run`, over what stands now, gives what stands now.                     *)
LEMMA RunStands ==
  ASSUME NEW a, NEW C, Askable(a, C), NEW k \in Kinds, NEW sub,
         IF Dep[k] = None THEN sub = Nothing ELSE AnswerIs(a, Dep[k], sub)
  PROVE  /\ Run(a, k, sub) \in [Sources[k] -> Nat]
         /\ Covered(function.log, k, Run(a, k, sub), Now, a.outer)
         /\ (Dep[k] # None => Dep[k] \notin InexactAfter(a, sub))
              => Exact(function.log, k, Run(a, k, sub), Now, a.outer)
<1> DEFINE d == Dep[k]
           ran == Run(a, k, sub)
<1>1. Now \in Nat /\ Now = Len(function.log) /\ a.outer \in Nat
  BY DEF Now, Askable
<1>2. ASSUME NEW s \in Sources[k], s[1] = k
      PROVE  /\ ran[s] = IF s[2] = OuterFacts THEN a.outer ELSE Form(function.log, s[2], Now)
             /\ ran[s] \in Nat
             /\ s[2] # OuterFacts =>
                  /\ ran[s] \in 0 .. Now
                  /\ Meaning(function.log, s[2], ran[s]) = Meaning(function.log, s[2], Now)
  <2>1. ran[s] = IF s[2] = OuterFacts THEN a.outer ELSE Form(function.log, s[2], Now)
    BY <1>2 DEF Run, Version, FormAt, Form
  <2>2. Form(function.log, s[2], Now) \in 0 .. Now
    BY <1>1, FormIs
  <2> HIDE DEF ran
  <2> QED
    BY <1>1, <2>1, <2>2, FormIs
<1>3. ASSUME NEW s \in Sources[k], s[1] # k
      PROVE  /\ d # None /\ d \in Kinds /\ s \in Sources[d]
             /\ ran[s] = sub.held[d].result[s]
  BY <1>3, SourcesFacts, ChainBelow DEF Run
<1>4. ASSUME d # None
      PROVE  /\ sub.held[d].result \in [Sources[d] -> Nat]
             /\ Stands(function.log, InexactAfter(a, sub), d, sub.held[d].result, Now, a.outer)
  BY <1>4, BelowIs DEF TrueEntry, Entry
<1>5. ran \in [Sources[k] -> Nat]
  <2>1. ran = [s \in Sources[k] |-> ran[s]]
    BY DEF Run
  <2>2. ASSUME NEW s \in Sources[k] PROVE ran[s] \in Nat
    BY <1>2, <1>3, <1>4
  <2> HIDE DEF ran
  <2> QED
    BY <2>1, <2>2
<1> HIDE DEF ran
<1>6. Covered(function.log, k, ran, Now, a.outer)
  <2> SUFFICES ASSUME NEW s \in Sources[k]
               PROVE  IF s[2] = OuterFacts THEN ran[s] = a.outer
                      ELSE /\ ran[s] \in 0 .. Now
                           /\ Meaning(function.log, s[2], ran[s]) = Meaning(function.log, s[2], Now)
    BY DEF Covered
  <2>1. CASE s[1] = k
    BY <1>2, <2>1
  <2>2. CASE s[1] # k
    BY <1>3, <1>4, <2>2 DEF Stands, Covered
  <2> QED
    BY <2>1, <2>2
<1>7. ASSUME d # None => d \notin InexactAfter(a, sub)
      PROVE  Exact(function.log, k, ran, Now, a.outer)
  <2> SUFFICES ASSUME NEW s \in Sources[k]
               PROVE  ran[s] = IF s[2] = OuterFacts THEN a.outer
                               ELSE Form(function.log, s[2], Now)
    BY DEF Exact
  <2>1. CASE s[1] = k
    BY <1>2, <2>1
  <2>2. CASE s[1] # k
    BY <1>3, <1>4, <1>7, <2>2 DEF Stands, Exact
  <2> QED
    BY <2>1, <2>2
<1> QED
  BY <1>5, <1>6, <1>7 DEF ran

(* `update`, of an analysis over none kept as sound, gives what `run` does.*)
LEMMA UpdatedIsExact ==
  ASSUME NEW a, NEW C, Askable(a, C), NEW k \in Incremental, NEW sub,
         IF Dep[k] = None THEN sub = Nothing ELSE AnswerIs(a, Dep[k], sub),
         Usable(a, k)
  PROVE  /\ Updated(a, k, sub) \in [Sources[k] -> Nat]
         /\ Exact(function.log, k, Updated(a, k, sub), Now, a.outer)
<1> DEFINE old == a.kept[k]
           now == Updated(a, k, sub)
           ran == Run(a, k, sub)
<1>1. k \in Kinds
  BY KindsAssumption
<1>2. Chain[k] \cap Sound = {}
  BY SoundAssumption
<1>3. /\ old.result \in [Sources[k] -> Nat] /\ old.mark \in 0 .. Now
      /\ TrueEntry(function.log, Inexact(a.tainted, Kinds), k, old)
      /\ ReadsOuter(k) => old.outer = a.outer
      /\ \A f : f \notin Touched(old.mark) => Quiet(function.log, f, old.mark)
  BY <1>1, KeptIs
<1>4. Exact(function.log, k, old.result, old.mark, old.outer)
  BY <1>2, <1>3 DEF TrueEntry, Stands, Inexact
<1>5. Exact(function.log, k, ran, Now, a.outer) /\ ran \in [Sources[k] -> Nat]
  <2>1. ASSUME Dep[k] # None PROVE Dep[k] \notin InexactAfter(a, sub)
    <3>1. Chain[Dep[k]] \subseteq Chain[k]
      BY <1>1, <2>1, ChainBelow
    <3>2. Chain[Dep[k]] \cap Sound = {}
      BY <1>2, <3>1
    <3> QED
      BY <3>2 DEF InexactAfter, Inexact
  <2> QED
    BY <1>1, <2>1, RunStands
<1>6. Now \in Nat /\ Now = Len(function.log)
  BY DEF Now, Askable
<1>7. ASSUME NEW s \in Sources[k]
      PROVE  /\ now[s] = IF s[2] = OuterFacts THEN a.outer ELSE Form(function.log, s[2], Now)
             /\ now[s] \in Nat
  <2>1. now[s] = IF /\ s[2] \in Touched(old.mark)
                    /\ old.result[s] = Version(s, old.mark, old.outer)
                 THEN ran[s] ELSE old.result[s]
    BY DEF Updated
  <2>2. old.result[s] = IF s[2] = OuterFacts THEN old.outer
                        ELSE Form(function.log, s[2], old.mark)
    BY <1>4 DEF Exact
  <2>3. Version(s, old.mark, old.outer) = old.result[s]
    BY <2>2 DEF Version, FormAt, Form
  <2>4. ran[s] = IF s[2] = OuterFacts THEN a.outer ELSE Form(function.log, s[2], Now)
    BY <1>5 DEF Exact
  <2>5. s[2] = OuterFacts => old.outer = a.outer
    BY <1>1, <1>3, SourcesFacts
  <2>6. ASSUME s[2] \notin Touched(old.mark)
        PROVE  Form(function.log, s[2], old.mark) = Form(function.log, s[2], Now)
    <3>1. Quiet(function.log, s[2], old.mark)
      BY <1>3, <2>6
    <3>2. \A i \in old.mark + 1 .. Now : s[2] \notin function.log[i].facets
      BY <1>6, <3>1 DEF Quiet
    <3>3. old.mark \in 0 .. Now
      BY <1>3
    <3> HIDE DEF old
    <3> QED
      BY <1>6, <3>2, <3>3, UntouchedIsSame
  <2>7. old.result[s] \in Nat /\ ran[s] \in Nat
    BY <1>3, <1>5
  <2> HIDE DEF old, now, ran
  <2> QED
    BY <2>1, <2>2, <2>3, <2>4, <2>5, <2>6, <2>7
<1>8. now = [s \in Sources[k] |-> now[s]]
  BY DEF Updated
<1> HIDE DEF now
<1> QED
  BY <1>7, <1>8 DEF Exact, now

LEMMA DerivedAnswers ==
  ASSUME NEW a, NEW C, Askable(a, C), NEW k \in Kinds, NEW sub,
         IF Dep[k] = None THEN sub = Nothing ELSE AnswerIs(a, Dep[k], sub),
         NEW updates \in BOOLEAN, updates => Usable(a, k) /\ k \in Incremental
  PROVE  AnswerIs(a, k, Derived(a, k, sub, updates))
<1>2. /\ sub.older \in BOOLEAN
      /\ DOMAIN sub.held \subseteq Chain[k] \ {k}
      /\ sub.hard \subseteq DOMAIN sub.held
      /\ sub.soft \subseteq (Chain[k] \ {k}) \cap DOMAIN a.kept
  BY BelowIs
<1>3. \A x \in DOMAIN sub.held :
        /\ TrueEntry(function.log, InexactAfter(a, sub), x, sub.held[x])
        /\ Stands(function.log, InexactAfter(a, sub), x, sub.held[x].result, Now, a.outer)
        /\ \/ sub.held[x].mark = Now /\ sub.held[x].outer = a.outer
           \/ x \in DOMAIN a.cache /\ sub.held[x] = a.cache[x]
  BY BelowIs
<1> DEFINE found == Derived(a, k, sub, updates)
           result == IF updates THEN Updated(a, k, sub) ELSE Run(a, k, sub)
           e == EntryOf(a, result, sub.older)
           inexact == InexactAfter(a, found)
           below == InexactAfter(a, sub)
           hard == IF updates THEN {} ELSE {k}
<1>1. /\ found = Found(found.held, found.made, found.soft, found.hard, found.older)
      /\ found.held = Put(sub.held, k, e) /\ found.soft = sub.soft
      /\ found.hard = sub.hard \cup hard /\ found.older = sub.older
  BY DEF Derived, Found
<1>4. /\ DOMAIN found.held = DOMAIN sub.held \cup {k} /\ found.held[k] = e
      /\ \A x \in DOMAIN sub.held : found.held[x] = sub.held[x]
  <2>1. DOMAIN found.held = DOMAIN sub.held \cup {k} /\ found.held[k] = e
    BY <1>1 DEF Put
  <2>2. ASSUME NEW x \in DOMAIN sub.held PROVE found.held[x] = sub.held[x]
    BY <1>1, <1>2 DEF Put
  <2> QED
    BY <2>1, <2>2
<1>5. ASSUME NEW x \in Kinds, x # k PROVE x \in inexact <=> x \in below
  <2>1. found.soft = sub.soft /\ found.hard \ {k} = sub.hard \ {k}
    BY <1>1
  <2> HIDE DEF found
  <2> QED
    BY <1>5, <2>1 DEF InexactAfter, Inexact
<1>6. result \in [Sources[k] -> Nat] /\ Stands(function.log, inexact, k, result, Now, a.outer)
  <2>1. CASE updates
    <3>1. result = Updated(a, k, sub)
      BY <2>1
    <3>2. /\ Updated(a, k, sub) \in [Sources[k] -> Nat]
          /\ Exact(function.log, k, Updated(a, k, sub), Now, a.outer)
      BY <2>1, UpdatedIsExact
    <3>3. Now \in Nat
      BY DEF Now, Askable
    <3> HIDE DEF result
    <3> QED
      BY <3>1, <3>2, <3>3, ExactIsCovered DEF Stands
  <2>2. CASE ~updates
    <3>1. result = Run(a, k, sub)
      BY <2>2
    <3>2. /\ Run(a, k, sub) \in [Sources[k] -> Nat]
          /\ Covered(function.log, k, Run(a, k, sub), Now, a.outer)
          /\ (Dep[k] # None => Dep[k] \notin below)
               => Exact(function.log, k, Run(a, k, sub), Now, a.outer)
      BY RunStands
    <3>3. ASSUME k \notin inexact, Dep[k] # None PROVE Dep[k] \notin below
      <4>1. Chain[Dep[k]] \subseteq Chain[k] \ {k}
        BY <3>3, ChainBelow
      <4>2. found.soft = sub.soft
        BY <1>1
      <4> HIDE DEF found
      <4>3. \/ ~(a.tainted \/ sub.soft # {})
            \/ Chain[k] \cap Sound \subseteq {k}
        BY <3>3, <4>2 DEF InexactAfter, Inexact
      <4> QED
        BY <4>1, <4>3 DEF InexactAfter, Inexact
    <3> HIDE DEF result, inexact, below
    <3> QED
      BY <3>1, <3>2, <3>3 DEF Stands
  <2> QED
    BY <2>1, <2>2
<1>7. /\ TrueEntry(function.log, inexact, k, e)
      /\ e.result = result /\ e.mark = Now /\ e.outer = a.outer
  <2> HIDE DEF result, inexact
  <2> QED
    BY <1>2, <1>6, EntryMade
<1>8. k \in Chain[k] /\ Chain[k] \subseteq Kinds
  BY ChainFacts
<1>9. /\ found.older \in BOOLEAN /\ k \in DOMAIN found.held
      /\ DOMAIN found.held \subseteq Chain[k] /\ found.hard \subseteq DOMAIN found.held
      /\ found.soft \subseteq Chain[k] \cap DOMAIN a.kept
  BY <1>1, <1>2, <1>4, <1>8
<1> HIDE DEF found, e, inexact, below
<1>10. ASSUME NEW x \in DOMAIN found.held
       PROVE  /\ TrueEntry(function.log, inexact, x, found.held[x])
              /\ Stands(function.log, inexact, x, found.held[x].result, Now, a.outer)
              /\ \/ found.held[x].mark = Now /\ found.held[x].outer = a.outer
                 \/ x \in DOMAIN a.cache /\ found.held[x] = a.cache[x]
  <2>1. CASE x = k
    BY <1>4, <1>6, <1>7, <2>1
  <2>2. CASE x # k
    <3>1. x \in DOMAIN sub.held /\ found.held[x] = sub.held[x] /\ x \in Kinds
      BY <1>2, <1>4, <1>8, <2>2
    <3>2. x \in inexact <=> x \in below
      BY <1>5, <2>2, <3>1
    <3> QED
      BY <1>3, <3>1, <3>2, LessIsTrue DEF below
  <2> QED
    BY <2>1, <2>2
<1>11. AnswerIs(a, k, found)
  BY <1>1, <1>9, <1>10 DEF AnswerIs, inexact
<1> QED
  BY <1>11 DEF found

LEMMA AnsweredIs ==
  ASSUME NEW a, NEW C \in SUBSET Kinds, Askable(a, C), NEW k \in C, NEW willing, NEW sub,
         IF Dep[k] = None THEN sub = Nothing ELSE AnswerIs(a, Dep[k], sub)
  PROVE  AnswerIs(a, k, Answered(a, willing, k, sub))
<1>1. CASE k \in DOMAIN a.cache
  <2>1. Answered(a, willing, k, sub) = AsHeld(a, k)
    BY <1>1 DEF Answered
  <2> QED
    BY <1>1, <2>1, HeldAnswers
<1>2. CASE k \notin DOMAIN a.cache /\ StandsAsSound(a, k, willing)
  <2>1. Answered(a, willing, k, sub) = AsKept(a, k, {k})
    BY <1>2 DEF Answered
  <2> QED
    BY <1>2, <2>1, SoundAnswers
<1>3. CASE /\ k \notin DOMAIN a.cache /\ ~StandsAsSound(a, k, willing)
           /\ Unaffected(a, k) /\ k \in willing
  <2>1. Answered(a, willing, k, sub) = AsKept(a, k, {})
    BY <1>3 DEF Answered
  <2> QED
    BY <1>3, <2>1, UnaffectedAnswers
<1>4. CASE /\ k \notin DOMAIN a.cache /\ ~StandsAsSound(a, k, willing)
           /\ ~(Unaffected(a, k) /\ k \in willing)
  <2> DEFINE updates == Usable(a, k) /\ k \in Incremental \cap willing
  <2>1. Answered(a, willing, k, sub) = Derived(a, k, sub, updates)
    BY <1>4 DEF Answered
  <2>2. updates \in BOOLEAN /\ (updates => Usable(a, k) /\ k \in Incremental)
    OBVIOUS
  <2> HIDE DEF updates
  <2> QED
    BY <2>1, <2>2, DerivedAnswers
<1> QED
  BY <1>1, <1>2, <1>3, <1>4

(* Whatever is asked for, what is found is true now.                       *)
LEMMA AskedAnswers ==
  ASSUME NEW a, NEW k \in Kinds, Askable(a, Chain[k]), NEW willing
  PROVE  AnswerIs(a, k, Asked(a, willing)[k])
<1> DEFINE found == Asked(a, willing)
           S == {x \in Kinds : x \in Chain[k] => AnswerIs(a, x, found[x])}
<1>0. found = [x \in Kinds |->
                 Answered(a, willing, x, IF Dep[x] = None THEN Nothing ELSE found[Dep[x]])]
  BY AskedIs
<1> HIDE DEF found
<1>1. ASSUME NEW x \in Kinds, Dep[x] = None \/ Dep[x] \in S PROVE x \in S
  <2> SUFFICES ASSUME x \in Chain[k] PROVE AnswerIs(a, x, found[x])
    OBVIOUS
  <2> DEFINE sub == IF Dep[x] = None THEN Nothing ELSE found[Dep[x]]
  <2>1. found[x] = Answered(a, willing, x, sub)
    BY <1>0
  <2>2. IF Dep[x] = None THEN sub = Nothing ELSE AnswerIs(a, Dep[x], sub)
    BY <1>1, ChainFacts DEF WithWhatItBuildsOn
  <2>3. Chain[k] \subseteq Kinds
    BY ChainFacts
  <2> HIDE DEF sub
  <2> QED
    BY <2>1, <2>2, <2>3, AnsweredIs
<1>2. k \in S
  <2> HIDE DEF S
  <2> QED
    BY <1>1, KindInduction
<1> QED
  BY <1>2, ChainFacts DEF found
-----------------------------------------------------------------------------
(* What a step leaves of the cache.                                        *)
LEMMA ProgramFacts ==
  ASSUME NEW p \in Programs
  PROVE  /\ p.asks \subseteq Kinds /\ p.edits \subseteq Facets
         /\ p.changes \in Nat /\ p.outers \in Nat
         /\ \A k \in p.asks : Chain[k] \subseteq p.asks
<1>1. p \in [asks: SUBSET Kinds, edits: SUBSET Facets, changes: Nat, outers: Nat]
      /\ WithWhatItBuildsOn(p.asks)
  BY ProgramsAssumption
<1> QED
  BY <1>1, ChainFacts

LEMMA RetiredIs ==
  ASSUME NEW a, Shaped(a), NEW gone
  PROVE  LET b == Retired(a, gone)
         IN  /\ Shaped(b)
             /\ b.vouched = a.vouched /\ b.soft = a.soft /\ b.tainted = a.tainted
             /\ b.outer = a.outer
             /\ DOMAIN b.cache = DOMAIN a.cache \ gone
             /\ \A k \in DOMAIN b.cache : b.cache[k] = a.cache[k]
             /\ DOMAIN b.kept \subseteq DOMAIN a.kept \cup DOMAIN a.cache
             /\ \A k \in DOMAIN b.kept :
                  \/ k \in DOMAIN a.cache /\ b.kept[k] = a.cache[k]
                  \/ k \in DOMAIN a.kept /\ b.kept[k] = a.kept[k]
<1> DEFINE cache == Without(a.cache, gone)
           old == Only(a.cache, gone \cap (Incremental \cup Skips \cup Sound))
           kept == Over(old, a.kept)
           b == Retired(a, gone)
<1>1. b = [x \in Fields |-> IF x = "cache" THEN cache ELSE IF x = "kept" THEN kept ELSE a[x]]
  BY DEF Retired, Shaped
<1>2. DOMAIN cache = DOMAIN a.cache \ gone /\ \A k \in DOMAIN cache : cache[k] = a.cache[k]
  BY DEF Without
<1>3. DOMAIN old \subseteq DOMAIN a.cache /\ \A k \in DOMAIN old : old[k] = a.cache[k]
  BY DEF Only
<1> HIDE DEF cache, old
<1>4. /\ DOMAIN kept = DOMAIN a.kept \cup DOMAIN old
      /\ \A k \in DOMAIN kept : kept[k] = IF k \in DOMAIN old THEN old[k] ELSE a.kept[k]
  BY DEF Over
<1> HIDE DEF kept, b
<1>5. Shaped(b)
  BY <1>1 DEF Shaped
<1>6. /\ b.cache = cache /\ b.kept = kept
      /\ b.vouched = a.vouched /\ b.soft = a.soft /\ b.tainted = a.tainted
      /\ b.outer = a.outer
  BY <1>1 DEF Fields
<1>7. \A k \in DOMAIN b.kept :
        \/ k \in DOMAIN a.cache /\ b.kept[k] = a.cache[k]
        \/ k \in DOMAIN a.kept /\ b.kept[k] = a.kept[k]
  BY <1>3, <1>4, <1>6
<1> QED
  BY <1>2, <1>3, <1>4, <1>5, <1>6, <1>7 DEF b

(* What is given up is kept, or dropped.                                   *)
LEMMA RetiredIsRight ==
  ASSUME NEW fn, NEW a, NEW pend, NEW prog, Right(fn, a, pend, prog), NEW gone
  PROVE  Right(fn, Retired(a, gone), pend, prog)
<1> DEFINE b == Retired(a, gone)
           exact == Inexact(a.tainted, a.soft)
           lax == Inexact(a.tainted, Kinds)
<1>1. /\ Shaped(b)
      /\ b.vouched = a.vouched /\ b.soft = a.soft /\ b.tainted = a.tainted
      /\ b.outer = a.outer
      /\ DOMAIN b.cache = DOMAIN a.cache \ gone
      /\ \A k \in DOMAIN b.cache : b.cache[k] = a.cache[k]
      /\ DOMAIN b.kept \subseteq DOMAIN a.kept \cup DOMAIN a.cache
      /\ \A k \in DOMAIN b.kept :
           \/ k \in DOMAIN a.cache /\ b.kept[k] = a.cache[k]
           \/ k \in DOMAIN a.kept /\ b.kept[k] = a.kept[k]
  BY RetiredIs DEF Right
<1>2. /\ TrueEntries(fn.log, exact, prog.asks, a.cache)
      /\ TrueEntries(fn.log, lax, prog.asks, a.kept)
  BY DEF Right
<1>3. exact \subseteq lax
  BY DEF Inexact
<1> HIDE DEF b, exact, lax
<1>4. TrueEntries(fn.log, exact, prog.asks, b.cache)
  BY <1>1, <1>2 DEF TrueEntries
<1>5. TrueEntries(fn.log, lax, prog.asks, b.kept)
  <2>1. ASSUME NEW k \in DOMAIN b.kept PROVE TrueEntry(fn.log, lax, k, b.kept[k])
    <3>1. CASE k \in DOMAIN a.cache /\ b.kept[k] = a.cache[k]
      BY <1>2, <1>3, <3>1, LessIsTrue DEF TrueEntries
    <3>2. CASE k \in DOMAIN a.kept /\ b.kept[k] = a.kept[k]
      BY <1>2, <3>2 DEF TrueEntries
    <3> QED
      BY <1>1, <3>1, <3>2
  <2>2. DOMAIN b.kept \subseteq prog.asks
    BY <1>1, <1>2 DEF TrueEntries
  <2> QED
    BY <2>1, <2>2 DEF TrueEntries
<1>6. Current(fn.log, pend, b.outer, b.cache)
  BY <1>1 DEF Current, Right
<1> QED
  BY <1>1, <1>4, <1>5, <1>6 DEF Right, exact, lax, b

(* An entry the pending edits left alone, or made since, is true now.      *)
LEMMA HeldStands ==
  ASSUME NEW a, NEW pend, NEW prog, Right(function, a, pend, prog),
         NEW k \in DOMAIN a.cache,
         Reach(k) \cap pend = {} \/ a.cache[k].mark = Now
  PROVE  Stands(function.log, Inexact(a.tainted, a.soft), k, a.cache[k].result, Now, a.outer)
<1> DEFINE e == a.cache[k]
           inexact == Inexact(a.tainted, a.soft)
<1>1. k \in Kinds /\ TrueEntry(function.log, inexact, k, e)
  BY ProgramFacts DEF Right, TrueEntries
<1>2. /\ ReadsOuter(k) => e.outer = a.outer
      /\ \A f \in Reach(k) \ (pend \cup {OuterFacts}) : Quiet(function.log, f, e.mark)
  BY DEF Right, Current
<1>3. e.mark \in 0 .. Now /\ Now = Len(function.log) /\ Now \in Nat
  BY <1>1 DEF TrueEntry, Entry, Now, Right
<1> HIDE DEF e
<1>4. \A f \in Reach(k) \ {OuterFacts} : Quiet(function.log, f, e.mark)
  <2>1. CASE Reach(k) \cap pend = {}
    BY <1>2, <2>1
  <2>2. CASE e.mark = Now
    BY <1>3, <2>2 DEF Quiet
  <2> QED
    BY <2>1, <2>2 DEF e
<1> HIDE DEF inexact
<1>5. Stands(function.log, inexact, k, e.result, e.mark, e.outer)
  BY <1>1 DEF TrueEntry
<1> QED
  BY <1>1, <1>2, <1>3, <1>4, <1>5, StillCovered DEF Stands, e, inexact

LEMMA CanAsk ==
  ASSUME NEW a, NEW pend, NEW prog, Right(function, a, pend, prog), NEW k \in prog.asks,
         \A x \in Chain[k] \cap DOMAIN a.cache :
           Reach(x) \cap pend = {} \/ a.cache[x].mark = Now
  PROVE  Askable(a, Chain[k])
<1>1. function \in [log: Seq(Change), from: Nat] /\ function.from <= Now
  BY DEF Right, Now
<1>2. a.outer \in Nat /\ a.tainted \in BOOLEAN
  BY ProgramFacts DEF Right
<1>3. \A x \in DOMAIN a.kept :
        TrueEntry(function.log, Inexact(a.tainted, Kinds), x, a.kept[x])
  BY DEF Right, TrueEntries
<1>4. ASSUME NEW x \in Chain[k] \cap DOMAIN a.cache
      PROVE  /\ TrueEntry(function.log, Inexact(a.tainted, a.soft), x, a.cache[x])
             /\ Stands(function.log, Inexact(a.tainted, a.soft), x, a.cache[x].result,
                       Now, a.outer)
  BY HeldStands DEF Right, TrueEntries
<1> QED
  BY <1>1, <1>2, <1>3, <1>4 DEF Askable

LEMMA GotIs ==
  ASSUME NEW a, Shaped(a), NEW k, NEW willing
  PROVE  LET b == Got(a, k, willing)
             found == Asked(a, willing)[k]
         IN  /\ Shaped(b)
             /\ b.vouched = a.vouched /\ b.outer = a.outer
             /\ b.soft = (a.soft \ found.hard) \cup found.soft
             /\ b.tainted = (a.tainted \/ found.soft # {})
             /\ DOMAIN b.cache = DOMAIN a.cache \cup DOMAIN found.held
             /\ \A x \in DOMAIN found.held : b.cache[x] = found.held[x]
             /\ \A x \in DOMAIN b.cache \ DOMAIN found.held : b.cache[x] = a.cache[x]
             /\ DOMAIN b.kept \subseteq DOMAIN a.kept
             /\ \A x \in DOMAIN b.kept : b.kept[x] = a.kept[x]
<1> DEFINE b == Got(a, k, willing)
           found == Asked(a, willing)[k]
           cache == Over(found.held, a.cache)
           kept == Without(a.kept, found.made)
           soft == (a.soft \ found.hard) \cup found.soft
<1>1. b = [x \in Fields |->
             IF x = "cache" THEN cache ELSE IF x = "kept" THEN kept
             ELSE IF x = "soft" THEN soft
             ELSE IF x = "tainted" THEN a.tainted \/ found.soft # {} ELSE a[x]]
  <2> HIDE DEF found
  <2> QED
    BY DEF Got, Shaped, found
<1> HIDE DEF found
<1>2. /\ DOMAIN cache = DOMAIN a.cache \cup DOMAIN found.held
      /\ \A x \in DOMAIN cache : cache[x] = IF x \in DOMAIN found.held THEN found.held[x] ELSE a.cache[x]
  BY DEF Over
<1>3. DOMAIN kept \subseteq DOMAIN a.kept /\ \A x \in DOMAIN kept : kept[x] = a.kept[x]
  BY DEF Without
<1> HIDE DEF cache, kept, soft, b
<1>4. Shaped(b)
  BY <1>1 DEF Shaped
<1>5. /\ b.cache = cache /\ b.kept = kept /\ b.soft = soft
      /\ b.vouched = a.vouched /\ b.outer = a.outer
      /\ b.tainted = (a.tainted \/ found.soft # {})
  BY <1>1 DEF Fields
<1>6. /\ \A x \in DOMAIN found.held : b.cache[x] = found.held[x]
      /\ \A x \in DOMAIN b.cache \ DOMAIN found.held : b.cache[x] = a.cache[x]
  BY <1>2, <1>5
<1> QED
  BY <1>2, <1>3, <1>4, <1>5, <1>6 DEF b, found, soft

(* What is asked leaves the cache right, and the answer true now.          *)
LEMMA GotIsRight ==
  ASSUME NEW a, NEW pend, NEW prog, Right(function, a, pend, prog), NEW k \in prog.asks,
         Askable(a, Chain[k]), NEW willing
  PROVE  LET b == Got(a, k, willing)
         IN  /\ Right(function, b, pend, prog)
             /\ k \in DOMAIN b.cache
             /\ Stands(function.log, Inexact(b.tainted, b.soft), k, b.cache[k].result, Now, b.outer)
             /\ b.soft \subseteq a.soft \cup DOMAIN a.kept
<1> DEFINE b == Got(a, k, willing)
           found == Asked(a, willing)[k]
           before == Inexact(a.tainted, a.soft)
           after == Inexact(b.tainted, b.soft)
           log == function.log
<1>1. /\ Shaped(b)
      /\ b.vouched = a.vouched /\ b.outer = a.outer
      /\ b.soft = (a.soft \ found.hard) \cup found.soft
      /\ b.tainted = (a.tainted \/ found.soft # {})
      /\ DOMAIN b.cache = DOMAIN a.cache \cup DOMAIN found.held
      /\ \A x \in DOMAIN found.held : b.cache[x] = found.held[x]
      /\ \A x \in DOMAIN b.cache \ DOMAIN found.held : b.cache[x] = a.cache[x]
      /\ DOMAIN b.kept \subseteq DOMAIN a.kept
      /\ \A x \in DOMAIN b.kept : b.kept[x] = a.kept[x]
  BY GotIs DEF Right
<1>2. k \in Kinds /\ Chain[k] \subseteq prog.asks /\ prog.asks \subseteq Kinds
  BY ProgramFacts DEF Right
<1>3. AnswerIs(a, k, found)
  BY <1>2, AskedAnswers
<1> HIDE DEF b, found
<1>4. after = InexactAfter(a, found)
  BY <1>1 DEF InexactAfter, Inexact
<1>5. /\ k \in DOMAIN found.held /\ DOMAIN found.held \subseteq Chain[k]
      /\ found.hard \subseteq DOMAIN found.held
      /\ found.soft \subseteq Chain[k] \cap DOMAIN a.kept
      /\ \A x \in DOMAIN found.held :
           /\ TrueEntry(log, after, x, found.held[x])
           /\ Stands(log, after, x, found.held[x].result, Now, a.outer)
           /\ \/ found.held[x].mark = Now /\ found.held[x].outer = a.outer
              \/ x \in DOMAIN a.cache /\ found.held[x] = a.cache[x]
  BY <1>3, <1>4 DEF AnswerIs
<1>6. ASSUME NEW x \in Kinds \ DOMAIN found.held PROVE x \in before => x \in after
  BY <1>1, <1>5, <1>6 DEF Inexact
<1>7. Inexact(a.tainted, Kinds) \subseteq Inexact(b.tainted, Kinds)
  BY <1>1 DEF Inexact
<1> HIDE DEF before, after, log
<1>8. TrueEntries(log, before, prog.asks, a.cache)
      /\ TrueEntries(log, Inexact(a.tainted, Kinds), prog.asks, a.kept)
  BY DEF Right, before, log
<1>9. TrueEntries(log, after, prog.asks, b.cache)
  <2>1. ASSUME NEW x \in DOMAIN b.cache PROVE TrueEntry(log, after, x, b.cache[x])
    <3>1. CASE x \in DOMAIN found.held
      BY <1>1, <1>5, <3>1
    <3>2. CASE x \notin DOMAIN found.held
      <4>1. x \in DOMAIN a.cache /\ b.cache[x] = a.cache[x] /\ x \in Kinds
        BY <1>1, <1>2, <1>8, <3>2 DEF TrueEntries
      <4> QED
        BY <1>6, <1>8, <3>2, <4>1, LessIsTrue DEF TrueEntries
    <3> QED
      BY <3>1, <3>2
  <2>2. DOMAIN b.cache \subseteq prog.asks
    BY <1>1, <1>2, <1>5, <1>8 DEF TrueEntries
  <2> QED
    BY <2>1, <2>2 DEF TrueEntries
<1>10. TrueEntries(log, Inexact(b.tainted, Kinds), prog.asks, b.kept)
  <2>1. ASSUME NEW x \in DOMAIN b.kept
        PROVE  TrueEntry(log, Inexact(b.tainted, Kinds), x, b.kept[x])
    BY <1>1, <1>7, <1>8, LessIsTrue DEF TrueEntries
  <2> QED
    BY <1>1, <1>8, <2>1 DEF TrueEntries
<1>11. Current(log, pend, b.outer, b.cache)
  <2>0. Current(log, pend, a.outer, a.cache) /\ Now = Len(log) /\ Now \in Nat
    BY DEF Right, Now, log
  <2> SUFFICES ASSUME NEW x \in DOMAIN b.cache
               PROVE  /\ ReadsOuter(x) => b.cache[x].outer = b.outer
                      /\ \A f \in Reach(x) \ (pend \cup {OuterFacts}) :
                           Quiet(log, f, b.cache[x].mark)
    BY DEF Current
  <2>1. CASE x \in DOMAIN a.cache /\ b.cache[x] = a.cache[x]
    BY <1>1, <2>0, <2>1 DEF Current
  <2>2. CASE b.cache[x].mark = Now /\ b.cache[x].outer = a.outer
    BY <1>1, <2>0, <2>2 DEF Quiet
  <2> QED
    BY <1>1, <1>5, <2>1, <2>2
<1>12. b.soft \subseteq prog.asks /\ b.tainted \in BOOLEAN
  BY <1>1, <1>2, <1>5 DEF Right
<1>13. Right(function, b, pend, prog)
  BY <1>1, <1>9, <1>10, <1>11, <1>12 DEF Right, after, log
<1>14. Stands(log, after, k, b.cache[k].result, Now, b.outer) /\ k \in DOMAIN b.cache
  BY <1>1, <1>5
<1> QED
  BY <1>1, <1>5, <1>13, <1>14 DEF b, after, log

LEMMA HardenedIs ==
  ASSUME NEW a, Shaped(a), NEW k
  PROVE  LET b == Hardened(a, k)
         IN  /\ Shaped(b)
             /\ b.vouched = a.vouched /\ b.outer = a.outer /\ b.tainted = a.tainted
             /\ b.soft = a.soft \ {k}
             /\ DOMAIN b.cache = DOMAIN a.cache \ (a.soft \cap {k})
             /\ \A x \in DOMAIN b.cache : b.cache[x] = a.cache[x]
             /\ DOMAIN b.kept = DOMAIN a.kept \ ({k} \cap (Sound \ Incremental))
             /\ \A x \in DOMAIN b.kept : b.kept[x] = a.kept[x]
<1> DEFINE b == Hardened(a, k)
           soft == a.soft \cap {k}
           cache == Without(a.cache, soft)
           kept == Without(a.kept, {k} \cap (Sound \ Incremental))
           left == a.soft \ soft
<1>1. b = [x \in Fields |-> IF x = "cache" THEN cache ELSE IF x = "kept" THEN kept
                            ELSE IF x = "soft" THEN left ELSE a[x]]
  BY DEF Hardened, Shaped
<1>2. DOMAIN cache = DOMAIN a.cache \ soft /\ \A x \in DOMAIN cache : cache[x] = a.cache[x]
  BY DEF Without
<1>3. /\ DOMAIN kept = DOMAIN a.kept \ ({k} \cap (Sound \ Incremental))
      /\ \A x \in DOMAIN kept : kept[x] = a.kept[x]
  BY DEF Without
<1>4. left = a.soft \ {k}
  OBVIOUS
<1> HIDE DEF b, cache, kept, left
<1>5. Shaped(b)
  BY <1>1 DEF Shaped
<1>6. /\ b.cache = cache /\ b.kept = kept /\ b.soft = left
      /\ b.vouched = a.vouched /\ b.outer = a.outer /\ b.tainted = a.tainted
  BY <1>1 DEF Fields
<1> QED
  BY <1>2, <1>3, <1>4, <1>5, <1>6 DEF b

LEMMA HardenedIsRight ==
  ASSUME NEW fn, NEW a, NEW pend, NEW prog, Right(fn, a, pend, prog), NEW k
  PROVE  Right(fn, Hardened(a, k), pend, prog)
<1> DEFINE b == Hardened(a, k)
           before == Inexact(a.tainted, a.soft)
           after == Inexact(b.tainted, b.soft)
<1>1. /\ Shaped(b)
      /\ b.vouched = a.vouched /\ b.outer = a.outer /\ b.tainted = a.tainted
      /\ b.soft = a.soft \ {k}
      /\ DOMAIN b.cache = DOMAIN a.cache \ (a.soft \cap {k})
      /\ \A x \in DOMAIN b.cache : b.cache[x] = a.cache[x]
      /\ DOMAIN b.kept = DOMAIN a.kept \ ({k} \cap (Sound \ Incremental))
      /\ \A x \in DOMAIN b.kept : b.kept[x] = a.kept[x]
  BY HardenedIs DEF Right
<1> HIDE DEF b
<1>2. ASSUME NEW x \in DOMAIN b.cache PROVE x \in before => x \in after
  BY <1>1 DEF Inexact
<1> HIDE DEF before, after
<1>3. TrueEntries(fn.log, before, prog.asks, a.cache)
  BY DEF Right, before
<1>4. TrueEntries(fn.log, after, prog.asks, b.cache)
  BY <1>1, <1>2, <1>3, LessIsTrue DEF TrueEntries
<1>5. TrueEntries(fn.log, Inexact(b.tainted, Kinds), prog.asks, b.kept)
  BY <1>1 DEF Right, TrueEntries
<1>6. Current(fn.log, pend, b.outer, b.cache)
  BY <1>1 DEF Right, Current
<1> QED
  BY <1>1, <1>4, <1>5, <1>6 DEF Right, after, b

(* What a module pass asks finds nothing held but what is vouched for or   *)
(* was made now.                                                           *)
LEMMA ForgottenIsRight ==
  ASSUME NEW a, NEW pend, NEW prog, Right(function, a, pend, prog)
  PROVE  /\ Right(function, Forgotten(a), pend, prog)
         /\ \A k \in prog.asks : Askable(Forgotten(a), Chain[k])
<1>1. Right(function, Forgotten(a), pend, prog)
  BY RetiredIsRight DEF Forgotten
<1>2. ASSUME NEW x \in DOMAIN Forgotten(a).cache
      PROVE  Reach(x) \cap pend = {} \/ Forgotten(a).cache[x].mark = Now
  <2>1. CASE a.vouched = {Now}
    BY <2>1 DEF Right, Now
  <2>2. CASE a.vouched # {Now}
    <3> DEFINE gone == {k \in DOMAIN a.cache : a.cache[k].mark # Now}
    <3>1. Forgotten(a) = Retired(a, gone)
      BY <2>2 DEF Forgotten
    <3>2. /\ DOMAIN Retired(a, gone).cache = DOMAIN a.cache \ gone
          /\ \A k \in DOMAIN Retired(a, gone).cache : Retired(a, gone).cache[k] = a.cache[k]
      BY RetiredIs DEF Right
    <3> QED
      BY <1>2, <3>1, <3>2
  <2> QED
    BY <2>1, <2>2
<1>3. ASSUME NEW k \in prog.asks PROVE Askable(Forgotten(a), Chain[k])
  BY <1>1, <1>2, CanAsk
<1> QED
  BY <1>1, <1>3

(* The history grows by a change whose facets are pending.                 *)
LEMMA GrownIsRight ==
  ASSUME NEW fn, NEW a, NEW pend, NEW prog, Right(fn, a, pend, prog),
         NEW c \in Change, NEW to \in [log: Seq(Change), from: Nat],
         to.log = Append(fn.log, c), to.from <= Len(to.log),
         NEW all \in SUBSET Facets, pend \subseteq all, c.facets \subseteq all
  PROVE  Right(to, a, all, prog)
<1> DEFINE exact == Inexact(a.tainted, a.soft)
           lax == Inexact(a.tainted, Kinds)
<1> HIDE DEF exact, lax
<1>1. fn.log \in Seq(Change) /\ Len(to.log) = Len(fn.log) + 1 /\ Len(fn.log) \in Nat
  BY DEF Right
<1>2. ASSUME NEW inexact, NEW held, TrueEntries(fn.log, inexact, prog.asks, held)
      PROVE  TrueEntries(to.log, inexact, prog.asks, held)
  <2>1. prog.asks \subseteq Kinds
    BY ProgramFacts DEF Right
  <2>2. ASSUME NEW k \in DOMAIN held PROVE TrueEntry(to.log, inexact, k, held[k])
    BY <1>1, <1>2, <2>1, EntryOutlivesAppend DEF TrueEntries
  <2> QED
    BY <1>2, <2>2 DEF TrueEntries
<1>3. TrueEntries(to.log, exact, prog.asks, a.cache)
      /\ TrueEntries(to.log, lax, prog.asks, a.kept)
  BY <1>2 DEF Right, exact, lax
<1>4. Current(to.log, all, a.outer, a.cache)
  <2> SUFFICES ASSUME NEW k \in DOMAIN a.cache
               PROVE  /\ ReadsOuter(k) => a.cache[k].outer = a.outer
                      /\ \A f \in Reach(k) \ (all \cup {OuterFacts}) :
                           Quiet(to.log, f, a.cache[k].mark)
    BY DEF Current
  <2>1. Current(fn.log, pend, a.outer, a.cache)
    BY DEF Right
  <2>2. a.cache[k].mark \in Nat
    BY <1>1 DEF Right, TrueEntries, TrueEntry, Entry
  <2>3. ASSUME NEW f \in Reach(k) \ (all \cup {OuterFacts})
        PROVE  Quiet(to.log, f, a.cache[k].mark)
    <3>1. Quiet(fn.log, f, a.cache[k].mark)
      BY <2>1 DEF Current
    <3>2. ASSUME NEW i \in a.cache[k].mark + 1 .. Len(to.log) PROVE f \notin to.log[i].facets
      <4>1. CASE i \in a.cache[k].mark + 1 .. Len(fn.log)
        <5>1. to.log[i] = fn.log[i]
          BY <1>1, <2>2, <4>1
        <5> QED
          BY <3>1, <4>1, <5>1 DEF Quiet
      <4>2. CASE i = Len(fn.log) + 1
        <5>1. to.log[i] = c
          BY <1>1, <4>2
        <5> QED
          BY <5>1
      <4> QED
        BY <1>1, <2>2, <4>1, <4>2
    <3> QED
      BY <3>2 DEF Quiet
  <2> QED
    BY <2>1, <2>3 DEF Current
<1>5. /\ a.vouched \in {{}} \cup {{n} : n \in 0 .. Len(to.log)}
      /\ a.vouched # {Len(to.log)}
  <2>1. CASE a.vouched = {}
    BY <2>1
  <2>2. ASSUME NEW n \in 0 .. Len(fn.log), a.vouched = {n}
        PROVE  n \in 0 .. Len(to.log) /\ a.vouched # {Len(to.log)}
    <3>1. n \in 0 .. Len(to.log) /\ n # Len(to.log)
      BY <1>1
    <3> QED
      BY <2>2, <3>1
  <2>3. a.vouched \in {{}} \cup {{n} : n \in 0 .. Len(fn.log)}
    BY DEF Right
  <2> QED
    BY <2>1, <2>2, <2>3
<1>6. /\ prog \in Programs /\ Shaped(a) /\ a.outer \in 0 .. prog.outers
      /\ a.soft \subseteq prog.asks /\ a.tainted \in BOOLEAN
  BY DEF Right
<1> QED
  BY <1>3, <1>4, <1>5, <1>6 DEF Right, exact, lax
-----------------------------------------------------------------------------
(* The steps.                                                              *)
LEMMA InitInv == Init => Inv
<1> SUFFICES ASSUME Init PROVE Inv
  OBVIOUS
<1>1. function.log = <<>> /\ function.from = 0 /\ Len(function.log) = 0
      /\ function \in [log: Seq(Change), from: Nat]
  BY DEF Init
<1>2. /\ Shaped(analyses) /\ analyses.soft = {} /\ analyses.tainted = FALSE
      /\ analyses.vouched = {} /\ analyses.outer = 0
      /\ DOMAIN analyses.cache = {} /\ DOMAIN analyses.kept = {}
  <2>1. DOMAIN <<>> = {}
    OBVIOUS
  <2>2. Shaped(analyses)
    BY DEF Init, New, Shaped, Fields
  <2> QED
    BY <2>1, <2>2 DEF Init, New
<1>3. program \in Programs /\ pending = {} /\ 0 \in 0 .. program.outers
  BY ProgramFacts DEF Init
<1>4. /\ TrueEntries(function.log, Inexact(analyses.tainted, analyses.soft), program.asks,
                     analyses.cache)
      /\ TrueEntries(function.log, Inexact(analyses.tainted, Kinds), program.asks,
                     analyses.kept)
      /\ Current(function.log, pending, analyses.outer, analyses.cache)
  BY <1>2 DEF TrueEntries, Current
<1>5. analyses.tainted \in BOOLEAN
  BY <1>2
<1>6. Right(function, analyses, pending, program)
  BY <1>1, <1>2, <1>3, <1>4, <1>5 DEF Right
<1> QED
  BY <1>6 DEF Inv

(* A pass asks once it has told of what it edited.                         *)
LEMMA TellingIsAskable ==
  ASSUME ~AsksUnreported, Inv, NEW k \in program.asks, MayAsk(k)
  PROVE  \A x \in Chain[k] \cap DOMAIN analyses.cache :
           Reach(x) \cap pending = {} \/ analyses.cache[x].mark = Now
BY DEF MayAsk, LeftTrue

LEMMA GetInv ==
  ASSUME ~AsksUnreported, Inv, NEW k \in program.asks, NEW willing, Get(k, willing)
  PROVE  Inv'
<1>1. Askable(analyses, Chain[k])
  BY TellingIsAskable, CanAsk DEF Get, Inv
<1>2. Right(function, Got(analyses, k, willing), pending, program)
  BY <1>1, GotIsRight DEF Inv
<1> QED
  BY <1>2 DEF Get, Inv

LEMMA HardenedIsAskable ==
  ASSUME ~AsksUnreported, Inv, NEW k \in program.asks, MayAsk(k)
  PROVE  /\ Right(function, Hardened(analyses, k), pending, program)
         /\ Askable(Hardened(analyses, k), Chain[k])
<1>1. Right(function, Hardened(analyses, k), pending, program)
  BY HardenedIsRight DEF Inv
<1>2. \A x \in DOMAIN Hardened(analyses, k).cache :
        x \in DOMAIN analyses.cache /\ Hardened(analyses, k).cache[x] = analyses.cache[x]
  BY HardenedIs DEF Inv, Right
<1> QED
  BY <1>1, <1>2, TellingIsAskable, CanAsk

LEMMA GetExactInv ==
  ASSUME ~AsksUnreported, Inv, NEW k \in program.asks, NEW willing, GetExact(k, willing)
  PROVE  Inv'
<1>1. Right(function, Got(Hardened(analyses, k), k, willing), pending, program)
  BY HardenedIsAskable, GotIsRight DEF GetExact
<1> QED
  BY <1>1 DEF GetExact, Inv

LEMMA AskThroughModuleInv ==
  ASSUME Inv, NEW k \in program.asks, NEW willing, AskThroughModule(k, willing)
  PROVE  Inv'
<1>1. Right(function, Got(Forgotten(analyses), k, willing), pending, program)
  BY ForgottenIsRight, GotIsRight DEF Inv
<1> QED
  BY <1>1 DEF AskThroughModule, Inv

(* A cache vouched for, with no edit pending.                              *)
LEMMA VouchedIsRight ==
  ASSUME NEW a, Right(function, a, pending, program),
         \A k \in DOMAIN a.cache : Reach(k) \cap pending = {} \/ a.cache[k].mark = Now
  PROVE  Right(function, [a EXCEPT !.vouched = {Now}], {}, program)
<1> DEFINE b == [a EXCEPT !.vouched = {Now}]
<1>1. b = [x \in Fields |-> IF x = "vouched" THEN {Now} ELSE a[x]]
  BY DEF Right, Shaped
<1> HIDE DEF b
<1>2. /\ Shaped(b) /\ b.cache = a.cache /\ b.kept = a.kept /\ b.soft = a.soft
      /\ b.tainted = a.tainted /\ b.outer = a.outer /\ b.vouched = {Now}
  BY <1>1 DEF Shaped, Fields
<1>3. Current(function.log, {}, a.outer, a.cache)
  <2> SUFFICES ASSUME NEW k \in DOMAIN a.cache
               PROVE  /\ ReadsOuter(k) => a.cache[k].outer = a.outer
                      /\ \A f \in Reach(k) \ ({} \cup {OuterFacts}) :
                           Quiet(function.log, f, a.cache[k].mark)
    BY DEF Current
  <2>1. /\ ReadsOuter(k) => a.cache[k].outer = a.outer
        /\ \A f \in Reach(k) \ (pending \cup {OuterFacts}) :
             Quiet(function.log, f, a.cache[k].mark)
    BY DEF Right, Current
  <2>2. Now = Len(function.log) /\ Now \in Nat
    BY DEF Right, Now
  <2>3. CASE Reach(k) \cap pending = {}
    BY <2>1, <2>3
  <2>4. CASE a.cache[k].mark = Now
    BY <2>1, <2>2, <2>4 DEF Quiet
  <2> QED
    BY <2>3, <2>4
<1>4. Now = Len(function.log) /\ Now \in 0 .. Len(function.log)
  BY DEF Right, Now
<1> QED
  BY <1>2, <1>3, <1>4 DEF Right, b

LEMMA InvalidateInv ==
  ASSUME Inv, NEW names \in SUBSET DOMAIN analyses.cache,
         NEW updated \in SUBSET DOMAIN analyses.cache, NEW cfg \in BOOLEAN,
         Invalidate(names, cfg, updated)
  PROVE  Inv'
<1> DEFINE preserved == names \cup updated \cup (IF cfg THEN CfgOnly ELSE {})
           gone == {k \in DOMAIN analyses.cache :
                      \/ k \notin preserved
                      \/ k \in updated /\ analyses.cache[k].mark # Now}
           a == Retired(analyses, gone)
<1>1. Right(function, a, pending, program)
  BY RetiredIsRight DEF Inv
<1>2. DOMAIN a.cache = DOMAIN analyses.cache \ gone
      /\ \A k \in DOMAIN a.cache : a.cache[k] = analyses.cache[k]
  BY RetiredIs DEF Inv, Right
<1>3. ASSUME NEW k \in DOMAIN a.cache
      PROVE  Reach(k) \cap pending = {} \/ a.cache[k].mark = Now
  <2> HIDE DEF a
  <2>1. k \in preserved /\ (k \in updated => analyses.cache[k].mark = Now)
    BY <1>2
  <2>2. CASE k \in names
    BY <1>2, <2>2 DEF Invalidate, LeftTrue
  <2>3. CASE cfg /\ k \in CfgOnly
    BY <2>3, CfgAssumption DEF Invalidate
  <2> QED
    BY <1>2, <2>1, <2>2, <2>3
<1>4. analyses' = [a EXCEPT !.vouched = {Now}]
  BY DEF Invalidate
<1> HIDE DEF a
<1>5. Right(function, [a EXCEPT !.vouched = {Now}], {}, program)
  BY <1>1, <1>3, VouchedIsRight
<1> QED
  BY <1>4, <1>5 DEF Invalidate, Inv

LEMMA VouchInv ==
  ASSUME Inv, Vouch
  PROVE  Inv'
<1>1. Right(function, [analyses EXCEPT !.vouched = {Now}], {}, program)
  BY VouchedIsRight DEF Inv, Vouch, LeftTrue
<1> QED
  BY <1>1 DEF Vouch, Inv

(* `refresh_soft`: what is soft is dropped, and what is left was not.      *)
LEMMA RefreshSoftInv ==
  ASSUME Inv, RefreshSoft
  PROVE  Inv'
<1> DEFINE a == analyses
           cache == Without(a.cache, a.soft)
           kept == Without(a.kept, a.soft)
           before == Inexact(a.tainted, a.soft)
           after == Inexact(a.tainted, {})
<1>1. analyses' = [x \in Fields |-> IF x = "cache" THEN cache ELSE IF x = "kept" THEN kept
                                    ELSE IF x = "soft" THEN {} ELSE a[x]]
  BY DEF RefreshSoft, Inv, Right, Shaped
<1>2. DOMAIN cache = DOMAIN a.cache \ a.soft /\ \A k \in DOMAIN cache : cache[k] = a.cache[k]
  BY DEF Without
<1>3. DOMAIN kept \subseteq DOMAIN a.kept /\ \A k \in DOMAIN kept : kept[k] = a.kept[k]
  BY DEF Without
<1> DEFINE b == analyses'
<1>4. b = [x \in Fields |-> b[x]]
  BY <1>1
<1>5. /\ b.cache = cache /\ b.kept = kept /\ b.soft = {} /\ b.vouched = a.vouched
      /\ b.tainted = a.tainted /\ b.outer = a.outer
  BY <1>1 DEF Fields
<1> HIDE DEF cache, kept
<1>6. ASSUME NEW k \in DOMAIN cache PROVE k \in before => k \in after
  BY <1>2 DEF Inexact
<1> HIDE DEF before, after, b
<1>7. TrueEntries(function.log, before, program.asks, a.cache)
      /\ TrueEntries(function.log, Inexact(a.tainted, Kinds), program.asks, a.kept)
  BY DEF Inv, Right, before
<1>8. TrueEntries(function.log, after, program.asks, b.cache)
  BY <1>2, <1>5, <1>6, <1>7, LessIsTrue DEF TrueEntries
<1>9. TrueEntries(function.log, Inexact(a.tainted, Kinds), program.asks, b.kept)
  BY <1>3, <1>5, <1>7 DEF TrueEntries
<1>10. Current(function.log, pending, a.outer, b.cache)
  BY <1>2, <1>5 DEF Inv, Right, Current
<1>11. Shaped(b)
  BY <1>4 DEF Shaped
<1>12. Right(function, b, pending, program)
  BY <1>5, <1>8, <1>9, <1>10, <1>11 DEF Inv, Right, after
<1> QED
  BY <1>12 DEF RefreshSoft, Inv, b

(* What read the outer facts is given up when they change.                 *)
LEMMA OuterChangedInv ==
  ASSUME Inv, NEW outer \in 0 .. program.outers, OuterChanged(outer)
  PROVE  Inv'
<1> DEFINE gone == {k \in DOMAIN analyses.cache : ReadsOuter(k)}
           a == Retired(analyses, gone)
           b == [a EXCEPT !.outer = outer]
<1>1. Right(function, a, pending, program)
  BY RetiredIsRight DEF Inv
<1>2. ASSUME NEW k \in DOMAIN a.cache PROVE ~ReadsOuter(k)
  BY RetiredIs DEF Inv, Right
<1> HIDE DEF a
<1>3. b = [x \in Fields |-> IF x = "outer" THEN outer ELSE a[x]]
  BY <1>1 DEF Right, Shaped
<1> HIDE DEF b
<1>4. /\ Shaped(b) /\ b.cache = a.cache /\ b.kept = a.kept /\ b.soft = a.soft
      /\ b.tainted = a.tainted /\ b.outer = outer /\ b.vouched = a.vouched
  BY <1>3 DEF Shaped, Fields
<1>5. Current(function.log, pending, outer, a.cache)
  BY <1>1, <1>2 DEF Right, Current
<1>6. Right(function, b, pending, program)
  BY <1>1, <1>4, <1>5 DEF Right
<1> QED
  BY <1>6 DEF OuterChanged, Inv, a, b

LEMMA ChangedInv ==
  ASSUME Inv, Changed
  PROVE  Inv'
<1> DEFINE b == New(analyses.outer)
<1>1. /\ Shaped(b) /\ b.soft = {} /\ b.tainted = FALSE /\ b.vouched = {}
      /\ b.outer = analyses.outer
      /\ DOMAIN b.cache = {} /\ DOMAIN b.kept = {}
  <2>1. DOMAIN <<>> = {}
    OBVIOUS
  <2>2. Shaped(b)
    BY DEF New, Shaped, Fields
  <2> QED
    BY <2>1, <2>2 DEF New
<1> HIDE DEF b
<1>2. /\ TrueEntries(function.log, Inexact(b.tainted, b.soft), program.asks, b.cache)
      /\ TrueEntries(function.log, Inexact(b.tainted, Kinds), program.asks, b.kept)
      /\ Current(function.log, {}, b.outer, b.cache)
  BY <1>1 DEF TrueEntries, Current
<1>3. b.tainted \in BOOLEAN
  BY <1>1
<1>4. Right(function, b, {}, program)
  BY <1>1, <1>2, <1>3 DEF Inv, Right
<1> QED
  BY <1>4 DEF Changed, Inv, b

(* A result put in is what `run` would give now.                           *)
LEMMA FreshIs ==
  ASSUME NEW k \in Kinds
  PROVE  /\ Fresh(k) = [s \in Sources[k] |-> IF s[2] = OuterFacts THEN analyses.outer
                                             ELSE Form(function.log, s[2], Now)]
         /\ Inv => /\ Fresh(k) \in [Sources[k] -> Nat]
                   /\ Exact(function.log, k, Fresh(k), Now, analyses.outer)
                   /\ Covered(function.log, k, Fresh(k), Now, analyses.outer)
<1>1. Fresh(k) = [s \in Sources[k] |-> IF s[2] = OuterFacts THEN analyses.outer
                                       ELSE Form(function.log, s[2], Now)]
  BY DEF Fresh, TrueAt, Version, FormAt, Form
<1>2. ASSUME Inv
      PROVE  /\ Fresh(k) \in [Sources[k] -> Nat]
             /\ Exact(function.log, k, Fresh(k), Now, analyses.outer)
             /\ Covered(function.log, k, Fresh(k), Now, analyses.outer)
  <2>1. analyses.outer \in Nat /\ Now \in Nat
    BY <1>2, ProgramFacts DEF Inv, Right, Now
  <2>2. ASSUME NEW s \in Sources[k] PROVE Fresh(k)[s] \in Nat
    BY <1>1, <2>1, FormIs
  <2>3. Exact(function.log, k, Fresh(k), Now, analyses.outer)
    BY <1>1 DEF Exact
  <2>4. Fresh(k) \in [Sources[k] -> Nat]
    BY <1>1, <2>2
  <2> QED
    BY <2>1, <2>3, <2>4, ExactIsCovered
<1> QED
  BY <1>1, <1>2

LEMMA PutIsRight ==
  ASSUME Inv, NEW k \in program.asks, NEW b, Shaped(b),
         b.cache = Put(analyses.cache, k, EntryOf(analyses, Fresh(k), FALSE)),
         DOMAIN b.kept \subseteq DOMAIN analyses.kept,
         \A x \in DOMAIN b.kept : b.kept[x] = analyses.kept[x],
         b.soft \subseteq analyses.soft, analyses.soft \subseteq b.soft \cup {k},
         b.vouched = analyses.vouched, b.tainted = analyses.tainted, b.outer = analyses.outer
  PROVE  Right(function, b, pending, program)
<1> DEFINE a == analyses
           e == EntryOf(a, Fresh(k), FALSE)
           before == Inexact(a.tainted, a.soft)
           after == Inexact(b.tainted, b.soft)
<1>1. k \in Kinds
  BY ProgramFacts DEF Inv, Right
<1>2. /\ Now \in 0 .. Len(function.log) /\ Now = Len(function.log) /\ Now \in Nat
      /\ a.outer \in Nat
  BY ProgramFacts DEF Now, Inv, Right
<1>3. e.mark = Now /\ e.outer = a.outer /\ e.result = Fresh(k)
  BY DEF EntryOf
<1>4. TrueEntry(function.log, after, k, e)
  <2>1. e \in Entry(function.log, k)
    BY <1>1, <1>2, FreshIs DEF EntryOf, Entry
  <2> HIDE DEF e, after
  <2> QED
    BY <1>1, <1>3, <2>1, FreshIs DEF TrueEntry, Stands
<1>5. /\ DOMAIN b.cache = DOMAIN a.cache \cup {k} /\ b.cache[k] = e
      /\ \A x \in DOMAIN a.cache \ {k} : b.cache[x] = a.cache[x]
  BY DEF Put
<1>6. ASSUME NEW x, x # k PROVE x \in before => x \in after
  BY <1>6 DEF Inexact
<1> HIDE DEF e, before, after
<1>7. TrueEntries(function.log, before, program.asks, a.cache)
      /\ TrueEntries(function.log, Inexact(a.tainted, Kinds), program.asks, a.kept)
  BY DEF Inv, Right, before
<1>8. TrueEntries(function.log, after, program.asks, b.cache)
  <2>1. ASSUME NEW x \in DOMAIN b.cache PROVE TrueEntry(function.log, after, x, b.cache[x])
    <3>1. CASE x = k
      BY <1>4, <1>5, <3>1
    <3>2. CASE x # k
      BY <1>5, <1>6, <1>7, <3>2, LessIsTrue DEF TrueEntries
    <3> QED
      BY <3>1, <3>2
  <2> QED
    BY <1>5, <1>7, <2>1 DEF TrueEntries
<1>9. TrueEntries(function.log, Inexact(b.tainted, Kinds), program.asks, b.kept)
  BY <1>7 DEF TrueEntries
<1>10. Current(function.log, pending, b.outer, b.cache)
  <2> SUFFICES ASSUME NEW x \in DOMAIN b.cache
               PROVE  /\ ReadsOuter(x) => b.cache[x].outer = b.outer
                      /\ \A f \in Reach(x) \ (pending \cup {OuterFacts}) :
                           Quiet(function.log, f, b.cache[x].mark)
    BY DEF Current
  <2>1. CASE x = k
    <3>1. b.cache[x].mark = Now /\ b.cache[x].outer = b.outer
      BY <1>3, <1>5, <2>1
    <3>2. \A f : Quiet(function.log, f, Now)
      BY <1>2 DEF Quiet
    <3> QED
      BY <3>1, <3>2
  <2>2. CASE x # k
    BY <1>5, <2>2 DEF Inv, Right, Current
  <2> QED
    BY <2>1, <2>2
<1> QED
  BY <1>8, <1>9, <1>10 DEF Inv, Right, after

LEMMA ReplaceInv ==
  ASSUME Inv, NEW k \in program.asks, Replace(k)
  PROVE  Inv'
<1> DEFINE a == analyses
           cache == Put(a.cache, k, EntryOf(a, Fresh(k), FALSE))
           kept == Without(a.kept, {k})
           soft == a.soft \ {k}
           b == analyses'
<1>1. b = [x \in Fields |-> IF x = "cache" THEN cache ELSE IF x = "kept" THEN kept
                            ELSE IF x = "soft" THEN soft ELSE a[x]]
  BY DEF Replace, Inv, Right, Shaped
<1>2. DOMAIN kept \subseteq DOMAIN a.kept /\ \A x \in DOMAIN kept : kept[x] = a.kept[x]
  BY DEF Without
<1> HIDE DEF cache, kept, soft, b
<1>3. /\ Shaped(b) /\ b.cache = cache /\ b.kept = kept /\ b.soft = soft
      /\ b.vouched = a.vouched /\ b.tainted = a.tainted /\ b.outer = a.outer
  BY <1>1 DEF Shaped, Fields
<1>4. Right(function, b, pending, program)
  BY <1>2, <1>3, PutIsRight DEF cache, soft
<1> QED
  BY <1>4 DEF Replace, Inv, b

LEMMA SeedInv ==
  ASSUME Inv, NEW k \in program.asks, Seed(k)
  PROVE  Inv'
<1> DEFINE a == analyses
           cache == Put(a.cache, k, EntryOf(a, Fresh(k), FALSE))
           b == analyses'
<1>1. b = [x \in Fields |-> IF x = "cache" THEN cache ELSE a[x]]
  BY DEF Seed, Inv, Right, Shaped
<1> HIDE DEF cache, b
<1>2. /\ Shaped(b) /\ b.cache = cache /\ b.kept = a.kept /\ b.soft = a.soft
      /\ b.vouched = a.vouched /\ b.tainted = a.tainted /\ b.outer = a.outer
  BY <1>1 DEF Shaped, Fields
<1>3. Right(function, b, pending, program)
  BY <1>2, PutIsRight DEF cache
<1> QED
  BY <1>3 DEF Seed, Inv, b

LEMMA EditInv ==
  ASSUME Inv, NEW facet \in program.edits, NEW sound \in BOOLEAN, Edit(facet, sound)
  PROVE  Inv'
<1> DEFINE c == [facets |-> {facet}, sound |-> sound]
<1>1. facet \in Facets
  BY ProgramFacts DEF Inv, Right
<1>2. c \in Change /\ c.facets = {facet}
  BY <1>1 DEF Change
<1> HIDE DEF c
<1>3. function.log \in Seq(Change) /\ function.from \in Nat
      /\ function.from <= Len(function.log) /\ function \in [log: Seq(Change), from: Nat]
  BY DEF Inv, Right
<1>4. function' = [function EXCEPT !.log = Append(@, c)]
  BY DEF Edit, c
<1>5. /\ function' \in [log: Seq(Change), from: Nat]
      /\ function'.log = Append(function.log, c) /\ function'.from = function.from
  <2> DEFINE log == Append(function.log, c)
  <2>1. log \in Seq(Change)
    BY <1>2, <1>3
  <2>2. function' = [function EXCEPT !.log = log]
    BY <1>4
  <2> HIDE DEF log
  <2>3. function' \in [log: Seq(Change), from: Nat] /\ function'.log = log
        /\ function'.from = function.from
    BY <1>3, <2>1, <2>2
  <2> QED
    BY <2>3 DEF log
<1>6. function'.from <= Len(function'.log)
  BY <1>2, <1>3, <1>5
<1>7. pending \cup {facet} \subseteq Facets
  BY <1>1 DEF Inv, Right
<1>8. Right(function', analyses, pending \cup {facet}, program)
  BY <1>2, <1>5, <1>6, <1>7, GrownIsRight DEF Inv
<1> QED
  BY <1>8 DEF Edit, Inv

LEMMA ReplaceFunctionInv ==
  ASSUME Inv, ReplaceFunction
  PROVE  Inv'
<1> DEFINE c == [facets |-> Facets, sound |-> FALSE]
<1>1. c \in Change /\ c.facets = Facets
  BY DEF Change
<1> HIDE DEF c
<1>2. function.log \in Seq(Change) /\ Now \in Nat /\ Now = Len(function.log)
  BY DEF Inv, Right, Now
<1>3. function' = [log |-> Append(function.log, c), from |-> Now + 1]
  BY DEF ReplaceFunction, c
<1>4. /\ function' \in [log: Seq(Change), from: Nat]
      /\ function'.log = Append(function.log, c) /\ function'.from = Now + 1
  BY <1>1, <1>2, <1>3
<1>5. function'.from <= Len(function'.log)
  BY <1>1, <1>2, <1>4
<1>6. pending \subseteq Facets
  BY DEF Inv, Right
<1>7. Right(function', analyses, Facets, program)
  BY <1>1, <1>4, <1>5, <1>6, GrownIsRight DEF Inv
<1> QED
  BY <1>7 DEF ReplaceFunction, Inv

LEMMA TakeChangesInv ==
  ASSUME Inv, NEW from \in Nat, TakeChanges(from)
  PROVE  Inv'
<1>1. /\ function' \in [log: Seq(Change), from: Nat]
      /\ function'.log = function.log /\ function'.from = from
  BY DEF TakeChanges, Inv, Right
<1>2. Right(function', analyses, pending, program)
  BY <1>1 DEF TakeChanges, Now, Inv, Right
<1> QED
  BY <1>2 DEF TakeChanges, Inv

LEMMA NextInv ==
  ASSUME ~AsksUnreported, Inv, [Next]_vars
  PROVE  Inv'
<1>1. CASE \E k \in program.asks, willing \in Willing :
             Get(k, willing) \/ GetExact(k, willing) \/ AskThroughModule(k, willing)
  BY <1>1, GetInv, GetExactInv, AskThroughModuleInv
<1>2. CASE \E names, updated \in SUBSET DOMAIN analyses.cache, cfg \in BOOLEAN :
             Invalidate(names, cfg, updated)
  BY <1>2, InvalidateInv
<1>3. CASE Vouch \/ RefreshSoft \/ Changed
  BY <1>3, VouchInv, RefreshSoftInv, ChangedInv
<1>4. CASE \E outer \in 0 .. program.outers : OuterChanged(outer)
  BY <1>4, OuterChangedInv
<1>5. CASE \E k \in program.asks : Replace(k) \/ Seed(k)
  BY <1>5, ReplaceInv, SeedInv
<1>6. CASE \E facet \in program.edits, sound \in {FALSE, SaysSound} : Edit(facet, sound)
  <2>1. {FALSE, SaysSound} \subseteq BOOLEAN
    BY DEF SaysSound
  <2> QED
    BY <1>6, <2>1, EditInv
<1>7. CASE \E from \in 1 .. program.changes : TakeChanges(from)
  <2>1. program.changes \in Nat
    BY ProgramFacts DEF Inv, Right
  <2> QED
    BY <1>7, <2>1, TakeChangesInv
<1>8. CASE ReplaceFunction
  BY <1>8, ReplaceFunctionInv
<1>9. CASE UNCHANGED vars
  BY <1>9 DEF vars, Inv, Right
<1> QED
  BY <1>1, <1>2, <1>3, <1>4, <1>5, <1>6, <1>7, <1>8, <1>9 DEF Next

(* What every entry says was so at its mark, and what the cache holds is   *)
(* changed since by pending edits alone, in every reachable state.         *)
THEOREM Invariance ==
  ASSUME ~AsksUnreported
  PROVE  Spec => []Inv
<1>1. Init => Inv
  BY InitInv
<1>2. Inv /\ [Next]_vars => Inv'
  BY NextInv
<1> QED
  BY <1>1, <1>2, PTL DEF Spec
-----------------------------------------------------------------------------
(* What the runs check.                                                    *)

LEMMA EntryIs ==
  ASSUME Inv, NEW inexact, NEW k \in Kinds, NEW e, TrueEntry(function.log, inexact, k, e)
  PROVE  /\ Covers(k, e.result, e.mark, e.outer)
         /\ k \notin inexact => e.result = TrueAt(k, e.mark, e.outer)
<1>1. e \in Entry(function.log, k) /\ Covered(function.log, k, e.result, e.mark, e.outer)
      /\ (k \notin inexact => Exact(function.log, k, e.result, e.mark, e.outer))
  BY DEF TrueEntry, Stands
<1>2. Covers(k, e.result, e.mark, e.outer)
  BY <1>1 DEF Covered, Covers, Meaning, MeaningAt
<1>3. ASSUME k \notin inexact PROVE e.result = TrueAt(k, e.mark, e.outer)
  <2>1. e.result \in [Sources[k] -> Nat]
    BY <1>1 DEF Entry
  <2>2. ASSUME NEW s \in Sources[k] PROVE e.result[s] = Version(s, e.mark, e.outer)
    BY <1>1, <1>3 DEF Exact, Version, Form, FormAt
  <2> QED
    BY <2>1, <2>2 DEF TrueAt
<1> QED
  BY <1>2, <1>3

(* The same of what stands now.                                            *)
LEMMA StandingIs ==
  ASSUME NEW inexact, NEW k \in Kinds, NEW result \in [Sources[k] -> Nat], NEW outer,
         Stands(function.log, inexact, k, result, Now, outer)
  PROVE  /\ Covers(k, result, Now, outer)
         /\ k \notin inexact => result = TrueAt(k, Now, outer)
<1>1. Covers(k, result, Now, outer)
  BY DEF Stands, Covered, Covers, Meaning, MeaningAt
<1>2. ASSUME k \notin inexact PROVE result = TrueAt(k, Now, outer)
  <2>1. ASSUME NEW s \in Sources[k] PROVE result[s] = Version(s, Now, outer)
    BY <1>2 DEF Stands, Exact, Version, Form, FormAt
  <2> QED
    BY <2>1 DEF TrueAt
<1> QED
  BY <1>1, <1>2

(* The function's history, its cache and its marks have their types.       *)
THEOREM TypeCorrect ==
  ASSUME ~AsksUnreported
  PROVE  Spec => []TypeOK
<1>1. Inv => TypeOK
  <2> SUFFICES ASSUME Inv PROVE TypeOK
    OBVIOUS
  <2>1. ASSUME NEW k \in Kinds PROVE Entry(function.log, k) = Entries(k)
    BY DEF Entry, Entries, Now
  <2>2. program.asks \subseteq Kinds
    BY ProgramFacts DEF Inv, Right
  <2>3. /\ DOMAIN analyses.cache \cup DOMAIN analyses.kept \subseteq program.asks
        /\ \A k \in DOMAIN analyses.cache : analyses.cache[k] \in Entries(k)
        /\ \A k \in DOMAIN analyses.kept : analyses.kept[k] \in Entries(k)
    BY <2>1, <2>2 DEF Inv, Right, TrueEntries, TrueEntry
  <2>4. /\ function.log \in Seq(Change) /\ function.from \in 0 .. Now
        /\ pending \subseteq Facets /\ program \in Programs
        /\ analyses.soft \subseteq program.asks
        /\ analyses.outer \in 0 .. program.outers
        /\ analyses.tainted \in BOOLEAN
    BY DEF Inv, Right, Now
  <2>5. analyses.vouched \in {{}} \cup {{n} : n \in 0 .. Now}
    BY DEF Inv, Right, Now
  <2> QED
    BY <2>3, <2>4, <2>5 DEF TypeOK
<1> QED
  BY <1>1, Invariance, PTL

(* Whatever a pass holds and its own edits left alone says nothing a fresh *)
(* derivation contradicts (`Analyses::get`), and is what one gives where   *)
(* nothing was kept as sound.                                              *)
THEOREM HeldResultsAreTrue ==
  ASSUME ~AsksUnreported
  PROVE  Spec => []HeldIsTrue
<1>1. Inv => HeldIsTrue
  <2> SUFFICES ASSUME Inv, NEW k \in DOMAIN analyses.cache, LeftTrue(k)
               PROVE  /\ Covers(k, analyses.cache[k].result, Now, analyses.outer)
                      /\ ~analyses.tainted => analyses.cache[k].result = Fresh(k)
    BY DEF HeldIsTrue
  <2> DEFINE inexact == Inexact(analyses.tainted, analyses.soft)
  <2>1. k \in Kinds
    BY ProgramFacts DEF Inv, Right, TrueEntries
  <2>2. analyses.cache[k].result \in [Sources[k] -> Nat]
    BY DEF Inv, Right, TrueEntries, TrueEntry, Entry
  <2>3. Stands(function.log, inexact, k, analyses.cache[k].result, Now, analyses.outer)
    BY HeldStands DEF Inv, LeftTrue
  <2>4. ~analyses.tainted => k \notin inexact
    BY DEF Inexact
  <2> HIDE DEF inexact
  <2> QED
    BY <2>1, <2>2, <2>3, <2>4, StandingIs DEF Fresh
<1> QED
  BY <1>1, Invariance, PTL

(* What is held, and what is kept past an invalidation, was true of the    *)
(* body where its mark is: what `update`, `unaffected` and `held` take of  *)
(* it (`Analysis::INCREMENTAL`).                                           *)
THEOREM MarksAreTrue ==
  ASSUME ~AsksUnreported
  PROVE  Spec => []TrueAtItsMark
<1>1. Inv => TrueAtItsMark
  <2> SUFFICES ASSUME Inv, NEW k \in Kinds,
                      NEW held \in {analyses.cache, analyses.kept}, k \in DOMAIN held
               PROVE  /\ Covers(k, held[k].result, held[k].mark, held[k].outer)
                      /\ ~analyses.tainted
                           => held[k].result = TrueAt(k, held[k].mark, held[k].outer)
    BY DEF TrueAtItsMark
  <2>1. CASE held = analyses.cache
    <3>1. TrueEntry(function.log, Inexact(analyses.tainted, analyses.soft), k, held[k])
      BY <2>1 DEF Inv, Right, TrueEntries
    <3>2. ~analyses.tainted => k \notin Inexact(analyses.tainted, analyses.soft)
      BY DEF Inexact
    <3> QED
      BY <3>1, <3>2, EntryIs
  <2>2. CASE held = analyses.kept
    <3>1. TrueEntry(function.log, Inexact(analyses.tainted, Kinds), k, held[k])
      BY <2>2 DEF Inv, Right, TrueEntries
    <3>2. ~analyses.tainted => k \notin Inexact(analyses.tainted, Kinds)
      BY DEF Inexact
    <3> QED
      BY <3>1, <3>2, EntryIs
  <2> QED
    BY <2>1, <2>2
<1> QED
  BY <1>1, Invariance, PTL

(* What is asked through `ModuleAnalyses::function` is true of the body as *)
(* it stands, whatever was edited and not told of.                         *)
THEOREM AnswersAreTrue ==
  ASSUME ~AsksUnreported
  PROVE  Spec => []AskedIsTrue
<1>1. Inv => AskedIsTrue
  <2> SUFFICES ASSUME Inv, NEW k \in program.asks, NEW willing \in Willing
               PROVE  LET a == Got(Forgotten(analyses), k, willing)
                      IN  /\ Covers(k, a.cache[k].result, Now, a.outer)
                          /\ ~a.tainted => a.cache[k].result = Fresh(k)
    BY DEF AskedIsTrue
  <2> DEFINE a == Got(Forgotten(analyses), k, willing)
             inexact == Inexact(a.tainted, a.soft)
  <2>1. /\ Right(function, a, pending, program) /\ k \in DOMAIN a.cache
        /\ Stands(function.log, inexact, k, a.cache[k].result, Now, a.outer)
    BY ForgottenIsRight, GotIsRight DEF Inv
  <2>2. a.outer = analyses.outer
    <3>1. Shaped(analyses) /\ Shaped(Forgotten(analyses))
      BY ForgottenIsRight DEF Inv, Right
    <3>2. Forgotten(analyses).outer = analyses.outer
      BY <3>1, RetiredIs DEF Forgotten
    <3> QED
      BY <3>1, <3>2, GotIs
  <2>3. ~a.tainted => k \notin inexact
    BY DEF Inexact
  <2> HIDE DEF a, inexact
  <2>4. k \in Kinds /\ a.cache[k].result \in [Sources[k] -> Nat]
    BY <2>1, ProgramFacts DEF Right, TrueEntries, TrueEntry, Entry
  <2>5. /\ Covers(k, a.cache[k].result, Now, a.outer)
        /\ ~a.tainted => a.cache[k].result = Fresh(k)
    BY <2>1, <2>2, <2>3, <2>4, StandingIs DEF Fresh
  <2> QED
    BY <2>5 DEF a
<1> QED
  BY <1>1, Invariance, PTL

(* `get_exact` of an analysis kept as sound, over none that is, gives what *)
(* `run` would.                                                            *)
THEOREM ExactAnswersAreFresh ==
  ASSUME ~AsksUnreported
  PROVE  Spec => []ExactIsFresh
<1>1. Inv => ExactIsFresh
  <2> SUFFICES ASSUME Inv, NEW k \in program.asks, NEW willing \in Willing,
                      Chain[k] \cap Sound = {k}, MayAsk(k)
               PROVE  Got(Hardened(analyses, k), k, willing).cache[k].result = Fresh(k)
    BY DEF ExactIsFresh
  <2> DEFINE h == Hardened(analyses, k)
             a == Got(h, k, willing)
             inexact == Inexact(a.tainted, a.soft)
  <2>1. Right(function, h, pending, program) /\ Askable(h, Chain[k])
    BY HardenedIsAskable
  <2>2. /\ h.outer = analyses.outer /\ k \notin h.soft
        /\ DOMAIN h.kept = DOMAIN analyses.kept \ ({k} \cap (Sound \ Incremental))
    BY HardenedIs DEF Inv, Right
  <2>3. k \notin DOMAIN h.kept
    <3>1. k \in Sound /\ k \notin Incremental
      BY SoundAssumption
    <3> QED
      BY <2>2, <3>1
  <2> HIDE DEF h
  <2>4. /\ Right(function, a, pending, program) /\ k \in DOMAIN a.cache
        /\ Stands(function.log, inexact, k, a.cache[k].result, Now, a.outer)
        /\ a.soft \subseteq h.soft \cup DOMAIN h.kept
    BY <2>1, GotIsRight
  <2>5. a.outer = analyses.outer
    BY <2>1, <2>2, GotIs DEF Right
  <2>6. k \notin inexact
    BY <2>2, <2>3, <2>4 DEF Inexact
  <2> HIDE DEF a, inexact
  <2>7. k \in Kinds /\ a.cache[k].result \in [Sources[k] -> Nat]
    BY <2>4, ProgramFacts DEF Right, TrueEntries, TrueEntry, Entry
  <2>8. a.cache[k].result = Fresh(k)
    BY <2>4, <2>5, <2>6, <2>7, StandingIs DEF Fresh
  <2> QED
    BY <2>8 DEF a, h
<1> QED
  BY <1>1, Invariance, PTL

=============================================================================
