-------------------------- MODULE ChangeLogProofs --------------------------
(***************************************************************************)
(* What a mark and `changes_since` promise the analysis cache, proved for  *)
(* any number of copies, edits and marks.  The two invariants are not      *)
(* inductive: they follow from `Inv`, which says of every branch that one  *)
(* function alone has it, and that whoever forked from it, or marked it,   *)
(* agrees with that function up to the point of the fork or of the mark.   *)
(***************************************************************************)
EXTENDS ChangeLog, TLAPS

(* The first n changes of two histories are the same.                      *)
SamePrefix(g, h, n) ==
  /\ n <= Len(g) /\ n <= Len(h)
  /\ \A k \in 1 .. n : g[k] = h[k]

(* The log is the end of the history.                                      *)
LogIsSuffix(f) ==
  /\ f.logged = Len(f.hist)
  /\ Len(f.changes) <= f.logged
  /\ \A k \in 1 .. Len(f.changes) : f.changes[k] = f.hist[KeptFrom(f) + k]

LogsAreSuffixes == \A i \in live : LogIsSuffix(fns[i])

(* Numbers not drawn yet are in use nowhere.                               *)
Numbered ==
  /\ \A i \in live :
       /\ fns[i].branch < nextLineage
       /\ \A k \in 1 .. Len(fns[i].ancestors) :
            fns[i].ancestors[k].branch < nextLineage
  /\ \A p \in points : p.mark.branch < nextLineage

OneOwner == \A i, j \in live : fns[i].branch = fns[j].branch => i = j

(* A function agrees with the owner of a branch it forked from, up to      *)
(* where it forked.                                                        *)
AncestorsAgree ==
  \A i, j \in live : \A k \in 1 .. Len(fns[j].ancestors) :
    fns[j].ancestors[k].branch = fns[i].branch
      => SamePrefix(fns[i].hist, fns[j].hist, fns[j].ancestors[k].at)

(* What a mark of this branch, or of a part of it this function has too,   *)
(* says of the function.                                                   *)
PointAgrees(p, f) ==
  /\ p.mark.branch = f.branch => SamePrefix(p.hist, f.hist, p.mark.at)
  /\ \A k \in 1 .. Len(f.ancestors) :
       /\ f.ancestors[k].branch = p.mark.branch
       /\ p.mark.at <= f.ancestors[k].at
       => SamePrefix(p.hist, f.hist, p.mark.at)

PointsAgree ==
  \A p \in points :
    /\ p.mark.at = Len(p.hist)
    /\ \A i \in live : PointAgrees(p, fns[i])

(* A copy's log begins where it was forked.                                *)
ForkLogs ==
  \A j \in live \ {Home} :
    fns[j].ancestors # <<>>
      => KeptFrom(fns[j]) = fns[j].ancestors[Len(fns[j].ancestors)].at

Inv ==
  /\ TypeOK /\ LogsAreSuffixes /\ Numbered /\ OneOwner
  /\ AncestorsAgree /\ PointsAgree /\ ForkLogs

-----------------------------------------------------------------------------
(* The fields of a function, and of one with some of them replaced.        *)
LEMMA Fields ==
  ASSUME NEW f \in Fn
  PROVE  /\ f.uid \in Nat /\ f.branch \in Nat
         /\ f.ancestors \in Seq(Ancestor)
         /\ f.logged \in Nat /\ f.taken \in Nat
         /\ f.changes \in Seq(Nat) /\ f.hist \in Seq(Nat)
BY DEF Fn

LEMMA AppendFacts ==
  ASSUME NEW S, NEW s \in Seq(S), NEW e \in S
  PROVE  /\ Append(s, e) \in Seq(S)
         /\ Len(Append(s, e)) = Len(s) + 1
         /\ \A k \in 1 .. Len(s) : Append(s, e)[k] = s[k]
         /\ Append(s, e)[Len(s) + 1] = e
         /\ Len(s) \in Nat
OBVIOUS

LEMMA Offsets ==
  ASSUME NEW m \in Nat, NEW n \in Nat, n <= m
  PROVE  /\ (m - n) + (n + 1) = m + 1
         /\ \A k \in 1 .. n : (m - n) + k \in 1 .. m
OBVIOUS

LEMMA Telescope ==
  ASSUME NEW l \in Nat, NEW n \in Nat, NEW m \in Nat, NEW k \in Nat
  PROVE  (l - n) + ((n - m) + k) = (l - m) + k
OBVIOUS

(* A log that is the end of its history still is after one more change.    *)
LEMMA LogGrows ==
  ASSUME NEW f \in Fn, NEW g \in Fn, NEW c \in Nat, LogIsSuffix(f),
         g.logged = f.logged + 1, g.changes = Append(f.changes, c),
         g.hist = Append(f.hist, c)
  PROVE  LogIsSuffix(g)
<1>1. /\ Len(g.hist) = Len(f.hist) + 1
      /\ \A k \in 1 .. Len(f.hist) : g.hist[k] = f.hist[k]
      /\ g.hist[Len(f.hist) + 1] = c /\ Len(f.hist) \in Nat
  BY Fields, AppendFacts
<1>2. /\ Len(g.changes) = Len(f.changes) + 1
      /\ \A k \in 1 .. Len(f.changes) : g.changes[k] = f.changes[k]
      /\ g.changes[Len(f.changes) + 1] = c /\ Len(f.changes) \in Nat
  BY Fields, AppendFacts
<1> DEFINE n == Len(f.changes)
           m == Len(f.hist)
           K == m - n
<1>3. f.logged = m /\ n <= m /\ n \in Nat /\ m \in Nat
  BY <1>1, <1>2 DEF LogIsSuffix
<1>4. KeptFrom(f) = K /\ KeptFrom(g) = K
  BY <1>1, <1>2, <1>3 DEF KeptFrom
<1>5. \A k \in 1 .. n : f.changes[k] = f.hist[K + k]
  BY <1>4 DEF LogIsSuffix
<1>6. ASSUME NEW k \in 1 .. n
      PROVE  g.changes[k] = g.hist[K + k]
  <2>1. K + k \in 1 .. m
    BY <1>3, Offsets
  <2>2. g.hist[K + k] = f.hist[K + k]
    BY <2>1, <1>1
  <2>3. g.changes[k] = f.changes[k]
    BY <1>2
  <2> QED BY <2>2, <2>3, <1>5
<1>7. ASSUME NEW k \in 1 .. Len(g.changes)
      PROVE  g.changes[k] = g.hist[K + k]
  <2>1. k \in 1 .. n \/ k = n + 1
    BY <1>2
  <2>2. K + (n + 1) = m + 1
    BY <1>3, Offsets
  <2> QED BY <2>1, <2>2, <1>1, <1>2, <1>6
<1>8. Len(g.changes) <= g.logged /\ g.logged = Len(g.hist)
  BY <1>1, <1>2, <1>3
<1>9. QED BY <1>4, <1>7, <1>8 DEF LogIsSuffix

LEMMA InitInv == Init => Inv
<1> USE HomeAssumption
<1>1. NewFn(0) \in Fn /\ NewFn(1) \in Fn
  BY DEF NewFn, Fn, Ancestor
<1>2. Init => TypeOK
  BY <1>1 DEF Init, TypeOK, Blank
<1>3. Init => LogsAreSuffixes /\ Numbered /\ OneOwner /\ AncestorsAgree
                /\ PointsAgree /\ ForkLogs
  BY DEF Init, NewFn, LogsAreSuffixes, LogIsSuffix, Numbered, OneOwner,
         AncestorsAgree, PointsAgree, ForkLogs, KeptFrom
<1>4. QED BY <1>2, <1>3 DEF Inv

LEMMA EditInv ==
  ASSUME NEW i \in Slots, Inv, Edit(i)
  PROVE  Inv'
<1> DEFINE f == fns[i]
           g == fns'[i]
<1>1. /\ i \in live /\ live' = live /\ nextLineage' = nextLineage
      /\ points' = points /\ handed' = handed
      /\ nextChange \in Nat /\ nextChange' = nextChange + 1
      /\ fns \in [Slots -> Fn] /\ f \in Fn
      /\ fns' = [fns EXCEPT ![i].logged = @ + 1,
                            ![i].changes = Append(@, nextChange),
                            ![i].hist = Append(@, nextChange)]
  BY DEF Edit, Inv, TypeOK
<1>2. /\ f.logged + 1 \in Nat
      /\ Append(f.changes, nextChange) \in Seq(Nat)
      /\ Append(f.hist, nextChange) \in Seq(Nat)
  BY <1>1, Fields
<1>3. /\ g.logged = f.logged + 1
      /\ g.changes = Append(f.changes, nextChange)
      /\ g.hist = Append(f.hist, nextChange)
      /\ g.branch = f.branch /\ g.ancestors = f.ancestors
  BY <1>1 DEF Fn
<1>4. g \in Fn
  BY <1>1, <1>2 DEF Fn
<1>5. \A s \in Slots : s # i => fns'[s] = fns[s]
  BY <1>1
<1>6. fns' \in [Slots -> Fn]
  BY <1>1, <1>4, <1>5
<1>7. /\ Len(g.hist) = Len(f.hist) + 1
      /\ \A k \in 1 .. Len(f.hist) : g.hist[k] = f.hist[k]
      /\ Len(g.changes) = Len(f.changes) + 1
      /\ Len(f.hist) \in Nat /\ Len(f.changes) \in Nat
      /\ f.logged \in Nat /\ f.hist \in Seq(Nat)
  <2> HIDE DEF f, g
  <2>1. f.hist \in Seq(Nat) /\ f.changes \in Seq(Nat) /\ f.logged \in Nat
    BY <1>1, Fields
  <2> QED BY <2>1, <1>1, <1>3, AppendFacts
<1>8. TypeOK'
  BY <1>1, <1>6 DEF Inv, TypeOK
<1>9. LogsAreSuffixes'
  <2>1. LogIsSuffix(f) => LogIsSuffix(g)
    BY <1>1, <1>3, <1>4, LogGrows
  <2>2. \A s \in live : LogIsSuffix(fns[s]) /\ s \in Slots
    BY DEF Inv, LogsAreSuffixes, TypeOK
  <2> QED
    BY <2>1, <2>2, <1>1, <1>5 DEF LogsAreSuffixes
<1>10. Numbered'
  <2>1. \A s \in Slots : /\ fns'[s].branch = fns[s].branch
                         /\ fns'[s].ancestors = fns[s].ancestors
    BY <1>3, <1>5
  <2>2. \A s \in live : s \in Slots
    BY DEF Inv, TypeOK
  <2> HIDE DEF f, g
  <2> QED
    BY <1>1, <2>1, <2>2 DEF Inv, Numbered
<1>11. OneOwner'
  BY <1>1, <1>3, <1>5 DEF Inv, OneOwner, TypeOK
<1>12. ASSUME NEW h \in Seq(Nat), NEW n \in Nat
       PROVE  /\ SamePrefix(h, f.hist, n) => SamePrefix(h, g.hist, n)
              /\ SamePrefix(f.hist, h, n) => SamePrefix(g.hist, h, n)
              /\ SamePrefix(f.hist, f.hist, n) => SamePrefix(g.hist, g.hist, n)
  <2> HIDE DEF f, g
  <2>1. /\ \A k \in 1 .. n : n <= Len(f.hist) => g.hist[k] = f.hist[k]
        /\ n <= Len(f.hist) => n <= Len(g.hist)
    BY <1>7
  <2>2. SamePrefix(h, f.hist, n) => SamePrefix(h, g.hist, n)
    BY <2>1 DEF SamePrefix
  <2>3. SamePrefix(f.hist, h, n) => SamePrefix(g.hist, h, n)
    BY <2>1 DEF SamePrefix
  <2>4. SamePrefix(f.hist, f.hist, n) => SamePrefix(g.hist, g.hist, n)
    BY <2>1 DEF SamePrefix
  <2> QED BY <2>2, <2>3, <2>4
<1>13. \A s \in Slots :
         /\ fns[s].hist \in Seq(Nat) /\ fns[s].ancestors \in Seq(Ancestor)
         /\ \A k \in 1 .. Len(fns[s].ancestors) :
              fns[s].ancestors[k].at \in Nat
  <2> TAKE s \in Slots
  <2>1. fns[s] \in Fn
    BY <1>1
  <2>2. fns[s].hist \in Seq(Nat) /\ fns[s].ancestors \in Seq(Ancestor)
    BY <2>1, Fields
  <2>3. ASSUME NEW k \in 1 .. Len(fns[s].ancestors)
        PROVE  fns[s].ancestors[k].at \in Nat
    <3>1. fns[s].ancestors[k] \in Ancestor
      BY <2>2
    <3> QED BY <3>1 DEF Ancestor
  <2> QED BY <2>2, <2>3
<1> HIDE DEF f, g
<1>14. AncestorsAgree'
  <2> SUFFICES ASSUME NEW a \in live, NEW b \in live,
                      NEW k \in 1 .. Len(fns'[b].ancestors),
                      fns'[b].ancestors[k].branch = fns'[a].branch
               PROVE  SamePrefix(fns'[a].hist, fns'[b].hist,
                                 fns'[b].ancestors[k].at)
    BY <1>1 DEF AncestorsAgree
  <2> DEFINE n == fns[b].ancestors[k].at
  <2>0. a \in Slots /\ b \in Slots
    BY DEF Inv, TypeOK
  <2>1. fns'[b].ancestors = fns[b].ancestors /\ fns'[a].branch = fns[a].branch
    BY <1>3, <1>5, <2>0 DEF f, g
  <2>2. SamePrefix(fns[a].hist, fns[b].hist, n) /\ n \in Nat
    BY <2>0, <2>1, <1>13 DEF Inv, AncestorsAgree
  <2> QED
    BY <2>0, <2>1, <2>2, <1>5, <1>12, <1>13 DEF f, g
<1>15. PointsAgree'
  <2> SUFFICES ASSUME NEW p \in points, NEW a \in live
               PROVE  p.mark.at = Len(p.hist) /\ PointAgrees(p, fns'[a])
    BY <1>1 DEF PointsAgree
  <2>0. a \in Slots /\ p.hist \in Seq(Nat) /\ p.mark.at \in Nat
    BY DEF Inv, TypeOK, Mark
  <2>1. fns'[a].ancestors = fns[a].ancestors /\ fns'[a].branch = fns[a].branch
    BY <1>3, <1>5, <2>0 DEF f, g
  <2>2. p.mark.at = Len(p.hist) /\ PointAgrees(p, fns[a])
    BY DEF Inv, PointsAgree
  <2>3. SamePrefix(p.hist, fns[a].hist, p.mark.at)
          => SamePrefix(p.hist, fns'[a].hist, p.mark.at)
    BY <2>0, <1>5, <1>12 DEF f, g
  <2> QED
    BY <2>1, <2>2, <2>3 DEF PointAgrees
<1>16. ForkLogs'
  <2>1. KeptFrom(g) = KeptFrom(f)
    BY <1>1, <1>3, <1>7, Fields DEF KeptFrom
  <2> QED
    BY <2>1, <1>1, <1>3, <1>5 DEF Inv, ForkLogs, TypeOK, f, g
<1>17. QED
  BY <1>8, <1>9, <1>10, <1>11, <1>14, <1>15, <1>16 DEF Inv

(* A function and its fields, for every slot.                              *)
LEMMA SlotFields ==
  ASSUME Inv, NEW s \in Slots
  PROVE  /\ fns \in [Slots -> Fn] /\ fns[s] \in Fn
         /\ fns[s].hist \in Seq(Nat) /\ Len(fns[s].hist) \in Nat
         /\ fns[s].changes \in Seq(Nat) /\ Len(fns[s].changes) \in Nat
         /\ fns[s].ancestors \in Seq(Ancestor)
         /\ Len(fns[s].ancestors) \in Nat
         /\ fns[s].logged \in Nat /\ fns[s].taken \in Nat
         /\ fns[s].branch \in Nat /\ fns[s].uid \in Nat
         /\ \A k \in 1 .. Len(fns[s].ancestors) :
              /\ fns[s].ancestors[k] \in Ancestor
              /\ fns[s].ancestors[k].at \in Nat
              /\ fns[s].ancestors[k].branch \in Nat
<1>1. fns \in [Slots -> Fn] /\ fns[s] \in Fn
  BY DEF Inv, TypeOK
<1>2. /\ fns[s].hist \in Seq(Nat) /\ fns[s].changes \in Seq(Nat)
      /\ fns[s].ancestors \in Seq(Ancestor)
      /\ fns[s].logged \in Nat /\ fns[s].taken \in Nat
      /\ fns[s].branch \in Nat /\ fns[s].uid \in Nat
  BY <1>1, Fields
<1>3. ASSUME NEW k \in 1 .. Len(fns[s].ancestors)
      PROVE  /\ fns[s].ancestors[k] \in Ancestor
             /\ fns[s].ancestors[k].at \in Nat
             /\ fns[s].ancestors[k].branch \in Nat
  <2>1. fns[s].ancestors[k] \in Ancestor
    BY <1>2
  <2> QED BY <2>1 DEF Ancestor
<1>4. /\ Len(fns[s].hist) \in Nat /\ Len(fns[s].changes) \in Nat
      /\ Len(fns[s].ancestors) \in Nat
  BY <1>2
<1>5. QED BY <1>1, <1>2, <1>3, <1>4

LEMMA TakeMarkInv ==
  ASSUME NEW i \in Slots, Inv, TakeMark(i)
  PROVE  Inv'
<1> DEFINE f == fns[i]
           q == [mark |-> MarkOf(f), hist |-> f.hist]
<1>1. /\ i \in live /\ live' = live /\ fns' = fns
      /\ nextLineage' = nextLineage /\ nextChange' = nextChange
      /\ handed' = handed /\ points' = points \cup {q}
  BY DEF TakeMark
<1>2. q \in [mark: Mark, hist: Seq(Nat)]
  BY SlotFields DEF Mark, MarkOf
<1>3. TypeOK'
  BY <1>1, <1>2 DEF Inv, TypeOK
<1>4. Numbered'
  BY <1>1 DEF Inv, Numbered, MarkOf
<1>5. f.logged = Len(f.hist)
  BY <1>1 DEF Inv, LogsAreSuffixes, LogIsSuffix
<1>6. ASSUME NEW a \in live
      PROVE  PointAgrees(q, fns[a])
  <2>0. a \in Slots
    BY DEF Inv, TypeOK
  <2>1. ASSUME fns[a].branch = f.branch
        PROVE  SamePrefix(f.hist, fns[a].hist, f.logged)
    <3>1. a = i
      BY <2>1, <1>1 DEF Inv, OneOwner
    <3> QED BY <3>1, <1>5, SlotFields DEF SamePrefix
  <2>2. ASSUME NEW k \in 1 .. Len(fns[a].ancestors),
               fns[a].ancestors[k].branch = f.branch,
               f.logged <= fns[a].ancestors[k].at
        PROVE  SamePrefix(f.hist, fns[a].hist, f.logged)
    <3>1. SamePrefix(f.hist, fns[a].hist, fns[a].ancestors[k].at)
      BY <2>2, <1>1 DEF Inv, AncestorsAgree
    <3>2. fns[a].ancestors[k].at = f.logged
      BY <3>1, <2>0, <2>2, <1>5, SlotFields DEF SamePrefix
    <3> QED BY <3>1, <3>2
  <2> QED BY <2>1, <2>2 DEF PointAgrees, MarkOf
<1>7. PointsAgree'
  BY <1>1, <1>5, <1>6 DEF Inv, PointsAgree, MarkOf, PointAgrees
<1>8. /\ LogsAreSuffixes' /\ OneOwner' /\ AncestorsAgree' /\ ForkLogs'
  BY <1>1 DEF Inv, LogsAreSuffixes, LogIsSuffix, OneOwner, AncestorsAgree,
              ForkLogs, KeptFrom
<1>9. QED BY <1>3, <1>4, <1>7, <1>8 DEF Inv

(* What is left of a log that is the end of the history is its end too.    *)
LEMMA SuffixOfSuffix ==
  ASSUME NEW f \in Fn, NEW g \in Fn, NEW m \in 0 .. Len(f.changes),
         LogIsSuffix(f), g.logged = f.logged, g.hist = f.hist,
         g.changes = SubSeq(f.changes, Len(f.changes) - m + 1, Len(f.changes))
  PROVE  LogIsSuffix(g)
<1> DEFINE n == Len(f.changes)
<1>1. n \in Nat /\ f.changes \in Seq(Nat) /\ m \in Nat /\ m <= n
  BY Fields
<1>2. /\ Len(g.changes) = m
      /\ \A k \in 1 .. m : g.changes[k] = f.changes[(n - m) + k]
  BY <1>1
<1>3. f.logged \in Nat /\ f.logged = Len(f.hist) /\ n <= f.logged
  BY Fields DEF LogIsSuffix
<1>4. KeptFrom(g) = f.logged - m /\ KeptFrom(f) = f.logged - n
  BY <1>2 DEF KeptFrom
<1>5. ASSUME NEW k \in 1 .. m
      PROVE  g.changes[k] = g.hist[(f.logged - m) + k]
  <2>1. (n - m) + k \in 1 .. n
    BY <1>1, Offsets
  <2>2. f.changes[(n - m) + k] = f.hist[(f.logged - n) + ((n - m) + k)]
    BY <2>1, <1>4 DEF LogIsSuffix
  <2>3. (f.logged - n) + ((n - m) + k) = (f.logged - m) + k
    <3> DEFINE l == f.logged
    <3>1. k \in Nat /\ l \in Nat /\ n \in Nat /\ m \in Nat
      BY <1>1, <1>3
    <3> HIDE DEF l, n
    <3>2. (l - n) + ((n - m) + k) = (l - m) + k
      BY <3>1, Telescope
    <3> QED BY <3>2 DEF l
  <2> QED BY <2>2, <2>3, <1>2
<1>6. m <= f.logged
  BY <1>1, <1>3
<1> HIDE DEF n
<1>7. QED BY <1>2, <1>3, <1>4, <1>5, <1>6 DEF LogIsSuffix

LEMMA Half == LOG \div 2 \in Nat /\ LOG \div 2 <= LOG
BY LogAssumption

LEMMA TailType ==
  ASSUME NEW s \in Seq(Nat), NEW a \in Nat, a >= 1
  PROVE  SubSeq(s, a, Len(s)) \in Seq(Nat)
OBVIOUS

(* A step that leaves every body, branch and mark as it was, and where     *)
(* each copy's log begins.                                                 *)
LEMMA SameBodies ==
  ASSUME Inv, live' = live, points' = points, nextLineage' = nextLineage,
         \A s \in live : /\ fns'[s].branch = fns[s].branch
                         /\ fns'[s].ancestors = fns[s].ancestors
                         /\ fns'[s].hist = fns[s].hist,
         \A s \in live \ {Home} : fns'[s] = fns[s]
  PROVE  /\ Numbered' /\ OneOwner' /\ AncestorsAgree' /\ PointsAgree'
         /\ ForkLogs'
<1>1. Numbered' /\ OneOwner'
  BY DEF Inv, Numbered, OneOwner
<1>2. AncestorsAgree'
  BY DEF Inv, AncestorsAgree
<1>3. PointsAgree'
  BY DEF Inv, PointsAgree, PointAgrees
<1>4. ForkLogs'
  BY DEF Inv, ForkLogs, KeptFrom
<1>5. QED BY <1>1, <1>2, <1>3, <1>4

LEMMA TakeChangesInv ==
  ASSUME Inv, TakeChanges
  PROVE  Inv'
<1> USE HomeAssumption
<1> DEFINE f == fns[Home]
           g == fns'[Home]
<1>1. /\ live' = live /\ points' = points /\ nextLineage' = nextLineage
      /\ nextChange' = nextChange
      /\ handed' = handed \o Untaken(f)
      /\ fns' = [fns EXCEPT ![Home].taken = fns[Home].logged,
                            ![Home].changes = Drained(@)]
      /\ fns \in [Slots -> Fn] /\ f \in Fn /\ Home \in live
      /\ live \subseteq Slots
  BY DEF TakeChanges, Inv, TypeOK
<1>2. LogIsSuffix(f)
  BY <1>1 DEF Inv, LogsAreSuffixes
<1>3. f.changes \in Seq(Nat) /\ Len(f.changes) \in Nat /\ f.logged \in Nat
        /\ f.taken \in Nat /\ Len(f.changes) <= f.logged
  BY <1>2, SlotFields DEF LogIsSuffix
<1>4. PICK m \in 0 .. Len(f.changes) :
        Drained(f.changes)
          = SubSeq(f.changes, Len(f.changes) - m + 1, Len(f.changes))
  <2>1. CASE Len(f.changes) > LOG
    <3>1. LOG \div 2 \in 0 .. Len(f.changes)
      BY <2>1, <1>3, Half, LogAssumption
    <3> QED BY <3>1, <2>1 DEF Drained
  <2>2. CASE ~(Len(f.changes) > LOG)
    <3>1. Drained(f.changes) = f.changes
      BY <2>2 DEF Drained
    <3>2. SubSeq(f.changes, 1, Len(f.changes)) = f.changes
      BY <1>3
    <3>3. Len(f.changes) - Len(f.changes) + 1 = 1
      BY <1>3
    <3> QED BY <3>1, <3>2, <3>3, <1>3
  <2> QED BY <2>1, <2>2
<1>5. Drained(f.changes) \in Seq(Nat)
  <2>1. Len(f.changes) - m + 1 \in Nat /\ Len(f.changes) - m + 1 >= 1
    BY <1>3
  <2> QED BY <2>1, <1>3, <1>4, TailType
<1>6. /\ g.logged = f.logged /\ g.changes = Drained(f.changes)
      /\ g.hist = f.hist /\ g.branch = f.branch
      /\ g.ancestors = f.ancestors
  BY <1>1 DEF Fn
<1>7. g \in Fn
  BY <1>1, <1>3, <1>5 DEF Fn
<1>8. \A s \in Slots : s # Home => fns'[s] = fns[s]
  BY <1>1
<1>9. fns' \in [Slots -> Fn]
  BY <1>1, <1>7, <1>8
<1>10. Untaken(f) \in Seq(Nat)
  <2> DEFINE from == IF f.taken >= KeptFrom(f) THEN f.taken ELSE KeptFrom(f)
  <2>1. KeptFrom(f) \in Nat /\ from \in Nat /\ from >= KeptFrom(f)
    BY <1>3 DEF KeptFrom
  <2>2. from - KeptFrom(f) + 1 \in Nat /\ from - KeptFrom(f) + 1 >= 1
    BY <2>1
  <2> QED BY <2>2, <1>3, TailType DEF Untaken
<1> HIDE DEF f, g
<1>11. TypeOK'
  BY <1>1, <1>9, <1>10 DEF Inv, TypeOK
<1>12. LogIsSuffix(g)
  BY <1>1, <1>2, <1>4, <1>6, <1>7, SuffixOfSuffix
<1>13. LogsAreSuffixes'
  <2>1. \A s \in live : LogIsSuffix(fns[s]) /\ s \in Slots
    BY <1>1 DEF Inv, LogsAreSuffixes
  <2> QED
    BY <2>1, <1>1, <1>8, <1>12 DEF LogsAreSuffixes, g
<1>14. /\ \A s \in live : /\ fns'[s].branch = fns[s].branch
                          /\ fns'[s].ancestors = fns[s].ancestors
                          /\ fns'[s].hist = fns[s].hist
       /\ \A s \in live \ {Home} : fns'[s] = fns[s]
  BY <1>1, <1>6, <1>8 DEF f, g
<1>15. QED
  BY <1>1, <1>11, <1>13, <1>14, SameBodies DEF Inv

(* A copy, of either kind: the body of the function in slot i with an      *)
(* empty log, under a number not drawn before, whose ancestors are the     *)
(* function's and the function itself, or none.                            *)
IsCopy(f, g) ==
  /\ g \in Fn
  /\ g.hist = f.hist /\ g.logged = f.logged /\ g.changes = <<>>
  /\ g.branch >= nextLineage
  /\ \A k \in 1 .. Len(g.ancestors) :
       \/ g.ancestors[k] = [branch |-> f.branch, at |-> f.logged]
       \/ \E m \in 1 .. Len(f.ancestors) : g.ancestors[k] = f.ancestors[m]
  /\ g.ancestors # <<>>
       => g.ancestors[Len(g.ancestors)].at = f.logged

LEMMA CopyInv ==
  ASSUME Inv, NEW i \in live, NEW j \in Slots \ live,
         live' = live \cup {j}, points' = points, handed' = handed,
         nextChange' = nextChange, nextLineage' \in Nat,
         fns' \in [Slots -> Fn],
         \A s \in Slots : s # j => fns'[s] = fns[s],
         IsCopy(fns[i], fns'[j]), fns'[j].branch < nextLineage'
  PROVE  Inv'
<1> DEFINE f == fns[i]
           g == fns'[j]
<1>1. i \in Slots /\ i # j /\ j # Home /\ live \subseteq Slots
        /\ nextLineage \in Nat
  BY DEF Inv, TypeOK
<1>2. TypeOK'
  BY DEF Inv, TypeOK
<1>3. LogIsSuffix(f)
  BY DEF Inv, LogsAreSuffixes
<1>4. /\ g.hist = f.hist /\ g.logged = f.logged /\ g.changes = <<>>
      /\ f.logged = Len(f.hist) /\ f.logged \in Nat
      /\ g.branch \in Nat /\ f.branch \in Nat /\ f.branch < nextLineage
      /\ nextLineage <= g.branch /\ g.branch < nextLineage'
  <2>1. g.branch \in Nat
    BY Fields DEF IsCopy
  <2> QED
    BY <1>1, <1>3, <2>1, SlotFields DEF IsCopy, LogIsSuffix, Inv, Numbered
<1>5. LogsAreSuffixes'
  <2>1. LogIsSuffix(g)
    BY <1>4 DEF LogIsSuffix, KeptFrom
  <2> QED
    BY <1>1, <2>1 DEF Inv, LogsAreSuffixes, TypeOK
<1>6. ASSUME NEW k \in 1 .. Len(g.ancestors)
      PROVE  \/ g.ancestors[k] = [branch |-> f.branch, at |-> f.logged]
             \/ \E m \in 1 .. Len(f.ancestors) : g.ancestors[k] = f.ancestors[m]
  BY DEF IsCopy
<1>7. \A k \in 1 .. Len(g.ancestors) :
        g.ancestors[k].branch < nextLineage /\ g.ancestors[k].branch \in Nat
  <2> TAKE k \in 1 .. Len(g.ancestors)
  <2>1. CASE g.ancestors[k] = [branch |-> f.branch, at |-> f.logged]
    BY <2>1, <1>4
  <2>2. ASSUME NEW m \in 1 .. Len(f.ancestors), g.ancestors[k] = f.ancestors[m]
        PROVE  g.ancestors[k].branch < nextLineage
                 /\ g.ancestors[k].branch \in Nat
    <3>1. f.ancestors[m].branch < nextLineage
      BY DEF Inv, Numbered
    <3>2. f.ancestors[m].branch \in Nat
      BY <1>1, SlotFields
    <3> QED BY <2>2, <3>1, <3>2
  <2> QED BY <2>1, <2>2, <1>6
<1>8. \A a \in live : /\ fns[a].branch \in Nat
                      /\ fns[a].branch < nextLineage
                      /\ fns'[a] = fns[a] /\ a # j
                      /\ \A k \in 1 .. Len(fns[a].ancestors) :
                           /\ fns[a].ancestors[k].branch \in Nat
                           /\ fns[a].ancestors[k].branch < nextLineage
  BY <1>1, SlotFields DEF Inv, Numbered
<1>9. \A p \in points : p.mark.branch \in Nat /\ p.mark.branch < nextLineage
                          /\ p.hist \in Seq(Nat) /\ p.mark.at \in Nat
  BY DEF Inv, Numbered, TypeOK, Mark
<1>11. Numbered'
  <2>1. \A n \in Nat : n < nextLineage => n < nextLineage'
    BY <1>1, <1>4
  <2>2. \A a \in live :
          /\ fns'[a].branch < nextLineage'
          /\ \A k \in 1 .. Len(fns'[a].ancestors) :
               fns'[a].ancestors[k].branch < nextLineage'
    BY <2>1, <1>8
  <2>3. /\ g.branch < nextLineage'
        /\ \A k \in 1 .. Len(g.ancestors) :
             g.ancestors[k].branch < nextLineage'
    BY <2>1, <1>4, <1>7
  <2>4. \A p \in points' : p.mark.branch < nextLineage'
    BY <2>1, <1>9
  <2> HIDE DEF g
  <2> QED BY <2>2, <2>3, <2>4 DEF Numbered, g
<1>12. OneOwner'
  <2>1. \A a \in live : fns'[a].branch # g.branch
    BY <1>1, <1>4, <1>8
  <2> QED
    BY <2>1, <1>8 DEF Inv, OneOwner
<1>13. AncestorsAgree'
  <2> SUFFICES ASSUME NEW a \in live', NEW b \in live',
                      NEW k \in 1 .. Len(fns'[b].ancestors),
                      fns'[b].ancestors[k].branch = fns'[a].branch
               PROVE  SamePrefix(fns'[a].hist, fns'[b].hist,
                                 fns'[b].ancestors[k].at)
    BY DEF AncestorsAgree
  <2>1. a # j
    <3>1. CASE b = j
      BY <3>1, <1>1, <1>4, <1>7
    <3>2. CASE b # j
      BY <3>2, <1>1, <1>4, <1>8
    <3> QED BY <3>1, <3>2
  <2>2. CASE b # j
    BY <2>1, <2>2, <1>8 DEF Inv, AncestorsAgree
  <2>3. CASE b = j
    <3>1. CASE g.ancestors[k] = [branch |-> f.branch, at |-> f.logged]
      <4>1. a = i
        BY <2>1, <2>3, <3>1, <1>8 DEF Inv, OneOwner
      <4> QED
        BY <2>3, <3>1, <4>1, <1>1, <1>4, <1>8, SlotFields DEF SamePrefix
    <3>2. ASSUME NEW m \in 1 .. Len(f.ancestors),
                 g.ancestors[k] = f.ancestors[m]
          PROVE  SamePrefix(fns'[a].hist, fns'[b].hist,
                            fns'[b].ancestors[k].at)
      BY <2>1, <2>3, <3>2, <1>4, <1>8 DEF Inv, AncestorsAgree
    <3> QED BY <2>3, <3>1, <3>2, <1>6
  <2> QED BY <2>2, <2>3
<1>14. PointsAgree'
  <2> SUFFICES ASSUME NEW p \in points, NEW a \in live'
               PROVE  p.mark.at = Len(p.hist) /\ PointAgrees(p, fns'[a])
    BY DEF PointsAgree
  <2>1. p.mark.at = Len(p.hist) /\ \A b \in live : PointAgrees(p, fns[b])
    BY DEF Inv, PointsAgree
  <2>2. CASE a # j
    BY <2>1, <2>2, <1>8
  <2>3. CASE a = j
    <3>1. p.mark.branch # g.branch
      BY <1>1, <1>4, <1>9
    <3>2. ASSUME NEW k \in 1 .. Len(g.ancestors),
                 g.ancestors[k].branch = p.mark.branch,
                 p.mark.at <= g.ancestors[k].at
          PROVE  SamePrefix(p.hist, g.hist, p.mark.at)
      <4>1. CASE g.ancestors[k] = [branch |-> f.branch, at |-> f.logged]
        BY <4>1, <3>2, <2>1, <1>4 DEF PointAgrees
      <4>2. ASSUME NEW m \in 1 .. Len(f.ancestors),
                   g.ancestors[k] = f.ancestors[m]
            PROVE  SamePrefix(p.hist, g.hist, p.mark.at)
        BY <4>2, <3>2, <2>1, <1>4 DEF PointAgrees
      <4> QED BY <4>1, <4>2, <1>6
    <3> QED BY <2>1, <2>3, <3>1, <3>2 DEF PointAgrees
  <2> QED BY <2>2, <2>3
<1>15. ForkLogs'
  <2>1. KeptFrom(g) = f.logged
    BY <1>4 DEF KeptFrom
  <2>2. g.ancestors # <<>> => KeptFrom(g) = g.ancestors[Len(g.ancestors)].at
    BY <2>1 DEF IsCopy
  <2> QED
    BY <2>2, <1>8 DEF Inv, ForkLogs
<1>16. QED
  BY <1>2, <1>5, <1>11, <1>12, <1>13, <1>14, <1>15 DEF Inv

LEMMA CloneInv ==
  ASSUME NEW i \in Slots, NEW j \in Slots, Inv, Clone(i, j)
  PROVE  Inv'
<1> DEFINE f == fns[i]
           g == fns'[j]
<1>1. /\ i \in live /\ j \in Slots \ live
      /\ live' = live \cup {j} /\ points' = points /\ handed' = handed
      /\ nextChange' = nextChange /\ nextLineage' = nextLineage + 1
      /\ nextLineage \in Nat /\ fns \in [Slots -> Fn] /\ f \in Fn
      /\ fns' = [fns EXCEPT ![j] = [fns[i] EXCEPT !.uid = nextLineage,
                                                  !.branch = nextLineage,
                                                  !.ancestors = <<>>,
                                                  !.changes = <<>>]]
  BY DEF Clone, Inv, TypeOK
<1>2. /\ g.branch = nextLineage /\ g.ancestors = <<>> /\ g.changes = <<>>
      /\ g.hist = f.hist /\ g.logged = f.logged
  BY <1>1 DEF Fn
<1>3. g \in Fn
  <2>1. <<>> \in Seq(Nat) /\ <<>> \in Seq(Ancestor)
    OBVIOUS
  <2>2. g = [f EXCEPT !.uid = nextLineage, !.branch = nextLineage,
                      !.ancestors = <<>>, !.changes = <<>>]
    BY <1>1
  <2> HIDE DEF g, f
  <2> QED BY <1>1, <2>1, <2>2 DEF Fn
<1>4. \A s \in Slots : s # j => fns'[s] = fns[s]
  BY <1>1
<1>5. fns' \in [Slots -> Fn]
  BY <1>1, <1>3, <1>4
<1>6. IsCopy(f, g)
  BY <1>1, <1>2, <1>3 DEF IsCopy
<1>7. nextLineage' \in Nat /\ g.branch < nextLineage'
  BY <1>1, <1>2
<1> HIDE DEF f, g
<1>8. QED
  BY <1>1, <1>4, <1>5, <1>6, <1>7, CopyInv DEF f, g

LEMMA ForkInv ==
  ASSUME NEW i \in Slots, NEW j \in Slots, Inv, Fork(i, j)
  PROVE  Inv'
<1> DEFINE f == fns[i]
           g == fns'[j]
           self == [branch |-> f.branch, at |-> f.logged]
<1>1. /\ i \in live /\ j \in Slots \ live
      /\ live' = live \cup {j} /\ points' = points /\ handed' = handed
      /\ nextChange' = nextChange /\ nextLineage' = nextLineage + 2
      /\ nextLineage \in Nat /\ fns \in [Slots -> Fn] /\ f \in Fn
      /\ fns' = [fns EXCEPT ![j] =
                   [fns[i] EXCEPT
                      !.branch = nextLineage + 1,
                      !.ancestors = Append(@, self),
                      !.changes = <<>>]]
  BY DEF Fork, Inv, TypeOK
<1>2. /\ f.ancestors \in Seq(Ancestor) /\ self \in Ancestor
  BY <1>1, SlotFields DEF Ancestor
<1>3. /\ Append(f.ancestors, self) \in Seq(Ancestor)
      /\ Len(Append(f.ancestors, self)) = Len(f.ancestors) + 1
      /\ \A k \in 1 .. Len(f.ancestors) :
           Append(f.ancestors, self)[k] = f.ancestors[k]
      /\ Append(f.ancestors, self)[Len(f.ancestors) + 1] = self
      /\ Len(f.ancestors) \in Nat
  <2> HIDE DEF f, self
  <2> QED BY <1>2, AppendFacts
<1>4. /\ g.branch = nextLineage + 1 /\ g.changes = <<>>
      /\ g.ancestors = Append(f.ancestors, self)
      /\ g.hist = f.hist /\ g.logged = f.logged
  BY <1>1 DEF Fn
<1>5. g \in Fn
  <2>1. <<>> \in Seq(Nat)
    OBVIOUS
  <2>2. g = [f EXCEPT !.branch = nextLineage + 1,
                      !.ancestors = Append(f.ancestors, self),
                      !.changes = <<>>]
    BY <1>1
  <2>3. nextLineage + 1 \in Nat
    BY <1>1
  <2> HIDE DEF g, f, self
  <2> QED BY <1>1, <1>3, <2>1, <2>2, <2>3 DEF Fn
<1>6. \A s \in Slots : s # j => fns'[s] = fns[s]
  BY <1>1
<1>7. fns' \in [Slots -> Fn]
  BY <1>1, <1>5, <1>6
<1>8. self.at = f.logged
  OBVIOUS
<1>9. IsCopy(f, g)
  <2> HIDE DEF g, f
  <2>1. /\ \A k \in 1 .. Len(g.ancestors) :
             \/ g.ancestors[k] = self
             \/ \E m \in 1 .. Len(f.ancestors) : g.ancestors[k] = f.ancestors[m]
        /\ g.ancestors[Len(g.ancestors)].at = f.logged
    <3> HIDE DEF self
    <3> QED BY <1>3, <1>4, <1>8
  <2>2. g.branch >= nextLineage
    BY <1>1, <1>4
  <2> QED BY <2>1, <2>2, <1>4, <1>5 DEF IsCopy
<1>10. nextLineage' \in Nat /\ g.branch < nextLineage'
  BY <1>1, <1>4
<1> HIDE DEF f, g
<1>11. QED
  BY <1>1, <1>6, <1>7, <1>9, <1>10, CopyInv DEF f, g

LEMMA DiscardInv ==
  ASSUME NEW j \in Slots, Inv, Discard(j)
  PROVE  Inv'
<1>1. /\ j \in live /\ j # Home /\ live' = live \ {j}
      /\ fns' = [fns EXCEPT ![j] = Blank]
      /\ UNCHANGED <<nextLineage, nextChange, points, handed>>
      /\ fns \in [Slots -> Fn]
  BY DEF Discard, Inv, TypeOK
<1>2. Blank \in Fn
  BY DEF Blank, NewFn, Fn, Ancestor
<1>3. fns' \in [Slots -> Fn] /\ \A s \in live' : s \in live /\ fns'[s] = fns[s]
  BY <1>1, <1>2 DEF Inv, TypeOK
<1>4. TypeOK'
  BY <1>1, <1>3 DEF Inv, TypeOK
<1>5. LogsAreSuffixes' /\ Numbered' /\ OneOwner' /\ ForkLogs'
  BY <1>1, <1>3 DEF Inv, LogsAreSuffixes, Numbered, OneOwner, ForkLogs,
                    LogIsSuffix, KeptFrom
<1>6. AncestorsAgree'
  BY <1>1, <1>3 DEF Inv, AncestorsAgree
<1>7. PointsAgree'
  BY <1>1, <1>3 DEF Inv, PointsAgree, PointAgrees
<1>8. QED BY <1>4, <1>5, <1>6, <1>7 DEF Inv

(* The function in slot j takes Home's place, with its branch, ancestors   *)
(* and body.                                                               *)
LEMMA MoveInv ==
  ASSUME Inv, NEW j \in live \ {Home}, live' = live \ {j},
         points' = points, nextLineage' = nextLineage,
         nextChange' = nextChange, handed' = handed,
         fns' \in [Slots -> Fn],
         \A s \in Slots \ {Home, j} : fns'[s] = fns[s],
         fns'[Home].branch = fns[j].branch,
         fns'[Home].ancestors = fns[j].ancestors,
         fns'[Home].hist = fns[j].hist,
         LogIsSuffix(fns'[Home])
  PROVE  Inv'
<1> DEFINE m(s) == IF s = Home THEN j ELSE s
<1>1. Home \in live /\ Home # j /\ live \subseteq Slots
  BY DEF Inv, TypeOK
<1>2. TypeOK'
  BY <1>1 DEF Inv, TypeOK
<1>3. LogsAreSuffixes'
  <2>1. \A s \in live' : s = Home \/ (s \in Slots \ {Home, j} /\ s \in live)
    BY <1>1
  <2>2. \A s \in live : LogIsSuffix(fns[s])
    BY DEF Inv, LogsAreSuffixes
  <2>3. \A s \in live' : LogIsSuffix(fns'[s])
    BY <2>1, <2>2
  <2> QED BY <2>3 DEF LogsAreSuffixes, LogIsSuffix, KeptFrom
<1>4. \A s \in live' : /\ m(s) \in live
                       /\ fns'[s].branch = fns[m(s)].branch
                       /\ fns'[s].ancestors = fns[m(s)].ancestors
                       /\ fns'[s].hist = fns[m(s)].hist
  BY <1>1
<1>5. \A s, t \in live' : m(s) = m(t) => s = t
  OBVIOUS
<1> HIDE DEF m
<1>6. Numbered' /\ OneOwner'
  BY <1>4, <1>5 DEF Inv, Numbered, OneOwner
<1>7. AncestorsAgree'
  BY <1>4 DEF Inv, AncestorsAgree
<1>8. PointsAgree'
  BY <1>4 DEF Inv, PointsAgree, PointAgrees
<1>9. ForkLogs'
  BY <1>1 DEF Inv, ForkLogs, KeptFrom
<1>10. QED BY <1>2, <1>3, <1>6, <1>7, <1>8, <1>9 DEF Inv

LEMMA PutBackInv ==
  ASSUME NEW j \in Slots, Inv, PutBack(j)
  PROVE  Inv'
<1>1. /\ j \in live \ {Home} /\ live' = live \ {j}
      /\ fns' = [fns EXCEPT ![Home] = fns[j], ![j] = Blank]
      /\ points' = points /\ nextLineage' = nextLineage
      /\ nextChange' = nextChange /\ handed' = handed
      /\ fns \in [Slots -> Fn] /\ Home \in Slots
  BY HomeAssumption DEF PutBack, Inv, TypeOK
<1>2. Blank \in Fn
  BY DEF Blank, NewFn, Fn, Ancestor
<1>3. /\ fns' \in [Slots -> Fn] /\ fns'[Home] = fns[j]
      /\ \A s \in Slots \ {Home, j} : fns'[s] = fns[s]
  BY <1>1, <1>2
<1>4. LogIsSuffix(fns'[Home])
  BY <1>1, <1>3 DEF Inv, LogsAreSuffixes
<1>5. QED BY <1>1, <1>3, <1>4, MoveInv

LEMMA ConcatFacts ==
  ASSUME NEW s \in Seq(Nat), NEW t \in Seq(Nat)
  PROVE  /\ s \o t \in Seq(Nat)
         /\ Len(s) \in Nat /\ Len(t) \in Nat
         /\ Len(s \o t) = Len(s) + Len(t)
         /\ \A k \in 1 .. Len(s) : (s \o t)[k] = s[k]
         /\ \A k \in 1 .. Len(t) : (s \o t)[Len(s) + k] = t[k]
OBVIOUS

(* The logs of a function and of a fork of it as it stands, end to end.    *)
LEMMA JoinedLogs ==
  ASSUME NEW f \in Fn, NEW g \in Fn, NEW a \in Fn,
         LogIsSuffix(f), LogIsSuffix(g), KeptFrom(g) = f.logged,
         SamePrefix(f.hist, g.hist, f.logged),
         a.logged = g.logged, a.hist = g.hist,
         a.changes = f.changes \o g.changes
  PROVE  LogIsSuffix(a)
<1> DEFINE n == Len(f.changes)
           m == Len(g.changes)
           l == f.logged
<1>1. /\ f.changes \in Seq(Nat) /\ g.changes \in Seq(Nat)
      /\ f.logged \in Nat /\ g.logged \in Nat
  BY Fields
<1>0. /\ Len(f.changes) \in Nat /\ Len(g.changes) \in Nat
      /\ Len(f.changes \o g.changes) = Len(f.changes) + Len(g.changes)
      /\ \A k \in 1 .. Len(f.changes) :
           (f.changes \o g.changes)[k] = f.changes[k]
      /\ \A k \in 1 .. Len(g.changes) :
           (f.changes \o g.changes)[Len(f.changes) + k] = g.changes[k]
  BY <1>1, ConcatFacts
<1>2. /\ n \in Nat /\ m \in Nat /\ l \in Nat
      /\ Len(a.changes) = n + m
      /\ \A k \in 1 .. n : a.changes[k] = f.changes[k]
      /\ \A k \in 1 .. m : a.changes[n + k] = g.changes[k]
  BY <1>0, <1>1
<1>3. /\ n <= l /\ g.logged = l + m /\ a.logged = Len(a.hist)
      /\ KeptFrom(f) = l - n
  <2>1. /\ n <= l /\ a.logged = Len(a.hist) /\ KeptFrom(f) = l - n
        /\ g.logged - m = l
    BY DEF LogIsSuffix, KeptFrom
  <2> HIDE DEF n, m, l
  <2> QED BY <1>1, <1>2, <2>1
<1>4. KeptFrom(a) = l - n /\ n + m <= a.logged
  <2> HIDE DEF n, m, l
  <2> QED BY <1>2, <1>3 DEF KeptFrom
<1>5. /\ \A k \in 1 .. n : f.changes[k] = f.hist[(l - n) + k]
      /\ \A k \in 1 .. m : g.changes[k] = g.hist[l + k]
      /\ \A k \in 1 .. l : f.hist[k] = g.hist[k]
  BY <1>3 DEF LogIsSuffix, SamePrefix
<1> HIDE DEF n, m, l
<1>6. ASSUME NEW k \in 1 .. (n + m)
      PROVE  a.changes[k] = a.hist[(l - n) + k]
  <2>1. CASE k \in 1 .. n
    <3>1. (l - n) + k \in 1 .. l
      BY <2>1, <1>2, <1>3
    <3>2. a.changes[k] = f.changes[k] /\ f.changes[k] = f.hist[(l - n) + k]
      BY <2>1, <1>2, <1>5
    <3>3. f.hist[(l - n) + k] = a.hist[(l - n) + k]
      BY <3>1, <1>5
    <3> QED BY <3>2, <3>3
  <2>2. CASE k > n
    <3>1. PICK i \in 1 .. m : k = n + i
      <4>1. k - n \in 1 .. m /\ k = n + (k - n)
        BY <2>2, <1>2
      <4> QED BY <4>1
    <3>2. (l - n) + k = l + i
      BY <3>1, <1>2
    <3>3. a.changes[n + i] = g.changes[i] /\ g.changes[i] = g.hist[l + i]
      BY <1>2, <1>5
    <3>4. a.changes[k] = g.hist[l + i]
      BY <3>1, <3>3
    <3>5. a.hist[(l - n) + k] = g.hist[l + i]
      BY <3>2
    <3> QED BY <3>4, <3>5
  <2>3. k \in 1 .. n \/ k > n
    BY <1>2
  <2> QED BY <2>1, <2>2, <2>3
<1>7. QED BY <1>2, <1>3, <1>4, <1>6 DEF LogIsSuffix

LEMMA SameUpTo ==
  ASSUME NEW x \in Seq(Nat), NEW y \in Seq(Nat), SamePrefix(x, y, Len(x)),
         NEW h \in Seq(Nat), NEW n \in Nat
  PROVE  /\ SamePrefix(h, x, n) => SamePrefix(h, y, n)
         /\ SamePrefix(x, h, n) => SamePrefix(y, h, n)
         /\ SamePrefix(x, x, n) => SamePrefix(y, y, n)
BY DEF SamePrefix

(* A fork that changed nothing has Home's body, and takes its branch.      *)
LEMMA SameBodyInv ==
  ASSUME Inv, NEW j \in live \ {Home}, live' = live \ {j},
         points' = points, nextLineage' = nextLineage,
         nextChange' = nextChange, handed' = handed,
         fns' \in [Slots -> Fn],
         \A s \in Slots \ {Home, j} : fns'[s] = fns[s],
         fns'[Home].branch = fns[Home].branch,
         fns'[Home].ancestors = fns[Home].ancestors,
         SamePrefix(fns[Home].hist, fns'[Home].hist, Len(fns[Home].hist)),
         LogIsSuffix(fns'[Home])
  PROVE  Inv'
<1> DEFINE f == fns[Home]
           g == fns'[Home]
<1>1. /\ Home \in live /\ Home # j /\ live \subseteq Slots
      /\ f.hist \in Seq(Nat) /\ g.hist \in Seq(Nat)
      /\ SamePrefix(f.hist, g.hist, Len(f.hist))
      /\ g.branch = f.branch /\ g.ancestors = f.ancestors
  BY SlotFields, Fields DEF Inv, TypeOK
<1>2. \A s \in live' : /\ s \in live
                       /\ fns'[s].branch = fns[s].branch
                       /\ fns'[s].ancestors = fns[s].ancestors
                       /\ s # Home => fns'[s] = fns[s]
  BY <1>1
<1>3. TypeOK'
  BY <1>1 DEF Inv, TypeOK
<1>4. LogsAreSuffixes'
  <2>1. \A s \in live : LogIsSuffix(fns[s])
    BY DEF Inv, LogsAreSuffixes
  <2>2. \A s \in live' : LogIsSuffix(fns'[s])
    BY <1>2, <2>1
  <2> QED BY <2>2 DEF LogsAreSuffixes, LogIsSuffix, KeptFrom
<1>5. Numbered' /\ OneOwner'
  BY <1>2 DEF Inv, Numbered, OneOwner
<1>6. ASSUME NEW h \in Seq(Nat), NEW n \in Nat
      PROVE  /\ SamePrefix(h, f.hist, n) => SamePrefix(h, g.hist, n)
             /\ SamePrefix(f.hist, h, n) => SamePrefix(g.hist, h, n)
             /\ SamePrefix(f.hist, f.hist, n) => SamePrefix(g.hist, g.hist, n)
  <2> HIDE DEF f, g
  <2> QED BY <1>1, SameUpTo
<1> HIDE DEF f, g
<1>7. AncestorsAgree'
  <2> SUFFICES ASSUME NEW a \in live', NEW b \in live',
                      NEW k \in 1 .. Len(fns'[b].ancestors),
                      fns'[b].ancestors[k].branch = fns'[a].branch
               PROVE  SamePrefix(fns'[a].hist, fns'[b].hist,
                                 fns'[b].ancestors[k].at)
    BY DEF AncestorsAgree
  <2> DEFINE n == fns[b].ancestors[k].at
  <2>1. /\ a \in live /\ b \in live /\ a \in Slots /\ b \in Slots
        /\ fns'[b].ancestors = fns[b].ancestors
        /\ fns'[a].branch = fns[a].branch
    BY <1>1, <1>2
  <2>2. SamePrefix(fns[a].hist, fns[b].hist, n)
    BY <2>1 DEF Inv, AncestorsAgree
  <2>3. fns[a].hist \in Seq(Nat) /\ fns[b].hist \in Seq(Nat) /\ n \in Nat
    BY <2>1, SlotFields
  <2> HIDE DEF n
  <2>4. SamePrefix(fns'[a].hist, fns'[b].hist, n)
    <3>1. CASE a = Home /\ b = Home
      BY <3>1, <2>2, <2>3, <1>6 DEF f, g
    <3>2. CASE a = Home /\ b # Home
      BY <3>2, <2>2, <2>3, <1>2, <1>6 DEF f, g
    <3>3. CASE a # Home /\ b = Home
      BY <3>3, <2>2, <2>3, <1>2, <1>6 DEF f, g
    <3>4. CASE a # Home /\ b # Home
      BY <3>4, <2>2, <1>2
    <3> QED BY <3>1, <3>2, <3>3, <3>4
  <2> QED BY <2>1, <2>4 DEF n
<1>8. PointsAgree'
  <2> SUFFICES ASSUME NEW p \in points, NEW a \in live'
               PROVE  PointAgrees(p, fns'[a])
    BY DEF PointsAgree, Inv
  <2>1. /\ a \in live /\ fns'[a].ancestors = fns[a].ancestors
        /\ fns'[a].branch = fns[a].branch
        /\ p.hist \in Seq(Nat) /\ p.mark.at \in Nat
    BY <1>2 DEF Inv, TypeOK, Mark
  <2>2. PointAgrees(p, fns[a])
    BY <2>1 DEF Inv, PointsAgree
  <2>3. SamePrefix(p.hist, fns[a].hist, p.mark.at)
          => SamePrefix(p.hist, fns'[a].hist, p.mark.at)
    BY <2>1, <1>2, <1>6 DEF f, g
  <2> QED
    BY <2>1, <2>2, <2>3 DEF PointAgrees
<1>9. ForkLogs'
  BY <1>2 DEF Inv, ForkLogs, KeptFrom
<1>10. QED BY <1>3, <1>4, <1>5, <1>7, <1>8, <1>9 DEF Inv

LEMMA AdoptInv ==
  ASSUME NEW j \in Slots, Inv, Adopt(j)
  PROVE  Inv'
<1> DEFINE f == fns[Home]
           g == fns[j]
           a == fns'[Home]
           last == g.ancestors[Len(g.ancestors)]
<1>1. /\ j \in live \ {Home} /\ Home \in live /\ live' = live \ {j}
      /\ fns' = [fns EXCEPT ![Home] = Adopted(f, g), ![j] = Blank]
      /\ points' = points /\ nextLineage' = nextLineage
      /\ nextChange' = nextChange /\ handed' = handed
      /\ fns \in [Slots -> Fn] /\ Home \in Slots /\ f \in Fn /\ g \in Fn
      /\ IsForkOf(g, f)
  BY HomeAssumption DEF Adopt, Inv, TypeOK
<1>2. a = Adopted(f, g) /\ \A s \in Slots \ {Home, j} : fns'[s] = fns[s]
  BY <1>1
<1>3. /\ f.changes \o g.changes \in Seq(Nat)
      /\ f.taken \in Nat /\ f.branch \in Nat /\ f.ancestors \in Seq(Ancestor)
      /\ f.hist \in Seq(Nat) /\ g.hist \in Seq(Nat)
      /\ f.logged \in Nat /\ g.logged \in Nat
      /\ Len(g.ancestors) \in 1 .. Len(g.ancestors)
      /\ last.branch = f.branch /\ last.at = f.logged
  <2>1. g.ancestors # <<>> /\ last = [branch |-> f.branch, at |-> f.logged]
    BY <1>1 DEF IsForkOf
  <2>2. Len(g.ancestors) \in 1 .. Len(g.ancestors)
    <3>1. g.ancestors \in Seq(Ancestor)
      BY <1>1, Fields
    <3> QED BY <3>1, <2>1
  <2> HIDE DEF f, g
  <2> QED BY <1>1, <2>1, <2>2, Fields, ConcatFacts
<1> DEFINE joined == [g EXCEPT !.changes = f.changes \o g.changes,
                               !.taken = f.taken]
<1>4. /\ joined \in Fn /\ joined.hist = g.hist /\ joined.logged = g.logged
      /\ joined.changes = f.changes \o g.changes
      /\ joined.branch = g.branch /\ joined.ancestors = g.ancestors
  BY <1>1, <1>3 DEF Fn
<1>5. /\ a \in Fn /\ a.hist = g.hist /\ a.logged = g.logged
      /\ a.changes = f.changes \o g.changes
      /\ \/ a.branch = g.branch /\ a.ancestors = g.ancestors
         \/ /\ g.logged = f.logged
            /\ a.branch = f.branch /\ a.ancestors = f.ancestors
  <2>1. CASE last = [branch |-> f.branch, at |-> g.logged]
    <3>1. a = [joined EXCEPT !.branch = f.branch, !.ancestors = f.ancestors]
      BY <2>1, <1>2 DEF Adopted
    <3>2. g.logged = f.logged
      BY <2>1, <1>3
    <3> HIDE DEF joined
    <3> QED BY <3>1, <3>2, <1>3, <1>4 DEF Fn
  <2>2. CASE last # [branch |-> f.branch, at |-> g.logged]
    BY <2>2, <1>2, <1>4 DEF Adopted
  <2> QED BY <2>1, <2>2
<1>6. fns' \in [Slots -> Fn]
  <2>1. Blank \in Fn
    BY DEF Blank, NewFn, Fn, Ancestor
  <2> QED BY <2>1, <1>1, <1>2, <1>5
<1> HIDE DEF joined
<1>7. SamePrefix(f.hist, g.hist, f.logged)
  BY <1>1, <1>3 DEF Inv, AncestorsAgree
<1>8. LogIsSuffix(f) /\ LogIsSuffix(g)
  BY <1>1 DEF Inv, LogsAreSuffixes
<1>9. KeptFrom(g) = f.logged
  BY <1>1, <1>3 DEF Inv, ForkLogs, IsForkOf
<1> HIDE DEF f, g, a, last
<1>10. LogIsSuffix(a)
  BY <1>1, <1>5, <1>7, <1>8, <1>9, JoinedLogs
<1>11. CASE a.branch = g.branch /\ a.ancestors = g.ancestors
  BY <1>11, <1>1, <1>2, <1>5, <1>6, <1>10, MoveInv DEF f, g, a
<1>12. CASE a.branch = f.branch /\ a.ancestors = f.ancestors
  <2>1. SamePrefix(f.hist, a.hist, Len(f.hist))
    BY <1>5, <1>7, <1>8 DEF LogIsSuffix
  <2> QED
    BY <1>12, <2>1, <1>1, <1>2, <1>6, <1>10, SameBodyInv DEF f, a
<1>13. QED BY <1>5, <1>11, <1>12

LEMMA StutterInv == Inv /\ UNCHANGED vars => Inv'
BY DEF Inv, vars, TypeOK, LogsAreSuffixes, LogIsSuffix, KeptFrom, Numbered,
       OneOwner, AncestorsAgree, PointsAgree, PointAgrees, ForkLogs

LEMMA NextInv == Inv /\ [Next]_vars => Inv'
<1> SUFFICES ASSUME Inv, [Next]_vars
             PROVE  Inv'
  OBVIOUS
<1>1. CASE \E i \in Slots : Edit(i)
  BY <1>1, EditInv
<1>2. CASE \E i \in Slots : TakeMark(i)
  BY <1>2, TakeMarkInv
<1>3. CASE TakeChanges
  BY <1>3, TakeChangesInv
<1>4. CASE \E i, j \in Slots : Clone(i, j)
  BY <1>4, CloneInv
<1>5. CASE \E i, j \in Slots : Fork(i, j)
  BY <1>5, ForkInv
<1>6. CASE \E j \in Slots : Adopt(j)
  BY <1>6, AdoptInv
<1>7. CASE \E j \in Slots : PutBack(j)
  BY <1>7, PutBackInv
<1>8. CASE \E j \in Slots : Discard(j)
  BY <1>8, DiscardInv
<1>9. CASE UNCHANGED vars
  BY <1>9, StutterInv
<1>10. QED
  BY <1>1, <1>2, <1>3, <1>4, <1>5, <1>6, <1>7, <1>8, <1>9 DEF Next

-----------------------------------------------------------------------------
(* Every branch has one owner, and whoever forked from it or marked it     *)
(* agrees with the owner that far.                                         *)
THEOREM Invariance == Spec => []Inv
<1>1. Init => Inv
  BY InitInv
<1>2. Inv /\ [Next]_vars => Inv'
  BY NextInv
<1>3. QED BY <1>1, <1>2, PTL DEF Spec

(* A function's fields stay what their types say.                          *)
THEOREM TypeCorrect == Spec => []TypeOK
<1>1. Inv => TypeOK
  BY DEF Inv
<1>2. QED BY <1>1, Invariance, PTL

(* Two sequences are one when they have the same elements.                 *)
LEMMA SeqEqual ==
  ASSUME NEW g \in Seq(Nat), NEW h \in Seq(Nat), Len(g) = Len(h),
         \A k \in 1 .. Len(g) : g[k] = h[k]
  PROVE  g = h
OBVIOUS

LEMMA SplitHistory ==
  ASSUME NEW h \in Seq(Nat), NEW q \in Seq(Nat), NEW t \in Seq(Nat),
         Len(h) = Len(q) + Len(t),
         \A k \in 1 .. Len(q) : h[k] = q[k],
         \A k \in 1 .. Len(t) : h[Len(q) + k] = t[k]
  PROVE  h = q \o t
<1>1. /\ q \o t \in Seq(Nat) /\ Len(q \o t) = Len(h)
      /\ Len(q) \in Nat /\ Len(t) \in Nat
      /\ \A k \in 1 .. Len(q) : (q \o t)[k] = q[k]
      /\ \A k \in 1 .. Len(t) : (q \o t)[Len(q) + k] = t[k]
  BY ConcatFacts
<1>2. ASSUME NEW k \in 1 .. Len(h)
      PROVE  h[k] = (q \o t)[k]
  <2>1. CASE k \in 1 .. Len(q)
    BY <2>1, <1>1
  <2>2. CASE k > Len(q)
    <3> DEFINE i == k - Len(q)
    <3>1. i \in 1 .. Len(t) /\ k = Len(q) + i
      BY <2>2, <1>1
    <3> HIDE DEF i
    <3>2. h[Len(q) + i] = t[i] /\ (q \o t)[Len(q) + i] = t[i]
      BY <3>1, <1>1
    <3> QED BY <3>1, <3>2
  <2>3. k \in 1 .. Len(q) \/ k > Len(q)
    BY <1>1
  <2> QED BY <2>1, <2>2, <2>3
<1>3. QED BY <1>1, <1>2, SeqEqual

(* A mark that is a point of the function's history agrees with it.        *)
LEMMA OursAgrees ==
  ASSUME Inv, NEW i \in live, NEW p \in points, Ours(fns[i], p.mark)
  PROVE  /\ SamePrefix(p.hist, fns[i].hist, p.mark.at)
         /\ p.mark.at = Len(p.hist)
BY DEF Inv, PointsAgree, PointAgrees, Ours

LEMMA AnswersAreTrue == Inv => ChangesSinceIsWhatChanged
<1> SUFFICES ASSUME Inv, NEW i \in live, NEW p \in points,
                    Resolves(fns[i], p.mark)
             PROVE  fns[i].hist = p.hist \o ChangesSince(fns[i], p.mark)
  BY DEF ChangesSinceIsWhatChanged
<1> DEFINE f == fns[i]
           n == Len(f.changes)
           l == f.logged
           at == p.mark.at
           from == at - (l - n)
           t == SubSeq(f.changes, from + 1, n)
<1>1. /\ i \in Slots /\ f.changes \in Seq(Nat) /\ f.hist \in Seq(Nat)
      /\ p.hist \in Seq(Nat) /\ n \in Nat /\ l \in Nat /\ at \in Nat
  <2>1. i \in Slots /\ p.hist \in Seq(Nat) /\ at \in Nat
    BY DEF Inv, TypeOK, Mark
  <2> QED BY <2>1, SlotFields
<1>2. SamePrefix(p.hist, f.hist, at) /\ at = Len(p.hist)
  BY OursAgrees DEF Resolves
<1>3. /\ l = Len(f.hist) /\ n <= l /\ KeptFrom(f) = l - n
      /\ \A k \in 1 .. n : f.changes[k] = f.hist[(l - n) + k]
  BY DEF Inv, LogsAreSuffixes, LogIsSuffix, KeptFrom
<1>4. l - n <= at /\ at <= l
  BY <1>3 DEF Resolves
<1>5. ChangesSince(f, p.mark) = t
  BY <1>3 DEF ChangesSince
<1> HIDE DEF f, n, l, at
<1>6. from \in 0 .. n /\ n - from = l - at
  BY <1>1, <1>3, <1>4
<1> HIDE DEF from
<1>7. /\ t \in Seq(Nat) /\ Len(t) = n - from
      /\ \A k \in 1 .. Len(t) : t[k] = f.changes[from + k]
  BY <1>1, <1>6 DEF n
<1> HIDE DEF t
<1>8. ASSUME NEW k \in 1 .. Len(t)
      PROVE  f.hist[at + k] = t[k]
  <2>1. from + k \in 1 .. n
    BY <1>1, <1>6, <1>7
  <2>2. (l - n) + (from + k) = at + k
    BY <1>1, <1>6, <1>7 DEF from
  <2>3. f.changes[from + k] = f.hist[(l - n) + (from + k)]
    BY <2>1, <1>3
  <2> QED BY <2>2, <2>3, <1>7
<1>9. Len(f.hist) = Len(p.hist) + Len(t)
  BY <1>1, <1>2, <1>3, <1>6, <1>7
<1>10. \A k \in 1 .. Len(p.hist) : f.hist[k] = p.hist[k]
  BY <1>2 DEF SamePrefix
<1>11. f.hist = p.hist \o t
  BY <1>1, <1>2, <1>7, <1>8, <1>9, <1>10, SplitHistory
<1>12. QED BY <1>5, <1>11 DEF f

(* What a function's log answers for a mark, for any number of clones,     *)
(* forks, drained logs and adopted forks, is what changed since.           *)
THEOREM ChangesSinceCorrect == Spec => []ChangesSinceIsWhatChanged
BY AnswersAreTrue, Invariance, PTL

LEMMA MarksTellBodies == Inv => EqualMarksAreOneBody
<1> SUFFICES ASSUME Inv, NEW i \in live, NEW p \in points,
                    p.mark = MarkOf(fns[i])
             PROVE  p.hist = fns[i].hist
  BY DEF EqualMarksAreOneBody
<1>1. Ours(fns[i], p.mark) /\ p.mark.at = fns[i].logged
  BY DEF Ours, MarkOf
<1>2. SamePrefix(p.hist, fns[i].hist, p.mark.at) /\ p.mark.at = Len(p.hist)
  BY <1>1, OursAgrees
<1>3. fns[i].logged = Len(fns[i].hist)
  BY DEF Inv, LogsAreSuffixes, LogIsSuffix
<1>4. p.hist \in Seq(Nat) /\ fns[i].hist \in Seq(Nat)
  BY SlotFields DEF Inv, TypeOK
<1>5. QED BY <1>1, <1>2, <1>3, <1>4, SeqEqual DEF SamePrefix

(* Two bodies at one mark are one body.                                    *)
THEOREM MarksAreIdentities == Spec => []EqualMarksAreOneBody
BY MarksTellBodies, Invariance, PTL

-----------------------------------------------------------------------------
(* What the pass manager is promised when it takes a function's changes    *)
(* and when a fork is put in the function's place.  Each of the three      *)
(* properties needs more of the logs than `Inv` says: which copies can be  *)
(* of the first history (`HomeKeepsUp`), that a fork's ancestors are its   *)
(* owner's and the owner itself (`ForksAreTrees`), and that a change is in *)
(* one log only and leaves it, or falls behind `taken`, when it is handed  *)
(* out (`HandsOutOnce`).                                                   *)

(* A copy of the first history is a fork, so that `adopt` is the only way  *)
(* for it into the module.                                                 *)
HomeKeepsUp ==
  /\ UntakenIsKept
  /\ nextLineage >= 2
  /\ \A j \in live \ {Home} : fns[j].ancestors = <<>> => fns[j].uid # 1

(* Whoever forked from a branch has the ancestors of the branch's owner    *)
(* before it.                                                              *)
ForksAreTrees ==
  \A i, j \in live : \A k \in 1 .. Len(fns[j].ancestors) :
    fns[j].ancestors[k].branch = fns[i].branch
      => fns[i].ancestors = SubSeq(fns[j].ancestors, 1, k - 1)

(* Changes not made yet are in no log and not handed out.                  *)
Older ==
  /\ \A n \in 1 .. Len(handed) : handed[n] < nextChange
  /\ \A i \in live : \A k \in 1 .. Len(fns[i].changes) :
       fns[i].changes[k] < nextChange

(* A change is in one place of one log.                                    *)
InOneLog ==
  \A i, j \in live :
    \A k \in 1 .. Len(fns[i].changes) : \A l \in 1 .. Len(fns[j].changes) :
      fns[i].changes[k] = fns[j].changes[l] => i = j /\ k = l

(* One that was handed out is only in the log it was taken from, before    *)
(* what has been taken.                                                    *)
LogUnhanded ==
  \A i \in live : \A k \in 1 .. Len(fns[i].changes) :
    \A n \in 1 .. Len(handed) :
      fns[i].changes[k] = handed[n]
        => i = Home /\ KeptFrom(fns[i]) + k <= fns[i].taken

HandsOutOnce == Older /\ InOneLog /\ LogUnhanded /\ HandedOutOnce

-----------------------------------------------------------------------------
LEMMA SameDistance ==
  ASSUME NEW l \in Nat, NEW n \in Nat, NEW m \in Nat
  PROVE  (l + m) - (n + m) = l - n /\ l <= l + m
OBVIOUS

LEMMA Plus ==
  ASSUME NEW l \in Nat, NEW n \in Nat, NEW m \in Nat, n = l - m
  PROVE  l = n + m
OBVIOUS

(* What each action leaves, field by field.                                *)
LEMMA EditStep ==
  ASSUME NEW i \in Slots, Inv, Edit(i)
  PROVE  /\ i \in live /\ live' = live /\ nextLineage' = nextLineage
         /\ handed' = handed /\ points' = points
         /\ nextChange \in Nat /\ nextChange' = nextChange + 1
         /\ \A s \in Slots \ {i} : fns'[s] = fns[s]
         /\ fns'[i].uid = fns[i].uid /\ fns'[i].branch = fns[i].branch
         /\ fns'[i].ancestors = fns[i].ancestors
         /\ fns'[i].taken = fns[i].taken
         /\ Len(fns'[i].changes) = Len(fns[i].changes) + 1
         /\ KeptFrom(fns'[i]) = KeptFrom(fns[i])
         /\ \A k \in 1 .. Len(fns[i].changes) :
              fns'[i].changes[k] = fns[i].changes[k]
         /\ fns'[i].changes[Len(fns[i].changes) + 1] = nextChange
<1> DEFINE f == fns[i]
           g == fns'[i]
<1>1. /\ i \in live /\ live' = live /\ nextLineage' = nextLineage
      /\ handed' = handed /\ points' = points
      /\ nextChange \in Nat /\ nextChange' = nextChange + 1
      /\ fns \in [Slots -> Fn] /\ f \in Fn
      /\ fns' = [fns EXCEPT ![i].logged = @ + 1,
                            ![i].changes = Append(@, nextChange),
                            ![i].hist = Append(@, nextChange)]
  BY DEF Edit, Inv, TypeOK
<1>2. /\ g.logged = f.logged + 1
      /\ g.changes = Append(f.changes, nextChange)
      /\ g.uid = f.uid /\ g.branch = f.branch
      /\ g.ancestors = f.ancestors /\ g.taken = f.taken
  BY <1>1 DEF Fn
<1>3. \A s \in Slots \ {i} : fns'[s] = fns[s]
  BY <1>1
<1>4. f.changes \in Seq(Nat) /\ f.logged \in Nat /\ Len(f.changes) \in Nat
  BY SlotFields
<1> HIDE DEF f, g
<1>5. /\ Len(g.changes) = Len(f.changes) + 1
      /\ \A k \in 1 .. Len(f.changes) : g.changes[k] = f.changes[k]
      /\ g.changes[Len(f.changes) + 1] = nextChange
  BY <1>1, <1>2, <1>4, AppendFacts
<1>6. KeptFrom(g) = KeptFrom(f)
  <2>1. /\ KeptFrom(f) = f.logged - Len(f.changes)
        /\ KeptFrom(g) = g.logged - Len(g.changes)
    BY DEF KeptFrom
  <2>2. g.logged = f.logged + 1 /\ Len(g.changes) = Len(f.changes) + 1
    BY <1>2, <1>5
  <2> DEFINE l == f.logged
             n == Len(f.changes)
  <2>3. /\ KeptFrom(f) = l - n /\ KeptFrom(g) = (l + 1) - (n + 1)
        /\ l \in Nat /\ n \in Nat
    BY <2>1, <2>2, <1>4
  <2> HIDE DEF l, n
  <2> QED BY <2>3, SameDistance
<1>7. QED BY <1>1, <1>2, <1>3, <1>5, <1>6 DEF f, g

LEMMA CopyStep ==
  ASSUME NEW i \in Slots, NEW j \in Slots, Inv, Clone(i, j) \/ Fork(i, j)
  PROVE  /\ i \in live /\ j \notin live /\ j # Home /\ live' = live \cup {j}
         /\ handed' = handed /\ nextChange' = nextChange /\ points' = points
         /\ nextLineage' >= nextLineage
         /\ \A s \in Slots \ {j} : fns'[s] = fns[s]
         /\ fns'[j].changes = <<>>
         /\ fns'[j].branch >= nextLineage
         /\ \/ fns'[j].uid = nextLineage /\ fns'[j].ancestors = <<>>
            \/ fns'[j].ancestors
                 = Append(fns[i].ancestors, [branch |-> fns[i].branch,
                                             at |-> fns[i].logged])
<1>1. /\ fns \in [Slots -> Fn] /\ fns[i] \in Fn /\ nextLineage \in Nat
      /\ Home \in live
  BY DEF Inv, TypeOK
<1>2. CASE Clone(i, j)
  <2>1. /\ i \in live /\ j \notin live /\ live' = live \cup {j}
        /\ handed' = handed /\ nextChange' = nextChange /\ points' = points
        /\ nextLineage' = nextLineage + 1
        /\ fns' = [fns EXCEPT ![j] = [fns[i] EXCEPT !.uid = nextLineage,
                                                    !.branch = nextLineage,
                                                    !.ancestors = <<>>,
                                                    !.changes = <<>>]]
    BY <1>2 DEF Clone
  <2>2. /\ fns'[j].changes = <<>> /\ fns'[j].branch = nextLineage
        /\ fns'[j].uid = nextLineage /\ fns'[j].ancestors = <<>>
        /\ \A s \in Slots \ {j} : fns'[s] = fns[s]
    BY <1>1, <2>1 DEF Fn
  <2> QED BY <1>1, <2>1, <2>2
<1>3. CASE Fork(i, j)
  <2>1. /\ i \in live /\ j \notin live /\ live' = live \cup {j}
        /\ handed' = handed /\ nextChange' = nextChange /\ points' = points
        /\ nextLineage' = nextLineage + 2
        /\ fns' = [fns EXCEPT ![j] =
                     [fns[i] EXCEPT
                        !.branch = nextLineage + 1,
                        !.ancestors = Append(@, [branch |-> fns[i].branch,
                                                 at |-> fns[i].logged]),
                        !.changes = <<>>]]
    BY <1>3 DEF Fork
  <2>2. /\ fns'[j].changes = <<>> /\ fns'[j].branch = nextLineage + 1
        /\ fns'[j].ancestors
             = Append(fns[i].ancestors, [branch |-> fns[i].branch,
                                         at |-> fns[i].logged])
        /\ \A s \in Slots \ {j} : fns'[s] = fns[s]
    BY <1>1, <2>1 DEF Fn
  <2> QED BY <1>1, <2>1, <2>2
<1>4. QED BY <1>2, <1>3

LEMMA AdoptStep ==
  ASSUME NEW j \in Slots, Inv, Adopt(j)
  PROVE  /\ j \in live \ {Home} /\ live' = live \ {j} /\ points' = points
         /\ handed' = handed /\ nextChange' = nextChange
         /\ nextLineage' = nextLineage
         /\ \A s \in Slots \ {Home, j} : fns'[s] = fns[s]
         /\ IsForkOf(fns[j], fns[Home])
         /\ fns'[Home].uid = fns[Home].uid
         /\ fns'[Home].taken = fns[Home].taken
         /\ fns'[Home].logged = fns[j].logged
         /\ fns'[Home].changes = fns[Home].changes \o fns[j].changes
         /\ KeptFrom(fns'[Home]) = KeptFrom(fns[Home])
         /\ fns[Home].logged <= fns[j].logged
         /\ \/ /\ fns'[Home].branch = fns[j].branch
               /\ fns'[Home].ancestors = fns[j].ancestors
            \/ /\ fns'[Home].branch = fns[Home].branch
               /\ fns'[Home].ancestors = fns[Home].ancestors
<1> DEFINE f == fns[Home]
           g == fns[j]
           a == fns'[Home]
           last == g.ancestors[Len(g.ancestors)]
           joined == [g EXCEPT !.changes = f.changes \o g.changes,
                               !.taken = f.taken]
<1>1. /\ j \in live \ {Home} /\ live' = live \ {j} /\ points' = points
      /\ handed' = handed /\ nextChange' = nextChange
      /\ nextLineage' = nextLineage
      /\ fns' = [fns EXCEPT ![Home] = Adopted(f, g), ![j] = Blank]
      /\ fns \in [Slots -> Fn] /\ Home \in Slots /\ Home \in live
      /\ f \in Fn /\ g \in Fn /\ IsForkOf(g, f)
  BY HomeAssumption DEF Adopt, Inv, TypeOK
<1>2. a = Adopted(f, g) /\ \A s \in Slots \ {Home, j} : fns'[s] = fns[s]
  BY <1>1
<1>3. /\ joined.uid = g.uid /\ joined.taken = f.taken
      /\ joined.logged = g.logged /\ joined.changes = f.changes \o g.changes
      /\ joined.branch = g.branch /\ joined.ancestors = g.ancestors
  BY <1>1 DEF Fn
<1>4. g.uid = f.uid /\ g.ancestors # <<>> /\ last.at = f.logged
  BY <1>1 DEF IsForkOf
<1>5. /\ a.uid = g.uid /\ a.taken = f.taken /\ a.logged = g.logged
      /\ a.changes = f.changes \o g.changes
      /\ \/ a.branch = g.branch /\ a.ancestors = g.ancestors
         \/ a.branch = f.branch /\ a.ancestors = f.ancestors
  <2>1. CASE last = [branch |-> f.branch, at |-> g.logged]
    <3>1. a = [joined EXCEPT !.branch = f.branch, !.ancestors = f.ancestors]
      BY <2>1, <1>2 DEF Adopted
    <3> QED BY <3>1, <1>1, <1>3 DEF Fn
  <2>2. CASE last # [branch |-> f.branch, at |-> g.logged]
    <3>1. a = joined
      BY <2>2, <1>2 DEF Adopted
    <3> HIDE DEF joined
    <3> QED BY <3>1, <1>3
  <2> QED BY <2>1, <2>2
<1>6. KeptFrom(g) = f.logged
  BY <1>1, <1>4 DEF Inv, ForkLogs
<1>7. /\ f.changes \in Seq(Nat) /\ g.changes \in Seq(Nat)
      /\ f.logged \in Nat /\ g.logged \in Nat
      /\ Len(f.changes) \in Nat /\ Len(g.changes) \in Nat
  BY <1>1, SlotFields
<1> HIDE DEF f, g, a, last, joined
<1>8. Len(a.changes) = Len(f.changes) + Len(g.changes)
  BY <1>5, <1>7, ConcatFacts
<1>9. KeptFrom(a) = KeptFrom(f) /\ f.logged <= g.logged
  <2>1. /\ KeptFrom(f) = f.logged - Len(f.changes)
        /\ KeptFrom(g) = g.logged - Len(g.changes)
        /\ KeptFrom(a) = g.logged - Len(a.changes)
    BY <1>5 DEF KeptFrom
  <2>2. g.logged = f.logged + Len(g.changes)
    BY <2>1, <1>6, <1>7, Plus
  <2> DEFINE l == f.logged
             n == Len(f.changes)
             m == Len(g.changes)
  <2>3. KeptFrom(a) = (l + m) - (n + m) /\ KeptFrom(f) = l - n
    BY <2>1, <2>2, <1>8
  <2>4. l \in Nat /\ n \in Nat /\ m \in Nat /\ g.logged = l + m
    BY <2>2, <1>7
  <2> HIDE DEF l, n, m
  <2>5. KeptFrom(a) = KeptFrom(f) /\ l <= g.logged
    BY <2>3, <2>4, SameDistance
  <2> QED BY <2>5 DEF l
<1>10. QED BY <1>1, <1>2, <1>4, <1>5, <1>9 DEF f, g, a

(* A clone that takes the module's place brings all it has.                *)
LEMMA PutBackStep ==
  ASSUME NEW j \in Slots, Inv, PutBack(j)
  PROVE  /\ j \in live \ {Home} /\ live' = live \ {j} /\ points' = points
         /\ handed' = handed /\ nextChange' = nextChange
         /\ nextLineage' = nextLineage /\ fns[j].ancestors = <<>>
         /\ fns'[Home] = fns[j]
         /\ \A s \in Slots \ {Home, j} : fns'[s] = fns[s]
<1>1. fns \in [Slots -> Fn] /\ Home \in Slots
  BY HomeAssumption DEF Inv, TypeOK
<1>2. QED BY <1>1 DEF PutBack

LEMMA DiscardStep ==
  ASSUME NEW j \in Slots, Inv, Discard(j)
  PROVE  /\ j \in live \ {Home} /\ live' = live \ {j} /\ points' = points
         /\ handed' = handed /\ nextChange' = nextChange
         /\ nextLineage' = nextLineage
         /\ \A s \in Slots \ {j} : fns'[s] = fns[s]
<1>1. fns \in [Slots -> Fn]
  BY DEF Inv, TypeOK
<1>2. QED BY <1>1 DEF Discard

LEMMA TakeChangesStep ==
  ASSUME Inv, TakeChanges
  PROVE  /\ live' = live /\ points' = points /\ nextChange' = nextChange
         /\ nextLineage' = nextLineage
         /\ handed' = handed \o Untaken(fns[Home])
         /\ \A s \in Slots \ {Home} : fns'[s] = fns[s]
         /\ fns'[Home].uid = fns[Home].uid
         /\ fns'[Home].branch = fns[Home].branch
         /\ fns'[Home].ancestors = fns[Home].ancestors
         /\ fns'[Home].logged = fns[Home].logged
         /\ fns'[Home].taken = fns[Home].logged
         /\ fns'[Home].changes = Drained(fns[Home].changes)
<1>1. fns \in [Slots -> Fn] /\ Home \in Slots /\ fns[Home] \in Fn
  BY HomeAssumption DEF Inv, TypeOK
<1>2. QED BY <1>1 DEF TakeChanges, Fn

-----------------------------------------------------------------------------
(* What a log drained of all that was taken still holds is its end.        *)
LEMMA DrainedIsEnd ==
  ASSUME NEW s \in Seq(Nat)
  PROVE  \E m \in 0 .. Len(s) :
           /\ Len(Drained(s)) = m
           /\ \A k \in 1 .. m : Drained(s)[k] = s[(Len(s) - m) + k]
<1>1. CASE Len(s) > LOG
  <2>1. Drained(s) = SubSeq(s, Len(s) - LOG \div 2 + 1, Len(s))
    BY <1>1 DEF Drained
  <2> DEFINE m == LOG \div 2
  <2>2. m \in 0 .. Len(s)
    BY <1>1, Half, LogAssumption
  <2>3. Drained(s) = SubSeq(s, Len(s) - m + 1, Len(s))
    BY <2>1
  <2> HIDE DEF m
  <2>4. /\ Len(Drained(s)) = m
        /\ \A k \in 1 .. m : Drained(s)[k] = s[(Len(s) - m) + k]
    BY <2>2, <2>3
  <2> QED BY <2>2, <2>4
<1>2. CASE ~(Len(s) > LOG)
  <2>1. Drained(s) = s
    BY <1>2 DEF Drained
  <2>2. Len(s) \in 0 .. Len(s) /\ \A k \in 1 .. Len(s) : (Len(s) - Len(s)) + k = k
    OBVIOUS
  <2> QED BY <2>1, <2>2
<1>3. QED BY <1>1, <1>2

(* What `take_changes` answers is in the log, after what has been taken.   *)
LEMMA UntakenIsNew ==
  ASSUME Inv
  PROVE  /\ Untaken(fns[Home]) \in Seq(Nat)
         /\ \E u \in Nat :
              /\ \A k \in 1 .. Len(Untaken(fns[Home])) :
                   /\ u + k \in 1 .. Len(fns[Home].changes)
                   /\ Untaken(fns[Home])[k] = fns[Home].changes[u + k]
                   /\ ~(KeptFrom(fns[Home]) + (u + k) <= fns[Home].taken)
<1> DEFINE f == fns[Home]
           s == f.changes
           K == KeptFrom(f)
           from == IF f.taken >= K THEN f.taken ELSE K
           u == from - K
<1>1. /\ s \in Seq(Nat) /\ Len(s) \in Nat /\ f.logged \in Nat
      /\ f.taken \in Nat
  BY HomeAssumption, SlotFields
<1>2. K \in Nat
  <2>1. LogIsSuffix(f)
    BY DEF Inv, LogsAreSuffixes, TypeOK
  <2>2. K = f.logged - Len(s) /\ Len(s) <= f.logged
    BY <2>1 DEF LogIsSuffix, KeptFrom
  <2> HIDE DEF f, s, K
  <2> QED BY <1>1, <2>2
<1>3. Untaken(f) = SubSeq(s, u + 1, Len(s))
  BY DEF Untaken
<1> DEFINE t == f.taken
<1>4. t \in Nat /\ u = (IF t >= K THEN t ELSE K) - K
  BY <1>1
<1> HIDE DEF f, s, K, from, u, t
<1>5. u \in Nat /\ t <= K + u
  BY <1>2, <1>4
<1>6. Untaken(f) \in Seq(Nat)
  BY <1>1, <1>3, <1>5, TailType
<1>7. ASSUME NEW k \in 1 .. Len(Untaken(f))
      PROVE  u + k \in 1 .. Len(s) /\ Untaken(f)[k] = s[u + k]
  BY <1>1, <1>3, <1>5
<1>8. ASSUME NEW k \in 1 .. Len(Untaken(f))
      PROVE  ~(K + (u + k) <= t)
  <2>1. k \in Nat /\ k >= 1
    BY <1>6
  <2> QED BY <2>1, <1>2, <1>4, <1>5
<1>9. QED BY <1>5, <1>6, <1>7, <1>8 DEF f, s, K, t

-----------------------------------------------------------------------------
LEMMA KeepsUpInit == Init => HomeKeepsUp
BY HomeAssumption DEF Init, HomeKeepsUp, UntakenIsKept, NewFn, KeptFrom

LEMMA KeepsUpNext == Inv /\ HomeKeepsUp /\ [Next]_vars => HomeKeepsUp'
<1> SUFFICES ASSUME Inv, HomeKeepsUp, [Next]_vars
             PROVE  HomeKeepsUp'
  OBVIOUS
<1>1. /\ Home \in live /\ live \subseteq Slots /\ nextLineage \in Nat
      /\ nextLineage >= 2
      /\ fns[Home].uid = 1 => KeptFrom(fns[Home]) <= fns[Home].taken
      /\ \A j \in live \ {Home} : fns[j].ancestors = <<>> => fns[j].uid # 1
  BY DEF Inv, TypeOK, HomeKeepsUp, UntakenIsKept
<1>2. ASSUME NEW i \in Slots, Edit(i)
      PROVE  HomeKeepsUp'
  <2>1. \A s \in live : /\ fns'[s].uid = fns[s].uid
                         /\ fns'[s].ancestors = fns[s].ancestors
                         /\ fns'[s].taken = fns[s].taken
                         /\ KeptFrom(fns'[s]) = KeptFrom(fns[s])
    BY <1>1, <1>2, EditStep
  <2>2. live' = live /\ nextLineage' = nextLineage
    BY <1>2, EditStep
  <2> QED BY <1>1, <2>1, <2>2 DEF HomeKeepsUp, UntakenIsKept
<1>3. ASSUME NEW i \in Slots, TakeMark(i)
      PROVE  HomeKeepsUp'
  BY <1>1, <1>3 DEF TakeMark, HomeKeepsUp, UntakenIsKept
<1>4. ASSUME TakeChanges
      PROVE  HomeKeepsUp'
  <2>1. KeptFrom(fns'[Home]) <= fns'[Home].taken
    <3> DEFINE f == fns'[Home]
    <3>1. f.logged = fns[Home].logged /\ f.taken = f.logged
      BY <1>4, TakeChangesStep
    <3>2. f.logged \in Nat /\ Len(f.changes) \in Nat
      <4>1. Inv' /\ Home \in Slots
        BY <1>4, TakeChangesInv, HomeAssumption
      <4>2. fns'[Home] \in Fn
        BY <4>1 DEF Inv, TypeOK
      <4>3. f.changes \in Seq(Nat) /\ f.logged \in Nat
        BY <4>2, Fields
      <4> QED BY <4>3
    <3>3. KeptFrom(f) = f.logged - Len(f.changes)
      BY DEF KeptFrom
    <3> HIDE DEF f
    <3>4. KeptFrom(f) <= f.taken
      BY <3>1, <3>2, <3>3
    <3> QED BY <3>4 DEF f
  <2>2. /\ live' = live /\ nextLineage' = nextLineage
        /\ \A s \in live \ {Home} : fns'[s] = fns[s]
    BY <1>1, <1>4, TakeChangesStep
  <2> QED BY <1>1, <2>1, <2>2 DEF HomeKeepsUp, UntakenIsKept
<1>5. ASSUME NEW i \in Slots, NEW j \in Slots, Clone(i, j) \/ Fork(i, j)
      PROVE  HomeKeepsUp'
  <2>1. /\ j \notin live /\ j # Home /\ live' = live \cup {j}
        /\ nextLineage' >= nextLineage
        /\ \A s \in live : fns'[s] = fns[s]
    BY <1>1, <1>5, CopyStep
  <2>2. fns'[j].ancestors = <<>> => fns'[j].uid = nextLineage
    <3>1. Append(fns[i].ancestors, [branch |-> fns[i].branch,
                                    at |-> fns[i].logged]) # <<>>
      <4> DEFINE e == [branch |-> fns[i].branch, at |-> fns[i].logged]
                 a == fns[i].ancestors
      <4>1. a \in Seq(Ancestor) /\ e \in Ancestor
        BY SlotFields DEF Ancestor
      <4> HIDE DEF e, a
      <4>2. Len(Append(a, e)) = Len(a) + 1 /\ Len(a) \in Nat
        BY <4>1, AppendFacts
      <4>3. Len(Append(a, e)) # 0
        BY <4>2
      <4>4. Append(a, e) # <<>>
        BY <4>3
      <4> QED BY <4>4 DEF e, a
    <3> QED BY <1>5, <3>1, CopyStep
  <2>3. nextLineage' >= 2
    <3>1. nextLineage' \in Nat
      <4>1. Inv'
        BY <1>5, CloneInv, ForkInv
      <4> QED BY <4>1 DEF Inv, TypeOK
    <3> QED BY <3>1, <1>1, <2>1
  <2> QED BY <1>1, <2>1, <2>2, <2>3 DEF HomeKeepsUp, UntakenIsKept
<1>6. ASSUME NEW j \in Slots, Adopt(j)
      PROVE  HomeKeepsUp'
  <2>1. /\ live' = live \ {j} /\ nextLineage' = nextLineage
        /\ \A s \in live' \ {Home} : fns'[s] = fns[s]
        /\ fns'[Home].uid = fns[Home].uid
        /\ fns'[Home].taken = fns[Home].taken
        /\ KeptFrom(fns'[Home]) = KeptFrom(fns[Home])
    BY <1>1, <1>6, AdoptStep
  <2> QED BY <1>1, <2>1 DEF HomeKeepsUp, UntakenIsKept
<1>7. ASSUME NEW j \in Slots, PutBack(j)
      PROVE  HomeKeepsUp'
  <2>1. /\ live' = live \ {j} /\ nextLineage' = nextLineage
        /\ \A s \in live' \ {Home} : fns'[s] = fns[s]
        /\ fns'[Home].uid # 1
    BY <1>1, <1>7, PutBackStep
  <2> QED BY <1>1, <2>1 DEF HomeKeepsUp, UntakenIsKept
<1>8. ASSUME NEW j \in Slots, Discard(j)
      PROVE  HomeKeepsUp'
  <2>1. /\ live' = live \ {j} /\ nextLineage' = nextLineage
        /\ fns'[Home] = fns[Home]
        /\ \A s \in live' : fns'[s] = fns[s]
    BY <1>1, <1>8, DiscardStep
  <2> QED BY <1>1, <2>1 DEF HomeKeepsUp, UntakenIsKept
<1>9. CASE UNCHANGED vars
  BY <1>1, <1>9 DEF vars, HomeKeepsUp, UntakenIsKept
<1>10. QED
  BY <1>2, <1>3, <1>4, <1>5, <1>6, <1>7, <1>8, <1>9 DEF Next

(* While the module holds the function it began with, what it has not      *)
(* handed out is in its log: no clone, fork, drained log or adopted fork   *)
(* loses a change `take_changes` has not answered yet.                     *)
THEOREM UntakenKept == Spec => []UntakenIsKept
<1>1. Init => HomeKeepsUp
  BY KeepsUpInit
<1>2. Inv /\ HomeKeepsUp /\ [Next]_vars => HomeKeepsUp'
  BY KeepsUpNext
<1>3. HomeKeepsUp => UntakenIsKept
  BY DEF HomeKeepsUp
<1>4. QED BY <1>1, <1>2, <1>3, Invariance, PTL DEF Spec

-----------------------------------------------------------------------------
(* What is true of the branches and ancestors of the functions there were  *)
(* is true of those that have the same ones.                               *)
LEMMA SameTrees ==
  ASSUME ForksAreTrees,
         \A s \in live' : \E t \in live :
           /\ fns'[s].branch = fns[t].branch
           /\ fns'[s].ancestors = fns[t].ancestors
  PROVE  ForksAreTrees'
<1> SUFFICES ASSUME NEW a \in live', NEW b \in live',
                    NEW k \in 1 .. Len(fns'[b].ancestors),
                    fns'[b].ancestors[k].branch = fns'[a].branch
             PROVE  fns'[a].ancestors = SubSeq(fns'[b].ancestors, 1, k - 1)
  BY DEF ForksAreTrees
<1>1. PICK c \in live : /\ fns'[a].branch = fns[c].branch
                        /\ fns'[a].ancestors = fns[c].ancestors
  OBVIOUS
<1>2. PICK d \in live : /\ fns'[b].branch = fns[d].branch
                        /\ fns'[b].ancestors = fns[d].ancestors
  OBVIOUS
<1>3. QED BY <1>1, <1>2 DEF ForksAreTrees

LEMMA FrontOfAppend ==
  ASSUME NEW S, NEW s \in Seq(S), NEW e \in S
  PROVE  /\ SubSeq(Append(s, e), 1, Len(s)) = s
         /\ \A k \in 1 .. Len(s) :
              SubSeq(Append(s, e), 1, k - 1) = SubSeq(s, 1, k - 1)
OBVIOUS

LEMMA CopyTrees ==
  ASSUME NEW i \in Slots, NEW j \in Slots, Inv, ForksAreTrees,
         Clone(i, j) \/ Fork(i, j)
  PROVE  ForksAreTrees'
<1> DEFINE f == fns[i]
           g == fns'[j]
           self == [branch |-> f.branch, at |-> f.logged]
<1>1. /\ i \in live /\ j \notin live /\ live' = live \cup {j}
      /\ \A s \in live : fns'[s] = fns[s]
      /\ g.branch >= nextLineage
      /\ \/ g.ancestors = <<>>
         \/ g.ancestors = Append(f.ancestors, self)
  <2>1. live \subseteq Slots
    BY DEF Inv, TypeOK
  <2> QED BY <2>1, CopyStep
<1>2. f.ancestors \in Seq(Ancestor) /\ self \in Ancestor
  BY SlotFields DEF Ancestor
<1>3. /\ Len(f.ancestors) \in Nat
      /\ Len(Append(f.ancestors, self)) = Len(f.ancestors) + 1
      /\ \A k \in 1 .. Len(f.ancestors) :
           Append(f.ancestors, self)[k] = f.ancestors[k]
      /\ Append(f.ancestors, self)[Len(f.ancestors) + 1] = self
      /\ SubSeq(Append(f.ancestors, self), 1, Len(f.ancestors)) = f.ancestors
      /\ \A k \in 1 .. Len(f.ancestors) :
           SubSeq(Append(f.ancestors, self), 1, k - 1)
             = SubSeq(f.ancestors, 1, k - 1)
  <2> HIDE DEF f, self
  <2> QED BY <1>2, AppendFacts, FrontOfAppend
<1>4. Inv'
  BY CloneInv, ForkInv
<1>5. \A b \in live' : /\ fns'[b].branch \in Nat
                       /\ \A k \in 1 .. Len(fns'[b].ancestors) :
                            fns'[b].ancestors[k].branch \in Nat
  <2>1. fns' \in [Slots -> Fn] /\ live' \subseteq Slots
    BY <1>4 DEF Inv, TypeOK
  <2> SUFFICES ASSUME NEW b \in live'
               PROVE  /\ fns'[b].branch \in Nat
                      /\ \A k \in 1 .. Len(fns'[b].ancestors) :
                           fns'[b].ancestors[k].branch \in Nat
    OBVIOUS
  <2>2. fns'[b] \in Fn
    BY <2>1
  <2>3. fns'[b].branch \in Nat /\ fns'[b].ancestors \in Seq(Ancestor)
    BY <2>2, Fields
  <2>4. ASSUME NEW k \in 1 .. Len(fns'[b].ancestors)
        PROVE  fns'[b].ancestors[k].branch \in Nat
    <3>1. fns'[b].ancestors[k] \in Ancestor
      BY <2>3
    <3> QED BY <3>1 DEF Ancestor
  <2> QED BY <2>3, <2>4
<1>6. nextLineage \in Nat
  BY DEF Inv, TypeOK
<1> HIDE DEF g
<1>7. ASSUME NEW k \in 1 .. Len(g.ancestors)
      PROVE  \/ k \in 1 .. Len(f.ancestors) /\ g.ancestors[k] = f.ancestors[k]
                /\ SubSeq(g.ancestors, 1, k - 1)
                     = SubSeq(f.ancestors, 1, k - 1)
             \/ /\ g.ancestors[k] = self
                /\ SubSeq(g.ancestors, 1, k - 1) = f.ancestors
  <2> HIDE DEF f, self
  <2>1. g.ancestors = Append(f.ancestors, self)
    BY <1>1 DEF f, self
  <2>2. k \in 1 .. Len(f.ancestors) \/ k = Len(f.ancestors) + 1
    BY <2>1, <1>3
  <2>3. CASE k \in 1 .. Len(f.ancestors)
    BY <2>1, <2>3, <1>3
  <2>4. CASE k = Len(f.ancestors) + 1
    <3>1. k - 1 = Len(f.ancestors)
      BY <2>4, <1>3
    <3> QED BY <2>1, <2>4, <3>1, <1>3
  <2> QED BY <2>2, <2>3, <2>4
<1>8. SUFFICES ASSUME NEW a \in live', NEW b \in live',
                      NEW k \in 1 .. Len(fns'[b].ancestors),
                      fns'[b].ancestors[k].branch = fns'[a].branch
               PROVE  fns'[a].ancestors = SubSeq(fns'[b].ancestors, 1, k - 1)
  BY DEF ForksAreTrees
<1>9. fns'[b].ancestors[k].branch < nextLineage
  <2>1. CASE b # j
    BY <2>1, <1>1 DEF Inv, Numbered
  <2>2. CASE b = j
    <3>1. \/ g.ancestors[k] = self
          \/ k \in 1 .. Len(f.ancestors) /\ g.ancestors[k] = f.ancestors[k]
      BY <2>2, <1>7 DEF g
    <3>2. self.branch < nextLineage
      BY <1>1 DEF Inv, Numbered
    <3>3. \A m \in 1 .. Len(f.ancestors) : f.ancestors[m].branch < nextLineage
      BY <1>1 DEF Inv, Numbered
    <3> QED BY <2>2, <3>1, <3>2, <3>3 DEF g
  <2> QED BY <2>1, <2>2
<1>10. a # j /\ a \in live
  <2>1. fns'[a].branch < nextLineage /\ fns'[a].branch \in Nat
    BY <1>5, <1>8, <1>9
  <2>2. a = j => FALSE
    BY <2>1, <1>1, <1>6 DEF g
  <2> QED BY <2>2, <1>1
<1>11. CASE b # j
  <2>1. b \in live /\ fns'[b] = fns[b] /\ fns'[a] = fns[a]
    BY <1>1, <1>10, <1>11
  <2>2. /\ k \in 1 .. Len(fns[b].ancestors)
        /\ fns[b].ancestors[k].branch = fns[a].branch
    BY <2>1, <1>8
  <2>3. fns[a].ancestors = SubSeq(fns[b].ancestors, 1, k - 1)
    BY <2>1, <2>2, <1>10 DEF ForksAreTrees
  <2> QED BY <2>1, <2>3
<1>12. CASE b = j
  <2>1. CASE k \in 1 .. Len(f.ancestors) /\ g.ancestors[k] = f.ancestors[k]
             /\ SubSeq(g.ancestors, 1, k - 1) = SubSeq(f.ancestors, 1, k - 1)
    <3>1. f.ancestors[k].branch = fns[a].branch
      BY <2>1, <1>1, <1>8, <1>10, <1>12 DEF g
    <3>2. fns[a].ancestors = SubSeq(f.ancestors, 1, k - 1)
      BY <2>1, <3>1, <1>1, <1>10 DEF ForksAreTrees
    <3> QED BY <2>1, <3>2, <1>1, <1>10, <1>12 DEF g
  <2>2. CASE /\ g.ancestors[k] = self
             /\ SubSeq(g.ancestors, 1, k - 1) = f.ancestors
    <3>1. fns[a].branch = f.branch
      BY <2>2, <1>1, <1>8, <1>10, <1>12 DEF g
    <3>2. a = i
      BY <3>1, <1>1, <1>10 DEF Inv, OneOwner
    <3> QED BY <2>2, <3>2, <1>1, <1>12 DEF g
  <2> QED BY <2>1, <2>2, <1>7, <1>12 DEF g
<1>13. QED BY <1>11, <1>12

LEMMA TreesNext == Inv /\ ForksAreTrees /\ [Next]_vars => ForksAreTrees'
<1> SUFFICES ASSUME Inv, ForksAreTrees, [Next]_vars
             PROVE  ForksAreTrees'
  OBVIOUS
<1>1. Home \in live /\ live \subseteq Slots
  BY DEF Inv, TypeOK
<1>2. ASSUME NEW i \in Slots, Edit(i)
      PROVE  ForksAreTrees'
  <2>1. /\ live' = live
        /\ \A s \in live : /\ fns'[s].branch = fns[s].branch
                            /\ fns'[s].ancestors = fns[s].ancestors
    BY <1>1, <1>2, EditStep
  <2> QED BY <2>1, SameTrees
<1>3. ASSUME NEW i \in Slots, TakeMark(i)
      PROVE  ForksAreTrees'
  BY <1>3, SameTrees DEF TakeMark
<1>4. ASSUME TakeChanges
      PROVE  ForksAreTrees'
  <2>1. /\ live' = live
        /\ \A s \in live : /\ fns'[s].branch = fns[s].branch
                            /\ fns'[s].ancestors = fns[s].ancestors
    BY <1>1, <1>4, TakeChangesStep
  <2> QED BY <2>1, SameTrees
<1>5. ASSUME NEW i \in Slots, NEW j \in Slots, Clone(i, j) \/ Fork(i, j)
      PROVE  ForksAreTrees'
  BY <1>5, CopyTrees
<1>6. ASSUME NEW j \in Slots, Adopt(j)
      PROVE  ForksAreTrees'
  <2>1. /\ j \in live /\ live' = live \ {j}
        /\ \A s \in live' \ {Home} : fns'[s] = fns[s]
        /\ \/ /\ fns'[Home].branch = fns[j].branch
              /\ fns'[Home].ancestors = fns[j].ancestors
           \/ /\ fns'[Home].branch = fns[Home].branch
              /\ fns'[Home].ancestors = fns[Home].ancestors
    BY <1>1, <1>6, AdoptStep
  <2>2. ASSUME NEW s \in live'
        PROVE  \E t \in live : /\ fns'[s].branch = fns[t].branch
                               /\ fns'[s].ancestors = fns[t].ancestors
    BY <1>1, <2>1
  <2> QED BY <2>2, SameTrees
<1>7. ASSUME NEW j \in Slots, PutBack(j)
      PROVE  ForksAreTrees'
  <2>1. /\ j \in live /\ live' = live \ {j}
        /\ \A s \in live' \ {Home} : fns'[s] = fns[s]
        /\ fns'[Home] = fns[j]
    BY <1>1, <1>7, PutBackStep
  <2>2. ASSUME NEW s \in live'
        PROVE  \E t \in live : /\ fns'[s].branch = fns[t].branch
                               /\ fns'[s].ancestors = fns[t].ancestors
    BY <1>1, <2>1
  <2> QED BY <2>2, SameTrees
<1>8. ASSUME NEW j \in Slots, Discard(j)
      PROVE  ForksAreTrees'
  <2>1. live' \subseteq live /\ \A s \in live' : fns'[s] = fns[s]
    BY <1>1, <1>8, DiscardStep
  <2> QED BY <2>1, SameTrees
<1>9. CASE UNCHANGED vars
  BY <1>9, SameTrees DEF vars
<1>10. QED
  BY <1>2, <1>3, <1>4, <1>5, <1>6, <1>7, <1>8, <1>9 DEF Next

(* The adopted fork has all the ancestors of the function it replaces, and *)
(* that function's branch too, so that a point of the old is one of it.    *)
LEMMA AdoptedResolves ==
  ASSUME NEW j \in Slots, Inv, ForksAreTrees, Adopt(j),
         NEW p \in points, Resolves(fns[Home], p.mark)
  PROVE  Resolves(fns'[Home], p.mark)
<1> DEFINE f == fns[Home]
           g == fns[j]
           a == fns'[Home]
           n == Len(g.ancestors)
           at == p.mark.at
<1>1. /\ j \in live /\ Home \in live /\ IsForkOf(g, f) /\ a.uid = f.uid
      /\ a.logged = g.logged /\ KeptFrom(a) = KeptFrom(f)
      /\ f.logged <= g.logged
      /\ \/ a.branch = g.branch /\ a.ancestors = g.ancestors
         \/ a.branch = f.branch /\ a.ancestors = f.ancestors
  BY AdoptStep DEF Inv, TypeOK
<1>2. /\ g.ancestors # <<>>
      /\ g.ancestors[n] = [branch |-> f.branch, at |-> f.logged]
  BY <1>1 DEF IsForkOf
<1>3. /\ g.ancestors \in Seq(Ancestor) /\ f.ancestors \in Seq(Ancestor)
      /\ f.logged \in Nat /\ g.logged \in Nat /\ at \in Nat
  BY HomeAssumption, SlotFields DEF Inv, TypeOK, Mark
<1>4. Ours(f, p.mark) /\ KeptFrom(f) <= at /\ at <= f.logged
  BY DEF Resolves
<1>5. n \in 1 .. n /\ n \in Nat
  <2> HIDE DEF f, g
  <2> QED BY <1>2, <1>3
<1>6. f.ancestors = SubSeq(g.ancestors, 1, n - 1)
  <2>1. g.ancestors[n].branch = f.branch
    BY <1>2
  <2> QED BY <2>1, <1>1, <1>5 DEF ForksAreTrees
<1> HIDE DEF f, g, a, n, at
<1>7. \A k \in 1 .. Len(f.ancestors) :
        k \in 1 .. n /\ g.ancestors[k] = f.ancestors[k]
  BY <1>3, <1>5, <1>6 DEF n
<1>8. Ours(a, p.mark)
  <2>1. CASE a.branch = f.branch /\ a.ancestors = f.ancestors
    BY <2>1, <1>1, <1>4 DEF Ours
  <2>2. CASE a.branch = g.branch /\ a.ancestors = g.ancestors
    <3>1. CASE p.mark.branch = f.branch
      <4>1. g.ancestors[n].branch = p.mark.branch /\ at <= g.ancestors[n].at
        BY <3>1, <1>2, <1>4
      <4> QED BY <2>2, <4>1, <1>1, <1>4, <1>5 DEF Ours, n, at
    <3>2. ASSUME NEW k \in 1 .. Len(f.ancestors),
                 f.ancestors[k].branch = p.mark.branch,
                 at <= f.ancestors[k].at
          PROVE  Ours(a, p.mark)
      BY <2>2, <3>2, <1>1, <1>4, <1>7 DEF Ours, n, at
    <3> QED BY <3>1, <3>2, <1>4 DEF Ours, at
  <2> QED BY <2>1, <2>2, <1>1
<1>9. at <= g.logged
  BY <1>1, <1>3, <1>4
<1>10. QED BY <1>1, <1>4, <1>8, <1>9 DEF Resolves, f, a, at

(* A mark of the function that resolved still does once a fork of it is    *)
(* adopted, so that no analysis is derived anew for a fork's sake.         *)
THEOREM AdoptedForksKeepMarks == Spec => AdoptKeepsMarks
<1>1. Init => ForksAreTrees
  BY HomeAssumption DEF Init, ForksAreTrees, NewFn
<1>2. Inv /\ ForksAreTrees /\ [Next]_vars => ForksAreTrees'
  BY TreesNext
<1>3. Inv /\ ForksAreTrees
        => [\A j \in Slots : \A p \in points :
              Adopt(j) /\ Resolves(fns[Home], p.mark)
                => Resolves(fns'[Home], p.mark)]_vars
  BY AdoptedResolves
<1>4. QED BY <1>1, <1>2, <1>3, Invariance, PTL DEF Spec, AdoptKeepsMarks

-----------------------------------------------------------------------------
(* What is in a log, and what was handed out, are numbers.                 *)
LEMMA LogTypes ==
  ASSUME Inv
  PROVE  /\ live \subseteq Slots /\ Home \in live /\ Home \in Slots
         /\ nextChange \in Nat
         /\ handed \in Seq(Nat) /\ Len(handed) \in Nat
         /\ \A n \in 1 .. Len(handed) : handed[n] \in Nat
         /\ \A s \in live :
              /\ Len(fns[s].changes) \in Nat
              /\ \A k \in 1 .. Len(fns[s].changes) : fns[s].changes[k] \in Nat
<1>1. /\ live \subseteq Slots /\ Home \in live /\ nextChange \in Nat
      /\ handed \in Seq(Nat)
  BY DEF Inv, TypeOK
<1>2. Len(handed) \in Nat /\ \A n \in 1 .. Len(handed) : handed[n] \in Nat
  BY <1>1
<1>3. ASSUME NEW s \in live
      PROVE  /\ Len(fns[s].changes) \in Nat
             /\ \A k \in 1 .. Len(fns[s].changes) : fns[s].changes[k] \in Nat
  <2>1. fns[s].changes \in Seq(Nat)
    BY <1>1, SlotFields
  <2> QED BY <2>1
<1>4. QED BY <1>1, <1>2, <1>3

LEMMA OnceEdit ==
  ASSUME NEW i \in Slots, Inv, HandsOutOnce, Edit(i)
  PROVE  HandsOutOnce'
<1> DEFINE n == Len(fns[i].changes)
           m == Len(fns'[i].changes)
<1>1. /\ live' = live /\ handed' = handed /\ nextChange' = nextChange + 1
      /\ \A s \in live \ {i} : fns'[s] = fns[s]
      /\ fns'[i].taken = fns[i].taken /\ m = n + 1
      /\ KeptFrom(fns'[i]) = KeptFrom(fns[i])
      /\ \A k \in 1 .. n : fns'[i].changes[k] = fns[i].changes[k]
      /\ fns'[i].changes[n + 1] = nextChange /\ i \in live
  BY LogTypes, EditStep
<1>2. \A s \in live : /\ KeptFrom(fns'[s]) = KeptFrom(fns[s])
                      /\ fns'[s].taken = fns[s].taken
  BY <1>1
(* A change in a log is one that was there, or the newest of all.          *)
<1>3. ASSUME NEW s \in live, NEW k \in 1 .. Len(fns'[s].changes)
      PROVE  \/ /\ k \in 1 .. Len(fns[s].changes)
                /\ fns'[s].changes[k] = fns[s].changes[k]
                /\ fns[s].changes[k] < nextChange
                /\ fns[s].changes[k] \in Nat
             \/ /\ s = i /\ k = n + 1
                /\ fns'[s].changes[k] = nextChange
  <2>1. CASE s = i
    <3>1. k \in 1 .. n \/ k = n + 1
      <4>1. n \in Nat
        BY <1>1, LogTypes
      <4> QED BY <2>1, <4>1, <1>1
    <3> QED BY <2>1, <3>1, <1>1, LogTypes DEF HandsOutOnce, Older
  <2>2. CASE s # i
    BY <2>2, <1>1, LogTypes DEF HandsOutOnce, Older
  <2> QED BY <2>1, <2>2
<1>4. \A q \in 1 .. Len(handed) : handed[q] < nextChange /\ handed[q] \in Nat
  BY LogTypes DEF HandsOutOnce, Older
<1>5. nextChange \in Nat
  BY LogTypes
<1> HIDE DEF n, m
<1>6. Older'
  <2>1. \A c \in Nat : c < nextChange => c < nextChange'
    BY <1>1, <1>5
  <2>2. nextChange < nextChange'
    BY <1>1, <1>5
  <2> QED BY <2>1, <2>2, <1>1, <1>3, <1>4 DEF Older
<1>7. InOneLog'
  <2> SUFFICES ASSUME NEW a \in live, NEW b \in live,
                      NEW k \in 1 .. Len(fns'[a].changes),
                      NEW l \in 1 .. Len(fns'[b].changes),
                      fns'[a].changes[k] = fns'[b].changes[l]
               PROVE  a = b /\ k = l
    BY <1>1 DEF InOneLog
  <2>1. ~(nextChange < nextChange)
    BY <1>5
  <2>2. CASE k \in 1 .. Len(fns[a].changes) /\ l \in 1 .. Len(fns[b].changes)
             /\ fns'[a].changes[k] = fns[a].changes[k]
             /\ fns'[b].changes[l] = fns[b].changes[l]
    <3>1. fns[a].changes[k] = fns[b].changes[l]
      BY <2>2
    <3> QED BY <2>2, <3>1 DEF HandsOutOnce, InOneLog
  <2>3. CASE a = i /\ k = n + 1 /\ fns'[a].changes[k] = nextChange
    <3>1. fns'[b].changes[l] = nextChange
      BY <2>3
    <3>2. b = i /\ l = n + 1
      BY <3>1, <2>1, <1>3
    <3> QED BY <2>3, <3>2
  <2>4. CASE b = i /\ l = n + 1 /\ fns'[b].changes[l] = nextChange
    <3>1. fns'[a].changes[k] = nextChange
      BY <2>4
    <3>2. a = i /\ k = n + 1
      BY <3>1, <2>1, <1>3
    <3> QED BY <2>4, <3>2
  <2> QED BY <2>2, <2>3, <2>4, <1>3
<1>8. LogUnhanded'
  <2> SUFFICES ASSUME NEW s \in live, NEW k \in 1 .. Len(fns'[s].changes),
                      NEW q \in 1 .. Len(handed),
                      fns'[s].changes[k] = handed[q]
               PROVE  s = Home /\ KeptFrom(fns'[s]) + k <= fns'[s].taken
    BY <1>1 DEF LogUnhanded
  <2>1. ~(nextChange < nextChange)
    BY <1>5
  <2>2. /\ k \in 1 .. Len(fns[s].changes)
        /\ fns'[s].changes[k] = fns[s].changes[k]
    BY <2>1, <1>3, <1>4
  <2>3. s = Home /\ KeptFrom(fns[s]) + k <= fns[s].taken
    BY <2>2 DEF HandsOutOnce, LogUnhanded
  <2> QED BY <2>3, <1>2
<1>9. HandedOutOnce'
  BY <1>1 DEF HandsOutOnce, HandedOutOnce
<1>10. QED BY <1>6, <1>7, <1>8, <1>9 DEF HandsOutOnce

LEMMA OnceCopy ==
  ASSUME NEW i \in Slots, NEW j \in Slots, Inv, HandsOutOnce,
         Clone(i, j) \/ Fork(i, j)
  PROVE  HandsOutOnce'
<1>1. /\ live' = live \cup {j} /\ j \notin live
      /\ handed' = handed /\ nextChange' = nextChange
      /\ \A s \in live : fns'[s] = fns[s]
      /\ fns'[j].changes = <<>>
  BY LogTypes, CopyStep
<1>2. \A s \in live' : \A k \in 1 .. Len(fns'[s].changes) :
        s \in live /\ fns'[s] = fns[s]
  BY <1>1
<1>3. Older'
  BY <1>1, <1>2 DEF HandsOutOnce, Older
<1>4. InOneLog'
  BY <1>1, <1>2 DEF HandsOutOnce, InOneLog
<1>5. LogUnhanded'
  BY <1>1, <1>2 DEF HandsOutOnce, LogUnhanded
<1>6. HandedOutOnce'
  BY <1>1 DEF HandsOutOnce, HandedOutOnce
<1>7. QED BY <1>3, <1>4, <1>5, <1>6 DEF HandsOutOnce

LEMMA OncePutBack ==
  ASSUME NEW j \in Slots, Inv, HandsOutOnce, PutBack(j)
  PROVE  HandsOutOnce'
<1> DEFINE m(s) == IF s = Home THEN j ELSE s
<1>1. /\ j \in live /\ j # Home /\ live' = live \ {j}
      /\ handed' = handed /\ nextChange' = nextChange
      /\ fns'[Home] = fns[j]
      /\ \A s \in live' \ {Home} : fns'[s] = fns[s]
  BY LogTypes, PutBackStep
<1>2. /\ \A s \in live' : /\ m(s) \in live /\ m(s) # Home
                          /\ fns'[s] = fns[m(s)]
      /\ \A s, t \in live' : m(s) = m(t) => s = t
  BY <1>1
<1> HIDE DEF m
<1>3. Older'
  BY <1>1, <1>2 DEF HandsOutOnce, Older
<1>4. InOneLog'
  BY <1>1, <1>2 DEF HandsOutOnce, InOneLog
<1>5. LogUnhanded'
  BY <1>1, <1>2 DEF HandsOutOnce, LogUnhanded
<1>6. HandedOutOnce'
  BY <1>1 DEF HandsOutOnce, HandedOutOnce
<1>7. QED BY <1>3, <1>4, <1>5, <1>6 DEF HandsOutOnce

LEMMA OnceAdopt ==
  ASSUME NEW j \in Slots, Inv, HandsOutOnce, Adopt(j)
  PROVE  HandsOutOnce'
<1> DEFINE n == Len(fns[Home].changes)
           m(s, k) == IF s = Home /\ k > n THEN j ELSE s
           o(s, k) == IF s = Home /\ k > n THEN k - n ELSE k
<1>1. /\ j \in live /\ j # Home /\ Home \in live /\ live' = live \ {j}
      /\ handed' = handed /\ nextChange' = nextChange
      /\ \A s \in live' \ {Home} : fns'[s] = fns[s]
      /\ fns'[Home].taken = fns[Home].taken
      /\ KeptFrom(fns'[Home]) = KeptFrom(fns[Home])
      /\ fns'[Home].changes = fns[Home].changes \o fns[j].changes
  BY LogTypes, AdoptStep
<1>2. /\ n \in Nat /\ Len(fns[j].changes) \in Nat
      /\ Len(fns'[Home].changes) = n + Len(fns[j].changes)
      /\ \A k \in 1 .. n : fns'[Home].changes[k] = fns[Home].changes[k]
      /\ \A k \in 1 .. Len(fns[j].changes) :
           fns'[Home].changes[n + k] = fns[j].changes[k]
  <2>1. fns[Home].changes \in Seq(Nat) /\ fns[j].changes \in Seq(Nat)
    BY <1>1, LogTypes, SlotFields
  <2> DEFINE f == fns[Home].changes
             g == fns[j].changes
             a == fns'[Home].changes
  <2>2. f \in Seq(Nat) /\ g \in Seq(Nat) /\ a = f \o g
    BY <2>1, <1>1
  <2> HIDE DEF f, g, a
  <2>3. /\ Len(f) \in Nat /\ Len(g) \in Nat /\ Len(a) = Len(f) + Len(g)
        /\ \A k \in 1 .. Len(f) : a[k] = f[k]
        /\ \A k \in 1 .. Len(g) : a[Len(f) + k] = g[k]
    BY <2>2, ConcatFacts
  <2> QED BY <2>3 DEF f, g, a
<1>3. ASSUME NEW s \in live', NEW k \in 1 .. Len(fns'[s].changes)
      PROVE  /\ m(s, k) \in live
             /\ o(s, k) \in 1 .. Len(fns[m(s, k)].changes)
             /\ fns'[s].changes[k] = fns[m(s, k)].changes[o(s, k)]
             /\ m(s, k) = Home => s = Home /\ o(s, k) = k
  <2>1. CASE s = Home /\ k > n
    <3> DEFINE d == k - n
    <3>1. d \in 1 .. Len(fns[j].changes) /\ k = n + d
      <4> DEFINE l == Len(fns[j].changes)
      <4>1. k \in 1 .. (n + l) /\ k > n /\ n \in Nat /\ l \in Nat
        BY <2>1, <1>2
      <4> HIDE DEF l, n
      <4>2. k - n \in 1 .. l /\ k = n + (k - n)
        BY <4>1
      <4> QED BY <4>2 DEF l
    <3>2. m(s, k) = j /\ o(s, k) = d
      BY <2>1
    <3> HIDE DEF d, n, m, o
    <3> QED BY <2>1, <3>1, <3>2, <1>1, <1>2
  <2>2. CASE s = Home /\ ~(k > n)
    <3>1. k \in 1 .. n
      BY <2>2, <1>2
    <3> QED BY <2>2, <3>1, <1>1, <1>2
  <2>3. CASE s # Home
    BY <2>3, <1>1
  <2> QED BY <2>1, <2>2, <2>3
<1>4. ASSUME NEW s \in live', NEW k \in 1 .. Len(fns'[s].changes),
             NEW t \in live', NEW l \in 1 .. Len(fns'[t].changes),
             m(s, k) = m(t, l), o(s, k) = o(t, l)
      PROVE  s = t /\ k = l
  <2>1. k \in Nat /\ l \in Nat /\ s # j /\ t # j
    <3>1. Len(fns'[s].changes) \in Nat /\ Len(fns'[t].changes) \in Nat
      <4>1. Inv'
        BY AdoptInv
      <4>2. fns' \in [Slots -> Fn] /\ live' \subseteq Slots
        BY <4>1 DEF Inv, TypeOK
      <4>3. fns'[s].changes \in Seq(Nat) /\ fns'[t].changes \in Seq(Nat)
        BY <4>2, Fields
      <4> QED BY <4>3
    <3> QED BY <3>1, <1>1
  <2>2. CASE s = Home /\ k > n
    <3>1. t = Home /\ l > n
      BY <2>1, <2>2, <1>4
    <3>2. k - n = l - n
      BY <2>2, <3>1, <1>4
    <3> QED BY <2>1, <2>2, <3>1, <3>2, <1>2
  <2>3. CASE ~(s = Home /\ k > n)
    <3>1. ~(t = Home /\ l > n)
      BY <2>1, <2>3, <1>4
    <3> QED BY <2>3, <3>1, <1>4
  <2> QED BY <2>2, <2>3
<1>5. \A s \in live' : s = Home => /\ fns'[s].taken = fns[s].taken
                                  /\ KeptFrom(fns'[s]) = KeptFrom(fns[s])
  BY <1>1
<1> HIDE DEF n, m, o
<1>6. Older'
  <2>1. ASSUME NEW s \in live', NEW k \in 1 .. Len(fns'[s].changes)
        PROVE  fns'[s].changes[k] < nextChange
    BY <1>3 DEF HandsOutOnce, Older
  <2> QED BY <2>1, <1>1 DEF HandsOutOnce, Older
<1>7. InOneLog'
  <2> SUFFICES ASSUME NEW a \in live', NEW b \in live',
                      NEW k \in 1 .. Len(fns'[a].changes),
                      NEW l \in 1 .. Len(fns'[b].changes),
                      fns'[a].changes[k] = fns'[b].changes[l]
               PROVE  a = b /\ k = l
    BY DEF InOneLog
  <2> DEFINE c == m(a, k)
             x == o(a, k)
             d == m(b, l)
             y == o(b, l)
  <2>2. /\ c \in live /\ x \in 1 .. Len(fns[c].changes)
        /\ d \in live /\ y \in 1 .. Len(fns[d].changes)
        /\ fns[c].changes[x] = fns[d].changes[y]
    BY <1>3
  <2> HIDE DEF c, d, x, y
  <2>3. c = d /\ x = y
    BY <2>2 DEF HandsOutOnce, InOneLog
  <2>1. m(a, k) = m(b, l) /\ o(a, k) = o(b, l)
    BY <2>3 DEF c, d, x, y
  <2> QED BY <2>1, <1>4
<1>8. LogUnhanded'
  <2> SUFFICES ASSUME NEW s \in live', NEW k \in 1 .. Len(fns'[s].changes),
                      NEW q \in 1 .. Len(handed),
                      fns'[s].changes[k] = handed[q]
               PROVE  s = Home /\ KeptFrom(fns'[s]) + k <= fns'[s].taken
    BY <1>1 DEF LogUnhanded
  <2>1. /\ m(s, k) = Home
        /\ KeptFrom(fns[m(s, k)]) + o(s, k) <= fns[m(s, k)].taken
    BY <1>3 DEF HandsOutOnce, LogUnhanded
  <2> QED BY <2>1, <1>3, <1>5
<1>9. HandedOutOnce'
  BY <1>1 DEF HandsOutOnce, HandedOutOnce
<1>10. QED BY <1>6, <1>7, <1>8, <1>9 DEF HandsOutOnce

(* What is handed out was in Home's log and had not been: it is in no      *)
(* other log, and what stays of Home's is taken.                           *)
LEMMA OnceTakeChanges ==
  ASSUME Inv, HandsOutOnce, TakeChanges
  PROVE  HandsOutOnce'
<1> DEFINE f == fns[Home]
           g == fns'[Home]
           n == Len(f.changes)
           t == Untaken(f)
           h == Len(handed)
<1>1. /\ live' = live /\ nextChange' = nextChange /\ handed' = handed \o t
      /\ \A s \in live \ {Home} : fns'[s] = fns[s]
      /\ g.logged = f.logged /\ g.taken = f.logged
      /\ g.changes = Drained(f.changes)
  BY LogTypes, TakeChangesStep
<1>2. /\ f.changes \in Seq(Nat) /\ n \in Nat /\ h \in Nat
      /\ f.logged \in Nat /\ Home \in live
  BY LogTypes, SlotFields
<1>3. PICK d \in 0 .. n :
        /\ Len(g.changes) = d
        /\ \A k \in 1 .. d : g.changes[k] = f.changes[(n - d) + k]
  BY <1>1, <1>2, DrainedIsEnd
<1>4. PICK u \in Nat :
        \A k \in 1 .. Len(t) :
          /\ u + k \in 1 .. n
          /\ t[k] = f.changes[u + k]
          /\ ~(KeptFrom(f) + (u + k) <= f.taken)
  BY UntakenIsNew
<1>5. /\ t \in Seq(Nat) /\ Len(t) \in Nat
      /\ Len(handed') = h + Len(t)
      /\ \A q \in 1 .. h : handed'[q] = handed[q]
      /\ \A q \in 1 .. Len(t) : handed'[h + q] = t[q]
  <2>1. t \in Seq(Nat) /\ handed \in Seq(Nat)
    BY UntakenIsNew, LogTypes
  <2> HIDE DEF t
  <2> QED BY <2>1, <1>1, ConcatFacts
<1>6. KeptFrom(g) = f.logged - d
  BY <1>1, <1>3 DEF KeptFrom
(* An entry of `handed` is an old one or the change at a place of f's log. *)
<1>7. ASSUME NEW q \in 1 .. Len(handed')
      PROVE  \/ q \in 1 .. h /\ handed'[q] = handed[q]
             \/ \E k \in 1 .. Len(t) :
                  /\ q = h + k /\ u + k \in 1 .. n
                  /\ handed'[q] = f.changes[u + k]
                  /\ ~(KeptFrom(f) + (u + k) <= f.taken)
  <2> DEFINE l == Len(t)
  <2>1. q \in 1 .. (h + l) /\ l \in Nat
    BY <1>5
  <2> HIDE DEF l, h
  <2>2. q \in 1 .. h \/ (q - h \in 1 .. l /\ q = h + (q - h))
    BY <2>1, <1>2
  <2>3. CASE q \in 1 .. h
    BY <2>3, <1>5
  <2>4. ASSUME q - h \in 1 .. l, q = h + (q - h)
        PROVE  \E k \in 1 .. Len(t) :
                 /\ q = h + k /\ u + k \in 1 .. n
                 /\ handed'[q] = f.changes[u + k]
                 /\ ~(KeptFrom(f) + (u + k) <= f.taken)
    <3> DEFINE k == q - h
    <3>1. k \in 1 .. Len(t) /\ q = h + k
      BY <2>4 DEF l
    <3> HIDE DEF k, f, t, n
    <3>2. /\ u + k \in 1 .. n /\ handed'[q] = f.changes[u + k]
          /\ ~(KeptFrom(f) + (u + k) <= f.taken)
      BY <3>1, <1>4, <1>5
    <3> QED BY <3>1, <3>2
  <2> QED BY <2>2, <2>3, <2>4
(* A change still in a log was there.                                      *)
<1>8. ASSUME NEW s \in live, NEW k \in 1 .. Len(fns'[s].changes)
      PROVE  \/ /\ s # Home /\ fns'[s] = fns[s]
                /\ k \in 1 .. Len(fns[s].changes)
             \/ /\ s = Home /\ (n - d) + k \in 1 .. n /\ k \in 1 .. d
                /\ fns'[s].changes[k] = fns[s].changes[(n - d) + k]
  <2>1. CASE s = Home
    <3>1. k \in 1 .. d
      BY <2>1, <1>3
    <3>2. (n - d) + k \in 1 .. n
      <4> HIDE DEF n
      <4> QED BY <3>1, <1>2
    <3> QED BY <2>1, <3>1, <3>2, <1>3
  <2>2. CASE s # Home
    BY <2>2, <1>1
  <2> QED BY <2>1, <2>2
<1>9. \A c \in 1 .. n : f.changes[c] < nextChange
  BY <1>2 DEF HandsOutOnce, Older
<1>10. \A c, e \in 1 .. n : f.changes[c] = f.changes[e] => c = e
  BY <1>2 DEF HandsOutOnce, InOneLog
<1>11. \A c \in 1 .. n : \A q \in 1 .. h :
         f.changes[c] = handed[q] => KeptFrom(f) + c <= f.taken
  BY <1>2 DEF HandsOutOnce, LogUnhanded
<1>12. \A s \in live \ {Home} : \A k \in 1 .. Len(fns[s].changes) :
         /\ \A c \in 1 .. n : fns[s].changes[k] # f.changes[c]
         /\ \A q \in 1 .. h : fns[s].changes[k] # handed[q]
  BY <1>2 DEF HandsOutOnce, InOneLog, LogUnhanded
<1>13. Older'
  <2>1. ASSUME NEW q \in 1 .. Len(handed')
        PROVE  handed'[q] < nextChange
    BY <1>7, <1>9 DEF HandsOutOnce, Older
  <2>2. ASSUME NEW s \in live, NEW k \in 1 .. Len(fns'[s].changes)
        PROVE  fns'[s].changes[k] < nextChange
    BY <1>8, <1>9 DEF HandsOutOnce, Older
  <2> QED BY <2>1, <2>2, <1>1 DEF Older
<1>14. InOneLog'
  <2> SUFFICES ASSUME NEW a \in live, NEW b \in live,
                      NEW k \in 1 .. Len(fns'[a].changes),
                      NEW l \in 1 .. Len(fns'[b].changes),
                      fns'[a].changes[k] = fns'[b].changes[l]
               PROVE  a = b /\ k = l
    BY <1>1 DEF InOneLog
  <2>1. CASE a # Home /\ b # Home
    <3>1. /\ fns[a].changes[k] = fns[b].changes[l]
          /\ k \in 1 .. Len(fns[a].changes) /\ l \in 1 .. Len(fns[b].changes)
      BY <2>1, <1>8
    <3> QED BY <3>1 DEF HandsOutOnce, InOneLog
  <2>2. CASE a = Home /\ b = Home
    <3>1. /\ k \in 1 .. d /\ l \in 1 .. d
          /\ (n - d) + k \in 1 .. n /\ (n - d) + l \in 1 .. n
          /\ f.changes[(n - d) + k] = f.changes[(n - d) + l]
      BY <2>2, <1>8
    <3>2. (n - d) + k = (n - d) + l
      BY <3>1, <1>10
    <3> HIDE DEF n
    <3> QED BY <2>2, <3>1, <3>2, <1>2
  <2>3. CASE a = Home /\ b # Home
    <3>1. /\ (n - d) + k \in 1 .. n
          /\ fns'[a].changes[k] = f.changes[(n - d) + k]
      BY <2>3, <1>8
    <3>2. /\ l \in 1 .. Len(fns[b].changes)
          /\ fns'[b].changes[l] = fns[b].changes[l]
      BY <2>3, <1>8
    <3>3. fns[b].changes[l] # f.changes[(n - d) + k]
      BY <2>3, <3>1, <3>2, <1>12
    <3> QED BY <3>1, <3>2, <3>3
  <2>4. CASE a # Home /\ b = Home
    <3>1. /\ (n - d) + l \in 1 .. n
          /\ fns'[b].changes[l] = f.changes[(n - d) + l]
      BY <2>4, <1>8
    <3>2. /\ k \in 1 .. Len(fns[a].changes)
          /\ fns'[a].changes[k] = fns[a].changes[k]
      BY <2>4, <1>8
    <3>3. fns[a].changes[k] # f.changes[(n - d) + l]
      BY <2>4, <3>1, <3>2, <1>12
    <3> QED BY <3>1, <3>2, <3>3
  <2> QED BY <2>1, <2>2, <2>3, <2>4
<1>15. LogUnhanded'
  <2> SUFFICES ASSUME NEW s \in live, NEW k \in 1 .. Len(fns'[s].changes),
                      NEW q \in 1 .. Len(handed'),
                      fns'[s].changes[k] = handed'[q]
               PROVE  s = Home /\ KeptFrom(fns'[s]) + k <= fns'[s].taken
    BY <1>1 DEF LogUnhanded
  <2>1. s = Home
    <3> SUFFICES ASSUME s # Home
                 PROVE  FALSE
      OBVIOUS
    <3>1. /\ k \in 1 .. Len(fns[s].changes)
          /\ fns'[s].changes[k] = fns[s].changes[k]
      BY <1>8
    <3>2. /\ \A c \in 1 .. n : fns[s].changes[k] # f.changes[c]
          /\ \A r \in 1 .. h : fns[s].changes[k] # handed[r]
      BY <3>1, <1>12
    <3> HIDE DEF f, n, t, h
    <3> QED BY <3>1, <3>2, <1>7
  <2>2. k \in 1 .. d
    BY <2>1, <1>8
  <2> DEFINE l == f.logged
  <2>3. KeptFrom(g) = l - d /\ g.taken = l /\ l \in Nat
    BY <1>1, <1>2, <1>6
  <2> HIDE DEF g, l, n
  <2>4. KeptFrom(g) + k <= g.taken
    BY <2>2, <2>3, <1>2
  <2> QED BY <2>1, <2>4 DEF g
<1>16. HandedOutOnce'
  <2> SUFFICES ASSUME NEW p \in 1 .. Len(handed'), NEW q \in 1 .. Len(handed'),
                      handed'[p] = handed'[q]
               PROVE  p = q
    BY DEF HandedOutOnce
  <2> HIDE DEF f, g, t, n, h
  <2>1. CASE p \in 1 .. h /\ q \in 1 .. h
    <3>1. handed[p] = handed[q]
      BY <2>1, <1>5
    <3> QED BY <2>1, <3>1 DEF HandsOutOnce, HandedOutOnce, h
  <2>2. CASE p \in 1 .. h /\ ~(q \in 1 .. h)
    BY <2>2, <1>5, <1>7, <1>11
  <2>3. CASE ~(p \in 1 .. h) /\ q \in 1 .. h
    BY <2>3, <1>5, <1>7, <1>11
  <2>4. CASE ~(p \in 1 .. h) /\ ~(q \in 1 .. h)
    <3>1. PICK k \in 1 .. Len(t) : /\ p = h + k /\ u + k \in 1 .. n
                                   /\ handed'[p] = f.changes[u + k]
      BY <2>4, <1>7
    <3>2. PICK l \in 1 .. Len(t) : /\ q = h + l /\ u + l \in 1 .. n
                                   /\ handed'[q] = f.changes[u + l]
      BY <2>4, <1>7
    <3>3. u + k = u + l
      BY <3>1, <3>2, <1>10
    <3>4. k = l
      BY <3>3, <1>5
    <3> QED BY <3>1, <3>2, <3>4
  <2> QED BY <2>1, <2>2, <2>3, <2>4
<1>17. QED BY <1>13, <1>14, <1>15, <1>16 DEF HandsOutOnce

LEMMA OnceNext == Inv /\ HandsOutOnce /\ [Next]_vars => HandsOutOnce'
<1> SUFFICES ASSUME Inv, HandsOutOnce, [Next]_vars
             PROVE  HandsOutOnce'
  OBVIOUS
<1>1. CASE \E i \in Slots : Edit(i)
  BY <1>1, OnceEdit
<1>2. ASSUME live' \subseteq live, handed' = handed, nextChange' = nextChange,
             \A s \in live' : fns'[s] = fns[s]
      PROVE  HandsOutOnce'
  <2>1. Older'
    BY <1>2 DEF HandsOutOnce, Older
  <2>2. InOneLog'
    BY <1>2 DEF HandsOutOnce, InOneLog
  <2>3. LogUnhanded'
    BY <1>2 DEF HandsOutOnce, LogUnhanded
  <2>4. HandedOutOnce'
    BY <1>2 DEF HandsOutOnce, HandedOutOnce
  <2> QED BY <2>1, <2>2, <2>3, <2>4 DEF HandsOutOnce
<1>3. CASE \E i \in Slots : TakeMark(i)
  BY <1>2, <1>3 DEF TakeMark
<1>4. CASE TakeChanges
  BY <1>4, OnceTakeChanges
<1>5. CASE \E i, j \in Slots : Clone(i, j) \/ Fork(i, j)
  BY <1>5, OnceCopy
<1>6. CASE \E j \in Slots : Adopt(j)
  BY <1>6, OnceAdopt
<1>7. CASE \E j \in Slots : PutBack(j)
  BY <1>7, OncePutBack
<1>8. CASE \E j \in Slots : Discard(j)
  BY <1>2, <1>8, LogTypes, DiscardStep
<1>9. CASE UNCHANGED vars
  BY <1>2, <1>9 DEF vars
<1>10. QED
  BY <1>1, <1>3, <1>4, <1>5, <1>6, <1>7, <1>8, <1>9 DEF Next

(* `take_changes` hands no change out twice, whatever is cloned, forked,   *)
(* adopted or put back in between.                                         *)
THEOREM ChangesAreHandedOutOnce == Spec => []HandedOutOnce
<1>1. Init => HandsOutOnce
  BY HomeAssumption
  DEF Init, NewFn, HandsOutOnce, Older, InOneLog, LogUnhanded, HandedOutOnce
<1>2. Inv /\ HandsOutOnce /\ [Next]_vars => HandsOutOnce'
  BY OnceNext
<1>3. HandsOutOnce => HandedOutOnce
  BY DEF HandsOutOnce
<1>4. QED BY <1>1, <1>2, <1>3, Invariance, PTL DEF Spec

=============================================================================
