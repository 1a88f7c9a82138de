----------------------------- MODULE ChangeLog -----------------------------
(***************************************************************************)
(* The log of changes a MIR function keeps, and the marks that name points *)
(* in its history (llrm-mir, module.rs).  An analysis kept past an edit    *)
(* holds the mark it was derived at; it is brought up to date from what    *)
(* `changes_since` answers for that mark.  A function is copied in two     *)
(* ways: `clone` starts a history of its own, `fork` carries on the        *)
(* history of the function it copies and may replace it (`adopt`).         *)
(*                                                                         *)
(* A change is an identifier, as the only thing the log does with one is   *)
(* keep it in order.  `hist` is what the program does not keep: every      *)
(* change the body has had, from which the answers are judged.             *)
(***************************************************************************)
EXTENDS Naturals, Sequences, FiniteSets

CONSTANTS
  Slots,        (* Places that hold a function.                            *)
  Home,         (* The one the module holds; the others are passes' copies *)
  LOG,          (* `take_changes` drains a log longer than this.           *)
  MaxEdits,     (* Bound: changes made in one behaviour.                   *)
  MaxLineages,  (* Bound: numbers drawn from NEXT_LINEAGE.                 *)
  MaxMarks      (* Bound: marks held at once.                              *)

ASSUME HomeAssumption == Home \in Slots
ASSUME LogAssumption == LOG \in Nat \ {0}
ASSUME BoundsAssumption ==
  MaxEdits \in Nat /\ MaxLineages \in Nat /\ MaxMarks \in Nat

VARIABLES
  live,         (* The slots that hold a function.                         *)
  fns,          (* What each holds.                                        *)
  nextLineage,  (* NEXT_LINEAGE.                                           *)
  nextChange,   (* The identifier of the next change.                      *)
  points,       (* The marks held, each with the history of its body.      *)
  handed        (* What `take_changes` has handed out, in order.           *)

vars == <<live, fns, nextLineage, nextChange, points, handed>>

Ancestor == [branch: Nat, at: Nat]
Mark == [uid: Nat, branch: Nat, at: Nat]
Fn == [uid: Nat, branch: Nat, ancestors: Seq(Ancestor), logged: Nat,
       taken: Nat, changes: Seq(Nat), hist: Seq(Nat)]

(* Mutant: a number is drawn before it is counted.                         *)
NewFnEarly(lineage) ==
  [uid |-> lineage - 1, branch |-> lineage - 1, ancestors |-> <<>>, logged |-> 0,
   taken |-> 0, changes |-> <<>>, hist |-> <<>>]

(* A function just made: `Lineage::default`, with an empty log.            *)
NewFn(lineage) ==
  [uid |-> lineage, branch |-> lineage, ancestors |-> <<>>, logged |-> 0,
   taken |-> 0, changes |-> <<>>, hist |-> <<>>]

Blank == NewFn(0)

(* The position of the oldest change still in the log.                     *)
KeptFrom(f) == f.logged - Len(f.changes)

(* Mutant: a fork's marks are not told from those of what it forked from.  *)
MarkOfHistory(f) == [uid |-> f.uid, branch |-> f.uid, at |-> f.logged]

MarkOf(f) == [uid |-> f.uid, branch |-> f.branch, at |-> f.logged]

(* Mutant: where the branch forked from another is not asked.              *)
OursAnyPoint(f, mark) ==
  /\ mark.uid = f.uid
  /\ \/ mark.branch = f.branch
     \/ \E k \in 1 .. Len(f.ancestors) : f.ancestors[k].branch = mark.branch

(* `mark` is a point of this branch, or of one it forked from at or before *)
(* where it forked.                                                        *)
Ours(f, mark) ==
  /\ mark.uid = f.uid
  /\ \/ mark.branch = f.branch
     \/ \E k \in 1 .. Len(f.ancestors) :
          /\ f.ancestors[k].branch = mark.branch
          /\ mark.at <= f.ancestors[k].at

(* Whether `changes_since(mark)` is `Some`, and then what it holds.        *)
Resolves(f, mark) ==
  Ours(f, mark) /\ KeptFrom(f) <= mark.at /\ mark.at <= f.logged

ChangesSince(f, mark) ==
  SubSeq(f.changes, mark.at - KeptFrom(f) + 1, Len(f.changes))

-----------------------------------------------------------------------------
Init ==
  /\ live = {Home}
  /\ fns = [s \in Slots |-> IF s = Home THEN NewFn(1) ELSE Blank]
  /\ nextLineage = 2
  /\ nextChange = 1
  /\ points = {}
  /\ handed = <<>>

(* `Function::log`, of any edit to a body.                                 *)
Edit(i) ==
  /\ i \in live /\ nextChange <= MaxEdits
  /\ fns' = [fns EXCEPT ![i].logged = @ + 1,
                        ![i].changes = Append(@, nextChange),
                        ![i].hist = Append(@, nextChange)]
  /\ nextChange' = nextChange + 1
  /\ UNCHANGED <<live, nextLineage, points, handed>>

(* `Function::mark`, kept by an analysis entry or a memo.                  *)
TakeMark(i) ==
  /\ i \in live /\ Cardinality(points) < MaxMarks
  /\ points' = points \cup {[mark |-> MarkOf(fns[i]), hist |-> fns[i].hist]}
  /\ UNCHANGED <<live, fns, nextLineage, nextChange, handed>>

(* Mutant: what was taken and is still in the log is handed out again.     *)
UntakenOrNot(f) == f.changes

(* What `take_changes` answers: the changes not handed out before.         *)
Untaken(f) ==
  LET from == IF f.taken >= KeptFrom(f) THEN f.taken ELSE KeptFrom(f)
  IN  SubSeq(f.changes, from - KeptFrom(f) + 1, Len(f.changes))

(* The log once taken: a long one keeps its last LOG \div 2 changes.       *)
Drained(changes) ==
  IF Len(changes) > LOG
  THEN SubSeq(changes, Len(changes) - LOG \div 2 + 1, Len(changes))
  ELSE changes

(* `take_changes`, which the pass manager asks of the module's function.   *)
TakeChanges ==
  /\ handed' = handed \o Untaken(fns[Home])
  /\ fns' = [fns EXCEPT ![Home].taken = fns[Home].logged,
                        ![Home].changes = Drained(@)]
  /\ UNCHANGED <<live, nextLineage, nextChange, points>>

(* `Function::clone`: `Lineage::clone` draws a history of the copy's own   *)
(* and `ChangeLog::clone` starts its log empty; `taken` is copied.         *)
Clone(i, j) ==
  /\ i \in live /\ j \notin live /\ nextLineage <= MaxLineages
  /\ fns' = [fns EXCEPT ![j] = [fns[i] EXCEPT !.uid = nextLineage,
                                              !.branch = nextLineage,
                                              !.ancestors = <<>>,
                                              !.changes = <<>>]]
  /\ live' = live \cup {j}
  /\ nextLineage' = nextLineage + 1
  /\ UNCHANGED <<nextChange, points, handed>>

(* `Function::fork`, a copy in the same history: a clone whose lineage is  *)
(* replaced, so that two numbers are drawn and the branch has the second.  *)
Fork(i, j) ==
  /\ i \in live /\ j \notin live /\ nextLineage + 1 <= MaxLineages
  /\ fns' = [fns EXCEPT ![j] =
               [fns[i] EXCEPT
                  !.branch = nextLineage + 1,
                  !.ancestors = Append(@, [branch |-> fns[i].branch,
                                           at |-> fns[i].logged]),
                  !.changes = <<>>]]
  /\ live' = live \cup {j}
  /\ nextLineage' = nextLineage + 2
  /\ UNCHANGED <<nextChange, points, handed>>

(* Mutant: a fork is adopted without the log of what it forked from.       *)
AdoptedAlone(f, g) == g

(* `g`, a fork, with the history it and `f` made.  One that changed        *)
(* nothing is `f`: its points are `f`'s own.                               *)
Adopted(f, g) ==
  LET joined == [g EXCEPT !.changes = f.changes \o g.changes,
                          !.taken = f.taken]
      unchanged == [branch |-> f.branch, at |-> g.logged]
  IN  IF g.ancestors[Len(g.ancestors)] = unchanged
      THEN [joined EXCEPT !.branch = f.branch, !.ancestors = f.ancestors]
      ELSE joined

(* `adopt` takes a fork of the function as it stands: made of it after its *)
(* last change, as the two logs are joined end to end.                     *)
IsForkOf(g, f) ==
  /\ g.uid = f.uid
  /\ g.ancestors # <<>>
  /\ g.ancestors[Len(g.ancestors)] = [branch |-> f.branch, at |-> f.logged]

(* `Function::adopt`: the fork in slot j takes the place of the module's.  *)
Adopt(j) ==
  /\ j \in live \ {Home}
  /\ IsForkOf(fns[j], fns[Home])
  /\ fns' = [fns EXCEPT ![Home] = Adopted(fns[Home], fns[j]), ![j] = Blank]
  /\ live' = live \ {j}
  /\ UNCHANGED <<nextLineage, nextChange, points, handed>>

(* A clone put in the module's place as it is: a trial taken back.  (A     *)
(* fork takes it by `adopt`.)                                              *)
PutBack(j) ==
  /\ j \in live \ {Home}
  /\ fns[j].ancestors = <<>>
  /\ fns' = [fns EXCEPT ![Home] = fns[j], ![j] = Blank]
  /\ live' = live \ {j}
  /\ UNCHANGED <<nextLineage, nextChange, points, handed>>

(* A copy goes out of scope.                                               *)
Discard(j) ==
  /\ j \in live \ {Home}
  /\ fns' = [fns EXCEPT ![j] = Blank]
  /\ live' = live \ {j}
  /\ UNCHANGED <<nextLineage, nextChange, points, handed>>

Next ==
  \/ \E i \in Slots : Edit(i) \/ TakeMark(i)
  \/ TakeChanges
  \/ \E i, j \in Slots : Clone(i, j) \/ Fork(i, j)
  \/ \E j \in Slots : Adopt(j) \/ PutBack(j) \/ Discard(j)

Spec == Init /\ [][Next]_vars

-----------------------------------------------------------------------------
TypeOK ==
  /\ live \subseteq Slots /\ Home \in live
  /\ fns \in [Slots -> Fn]
  /\ nextLineage \in Nat /\ nextChange \in Nat
  /\ points \subseteq [mark: Mark, hist: Seq(Nat)]
  /\ handed \in Seq(Nat)

(* Whatever mark a function's log answers for, the answer is what the body *)
(* really went through since: the changes of the marked body followed by   *)
(* the answer are the changes of the body now.  Clones, forks edited       *)
(* apart, drained logs and adopted forks are what could break it.          *)
ChangesSinceIsWhatChanged ==
  \A i \in live : \A p \in points :
    Resolves(fns[i], p.mark)
      => fns[i].hist = p.hist \o ChangesSince(fns[i], p.mark)

(* Two bodies at one mark are one body: what `entry.mark == function.mark()`*)
(* is taken to say all over the analysis cache.                            *)
EqualMarksAreOneBody ==
  \A i \in live : \A p \in points :
    p.mark = MarkOf(fns[i]) => p.hist = fns[i].hist

(* A mark taken of the function before a fork still resolves once the fork *)
(* is adopted, if it did before (what an analysis is kept for).            *)
AdoptKeepsMarks ==
  [][\A j \in Slots : \A p \in points :
       Adopt(j) /\ Resolves(fns[Home], p.mark)
         => Resolves(fns'[Home], p.mark)]_vars

(* `take_changes` hands a change out once, through clones and adopted      *)
(* forks too: a worklist seeded from it would visit what is done.          *)
HandedOutOnce ==
  \A m, n \in 1 .. Len(handed) : handed[m] = handed[n] => m = n

(* While the module holds the function it began with, every change it has *)
(* not handed out is in its log: draining takes only what was taken, and   *)
(* an adopted fork brings the changes of both.                             *)
UntakenIsKept ==
  fns[Home].uid = 1 => KeptFrom(fns[Home]) <= fns[Home].taken

=============================================================================
