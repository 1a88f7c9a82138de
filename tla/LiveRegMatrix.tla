----------------------------- MODULE LiveRegMatrix -----------------------------
(***************************************************************************)
(* What the greedy allocator asks of its register units: the unions of     *)
(* live ranges (liveness/liveintervalunion.rs) and the matrix over them    *)
(* (greedy/matrix.rs) of llrm-codegen.  Each unit has one query, which     *)
(* keeps what it found and the place it stopped at; a check goes on from   *)
(* there when nothing it depends on has changed.  Greedy takes the answers *)
(* for granted (Holders): here they are worked out as the code does.       *)
(*                                                                         *)
(* A tag is a counter that only goes up, compared with the one a query     *)
(* took.  A query says instead whether its tag is still the union's and    *)
(* its user tag the matrix's: 2^32 changes under one query are left out.   *)
(***************************************************************************)
EXTENDS Naturals, Sequences, FiniteSets, SequencesExt, FiniteSetsExt

CONSTANTS
  VRegs,
  Units,
  Regs,
  None,
  NoVReg,
  UnitsOf,      (* `regunits`, in order.                                   *)
  RootOf,       (* The widest register a register is part of.              *)
  Ranges,       (* The live ranges there can be: [start, end) in order.    *)
  CallsAt,      (* The slots of the regmasks.                              *)
  Destroyed,    (* The roots a call destroys.                              *)
  FixedAt,      (* Of a unit, the slots a fixed range takes.               *)
  Limits,       (* The counts asked for: 1, the cutoffs, usize::MAX,       *)
  All           (* which is more than there are registers.                 *)

ASSUME MatrixAssumption ==
  /\ NoVReg \notin VRegs /\ None \notin Regs /\ IsFiniteSet(VRegs)
  /\ UnitsOf \in [Regs -> Seq(Units)] /\ RootOf \in [Regs -> Regs]
  /\ Ranges \subseteq Seq([start : Nat, end : Nat])
  /\ \A r \in Ranges : \A i, j \in DOMAIN r :
       r[i].start < r[i].end /\ (i < j => r[i].end <= r[j].start)
  /\ CallsAt \subseteq Nat /\ Destroyed \subseteq Regs
  /\ FixedAt \in [Units -> SUBSET Nat] /\ Limits \subseteq Nat \ {0}
  /\ All \in Limits /\ All > Cardinality(VRegs)

VARIABLES
  ranges,     (* The live range of each register.                          *)
  phys,       (* `vrm`: the physical register of each, or None.            *)
  turns,      (* The registers the allocator is finding a place for: the   *)
              (* one dequeued, and those recoloring took out of its way.   *)
  matrix,     (* Of each unit, its entries.                                *)
  queries,
  reg_mask,   (* Whose regmasks were asked for last under this user tag.   *)
  answer      (* What the last question was answered.                      *)

vars == <<ranges, phys, turns, matrix, queries, reg_mask, answer>>

Silent == [asked |-> "nothing"]

(* A place in a union is the entry there: `None` is past the last.         *)
End == [start |-> 0, stop |-> 0, reg |-> NoVReg]
Fresh == [lr |-> NoVReg, lri |-> 1, at |-> End, found |-> <<>>,
          checked |-> FALSE, seen_all |-> FALSE, tag |-> TRUE, user_tag |-> FALSE]

Slots(range) == UNION {seg.start .. seg.end - 1 : seg \in ToSet(range)}
Meet(r, s) == Slots(r) \cap Slots(s) # {}

Init ==
  /\ ranges \in [VRegs -> Ranges]
  /\ phys = [v \in VRegs |-> None]
  /\ turns = {}
  /\ matrix = [u \in Units |-> {}]
  /\ queries = [u \in Units |-> Fresh]
  /\ reg_mask = [reg |-> NoVReg, roots |-> {}]
  /\ answer = Silent
-----------------------------------------------------------------------------
(* The union: entries that start in order, none over another.              *)

(* What a loop comes to in n turns: it has ended, or the n-th ends it.     *)
Loop(n, start, Turn(_, _)) ==
  LET after[i \in 0 .. n] == IF i = 0 THEN start ELSE Turn(i, after[i - 1])
  IN  after[n]

FirstOf(entries) ==
  IF entries = {} THEN End
  ELSE CHOOSE e \in entries : \A f \in entries : e.start <= f.start

(* The first entry whose stop is after x, and the one after another.       *)
Find(entries, x) == FirstOf({e \in entries : e.stop > x})
NextOf(entries, at) == FirstOf({e \in entries : e.start > at.start})

(* The first segment from the i-th on whose end is after x.                *)
AdvanceTo(range, i, x) ==
  Min({k \in i .. Len(range) : range[k].end > x} \cup {Len(range) + 1})

(* One segment of `insert_run`: it joins the entries of the register that  *)
(* it touches.                                                             *)
Insert(entries, seg, v) ==
  LET left == {e \in entries : e.reg = v /\ e.stop = seg.start}
      right == {e \in entries : e.reg = v /\ e.start = seg.end}
  IN  (entries \ (left \cup right))
        \cup {[start |-> Min({seg.start} \cup {e.start : e \in left}), reg |-> v,
               stop |-> Max({seg.end} \cup {e.stop : e \in right})]}

Unified(entries, v, range) ==
  Loop(Len(range), entries, LAMBDA i, es : Insert(es, range[i], v))

(* Mutant: a segment joined with the one before it is looked for again.    *)
ExtractedEach(x, range) ==
  LET at == Find(x.entries, range[x.next].start)
  IN  IF x.next > Len(range) \/ at = End THEN x
      ELSE [entries |-> x.entries \ {at}, next |-> x.next + 1]

(* A turn of `extract`: an entry removed may stand for several segments.   *)
ExtractedOne(x, range) ==
  LET at == Find(x.entries, range[x.next].start)
      rest == x.entries \ {at}
      after == NextOf(rest, at)
  IN  IF x.next > Len(range) \/ at = End THEN x
      ELSE [entries |-> rest,
            next |-> IF after = End THEN Len(range) + 1
                     ELSE AdvanceTo(range, x.next, after.start)]

Extracted(entries, range) ==
  Loop(Len(range), [entries |-> entries, next |-> 1],
       LAMBDA i, x : ExtractedOne(x, range)).entries
-----------------------------------------------------------------------------
(* The query.                                                              *)

(* Mutant: what was found for a register is kept when ranges have changed. *)
QueryInitUntagged(q, v) ==
  IF q.lr = v /\ q.tag THEN q
  ELSE [Fresh EXCEPT !.lr = v, !.user_tag = TRUE]

(* `init`: what was found is kept when nothing has changed.                *)
QueryInit(q, v) ==
  IF q.user_tag /\ q.lr = v /\ q.tag THEN q
  ELSE [Fresh EXCEPT !.lr = v, !.user_tag = TRUE]

(* A turn of the loop of `collect_interfering_vregs`: the range and the    *)
(* union are walked together, whichever ends first going on.               *)
Stepped(w, range, entries, limit) ==
  LET q == w.q
      at == q.at
      seg == range[q.lri]
      known == Contains(q.found, at.reg)
      found == IF known THEN q.found ELSE Append(q.found, at.reg)
      lri == AdvanceTo(range, q.lri, at.start)
  IN  IF w.done THEN w
      ELSE IF at = End THEN [q |-> [q EXCEPT !.seen_all = TRUE], done |-> TRUE]
      ELSE IF seg.start < at.stop /\ seg.end > at.start
      THEN IF ~known /\ Len(found) >= limit
           THEN [q |-> [q EXCEPT !.found = found], done |-> TRUE]
           ELSE [q |-> [q EXCEPT !.found = found, !.at = NextOf(entries, at)],
                 done |-> FALSE]
      ELSE IF lri > Len(range)
      THEN [q |-> [q EXCEPT !.lri = lri, !.seen_all = TRUE], done |-> TRUE]
      ELSE [q |-> [q EXCEPT !.lri = lri,
                            !.at = IF range[lri].start < at.stop THEN at
                                   ELSE Find(entries, range[lri].start)],
            done |-> FALSE]

(* It passes an entry or a segment each turn.                              *)
Walk(q, range, entries, limit) ==
  Loop(Len(range) + Cardinality(entries) + 1, [q |-> q, done |-> FALSE],
       LAMBDA i, w : Stepped(w, range, entries, limit)).q

(* The iterators are set up on the first call.                             *)
Begun(q, range, entries) ==
  [q EXCEPT !.checked = TRUE, !.lri = 1, !.at = Find(entries, range[1].start)]

(* Mutant: a query that stopped when it had enough is taken for done.      *)
CollectOnce(q, range, entries, limit) ==
  IF q.checked THEN q
  ELSE IF range = <<>> \/ entries = {}
  THEN [q EXCEPT !.checked = TRUE, !.seen_all = TRUE]
  ELSE Walk(Begun(q, range, entries), range, entries, limit)

(* `collect_interfering_vregs`: up to `limit`, from where it stopped.      *)
Collect(q, range, entries, limit) ==
  IF q.seen_all \/ Len(q.found) >= limit THEN q
  ELSE IF q.checked THEN Walk(q, range, entries, limit)
  ELSE IF range = <<>> \/ entries = {}
  THEN [q EXCEPT !.checked = TRUE, !.seen_all = TRUE]
  ELSE Walk(Begun(q, range, entries), range, entries, limit)

(* `query` and `interfering_vregs`.                                        *)
Query(q, v, u, limit) ==
  LET kept == QueryInit(q, v)
  IN  IF ~kept.seen_all \/ limit < Len(kept.found)
      THEN Collect(kept, ranges[v], matrix[u], limit)
      ELSE kept

(* `query_check` of the units of a register in order, up to the first that *)
(* is taken.                                                               *)
AskUnits(v, r) ==
  LET units == UnitsOf[r]
      q(u) == Collect(QueryInit(queries[u], v), ranges[v], matrix[u], 1)
      taken == {i \in DOMAIN units : q(units[i]).found # <<>>}
      asked == {units[i] : i \in {i \in DOMAIN units : \A j \in taken : i <= j}}
  IN  [queries |-> [u \in Units |-> IF u \in asked THEN q(u) ELSE queries[u]],
       taken |-> taken # {}]
-----------------------------------------------------------------------------
(* The matrix.                                                             *)

(* The tags of unions that change.                                         *)
Stale(qs, units, range) ==
  [u \in Units |-> IF u \in units /\ range # <<>>
                   THEN [qs[u] EXCEPT !.tag = FALSE] ELSE qs[u]]

(* `assign` and `unassign`: the unions' tags move unless the range is      *)
(* empty.                                                                  *)
Assigned(m, qs, v, r, range) ==
  [matrix |-> [u \in Units |-> IF u \in ToSet(UnitsOf[r])
                               THEN Unified(m[u], v, range) ELSE m[u]],
   queries |-> Stale(qs, ToSet(UnitsOf[r]), range)]

Unassigned(m, qs, r, range) ==
  [matrix |-> [u \in Units |-> IF u \in ToSet(UnitsOf[r])
                               THEN Extracted(m[u], range) ELSE m[u]],
   queries |-> Stale(qs, ToSet(UnitsOf[r]), range)]

(* What is evicted, one after the other.                                   *)
AllUnassigned(m, qs, gone) ==
  Loop(Len(gone), [matrix |-> m, queries |-> qs],
       LAMBDA i, x : Unassigned(x.matrix, x.queries, phys[gone[i]], ranges[gone[i]]))

(* The next register is dequeued, and the results of queries are not used  *)
(* any more: `invalidate_virt_regs`.  What the one before was split or     *)
(* spilled to, and what of an assigned range was cut back, have ranges of  *)
(* their own by then, and those left without a place are queued again.     *)
Invalidated(qs) == [u \in Units |-> [qs[u] EXCEPT !.user_tag = FALSE]]

Take(v) ==
  /\ phys[v] = None
  /\ turns' = {v}
  /\ queries' = Invalidated(queries)
  /\ reg_mask' = [reg_mask EXCEPT !.reg = NoVReg]
  /\ \E w \in VRegs, range \in Ranges :
       /\ phys[w] = None
       /\ ranges' = [ranges EXCEPT ![w] = range]
  /\ answer' = Silent
  /\ UNCHANGED <<phys, matrix>>

Asked == turns \cup {v \in VRegs : phys[v] # None}

(* `reg_mask_of`: worked out once for a register.                          *)
RegMaskOf(v) ==
  IF reg_mask.reg = v THEN reg_mask
  ELSE [reg |-> v, roots |-> IF Slots(ranges[v]) \cap CallsAt # {} THEN Destroyed ELSE {}]

(* `check_interference`.                                                   *)
Check(v, r) ==
  LET mask == RegMaskOf(v)
      clobbered == RootOf[r] \in mask.roots
      fixed == \E u \in ToSet(UnitsOf[r]) : Slots(ranges[v]) \cap FixedAt[u] # {}
      asked == AskUnits(v, r)
      kind == IF ranges[v] = <<>> THEN "Free"
              ELSE IF clobbered THEN "RegMask"
              ELSE IF fixed THEN "RegUnit"
              ELSE IF asked.taken THEN "VirtReg" ELSE "Free"
  IN  /\ v \in Asked
      /\ reg_mask' = IF ranges[v] = <<>> THEN reg_mask ELSE mask
      /\ queries' = IF ranges[v] = <<>> \/ clobbered \/ fixed THEN queries
                    ELSE asked.queries
      /\ answer' = [asked |-> "kind", vreg |-> v, reg |-> r, kind |-> kind]
      /\ UNCHANGED <<ranges, phys, turns, matrix>>

(* `query_vregs`.                                                          *)
QueryVRegs(v, u, limit) ==
  LET q == Query(queries[u], v, u, limit)
  IN  /\ v \in Asked
      /\ queries' = [queries EXCEPT ![u] = q]
      /\ answer' = [asked |-> "vregs", vreg |-> v, unit |-> u, limit |-> limit,
                    found |-> q.found]
      /\ UNCHANGED <<ranges, phys, turns, matrix, reg_mask>>

Says(v, r, kind) ==
  answer = [asked |-> "kind", vreg |-> v, reg |-> r, kind |-> kind]

(* Mutant: a register placed is still to be placed.                        *)
AssignInTurn(v, r) ==
  LET given == Assigned(matrix, queries, v, r, ranges[v])
  IN  /\ Says(v, r, "Free") /\ phys[v] = None
      /\ phys' = [phys EXCEPT ![v] = r]
      /\ matrix' = given.matrix /\ queries' = given.queries
      /\ answer' = Silent
      /\ UNCHANGED <<ranges, turns, reg_mask>>

(* A register found free is given.                                         *)
Assign(v, r) ==
  LET given == Assigned(matrix, queries, v, r, ranges[v])
  IN  /\ Says(v, r, "Free") /\ phys[v] = None
      /\ phys' = [phys EXCEPT ![v] = r]
      /\ turns' = turns \ {v}
      /\ matrix' = given.matrix /\ queries' = given.queries
      /\ answer' = Silent
      /\ UNCHANGED <<ranges, reg_mask>>

(* Hint recoloring: another register is found free for one that has one.   *)
Move(v, r) ==
  LET gone == Unassigned(matrix, queries, phys[v], ranges[v])
      given == Assigned(gone.matrix, gone.queries, v, r, ranges[v])
  IN  /\ Says(v, r, "Free") /\ phys[v] \notin {None, r}
      /\ phys' = [phys EXCEPT ![v] = r]
      /\ matrix' = given.matrix /\ queries' = given.queries
      /\ answer' = Silent
      /\ UNCHANGED <<ranges, turns, reg_mask>>

(* Eviction, and the start of a recoloring, whose candidates are placed in *)
(* the same turn: who is in the way is asked of every unit, then unassigned *)
(* once each, in an order that does not matter, then v is given r.         *)
Evict(v, r, recolor) ==
  LET now == [u \in Units |-> IF u \in ToSet(UnitsOf[r])
                              THEN Query(queries[u], v, u, All) ELSE queries[u]]
      inTheWay == UNION {ToSet(now[u].found) : u \in ToSet(UnitsOf[r])}
      gone == AllUnassigned(matrix, now, SetToSeq(inTheWay))
      given == Assigned(gone.matrix, gone.queries, v, r, ranges[v])
  IN  /\ Says(v, r, "VirtReg") /\ phys[v] = None
      /\ phys' = [w \in VRegs |-> IF w = v THEN r
                                  ELSE IF w \in inTheWay THEN None ELSE phys[w]]
      /\ turns' = (turns \ {v}) \cup IF recolor THEN inTheWay ELSE {}
      /\ matrix' = given.matrix /\ queries' = given.queries
      /\ answer' = Silent
      /\ UNCHANGED <<ranges, reg_mask>>

(* What has been worked out of w in this turn and is still gone by.        *)
Remembered(w) ==
  reg_mask.reg = w \/ \E u \in Units : queries[u].lr = w /\ queries[u].tag /\ queries[u].user_tag

(* The spiller cuts back a range (`eliminate_dead_defs`) or takes it as a  *)
(* snippet of the one it spills.  One that has a register is unassigned    *)
(* before its range changes; one that was evicted is not asked of again in *)
(* this turn.  One that recoloring displaced is: what is remembered of it  *)
(* would go on being of the longer range.  That nothing is, the code does  *)
(* not see to, and is assumed here.                                        *)
Shrink(w, range) ==
  LET gone == IF phys[w] = None THEN [matrix |-> matrix, queries |-> queries]
              ELSE Unassigned(matrix, queries, phys[w], ranges[w])
  IN  /\ turns # {} /\ (w \in turns => ~Remembered(w))
      /\ Slots(range) \subseteq Slots(ranges[w]) /\ range # ranges[w]
      /\ ranges' = [ranges EXCEPT ![w] = range]
      /\ phys' = [phys EXCEPT ![w] = None]
      /\ matrix' = gone.matrix /\ queries' = gone.queries
      /\ answer' = Silent
      /\ UNCHANGED <<turns, reg_mask>>

Next ==
  \/ \E v \in VRegs : Take(v)
  \/ \E v \in VRegs, r \in Regs :
       \/ Check(v, r) \/ Assign(v, r) \/ Move(v, r)
       \/ \E recolor \in BOOLEAN : Evict(v, r, recolor)
  \/ \E v \in VRegs, u \in Units, limit \in Limits : QueryVRegs(v, u, limit)
  \/ \E w \in VRegs, range \in Ranges : Shrink(w, range)

Spec == Init /\ [][Next]_vars
-----------------------------------------------------------------------------
TypeOK ==
  /\ ranges \in [VRegs -> Ranges]
  /\ phys \in [VRegs -> Regs \cup {None}]
  /\ turns \subseteq {v \in VRegs : phys[v] = None}
  /\ \A u \in Units :
       /\ \A e \in matrix[u] : e.reg \in VRegs /\ e.start < e.stop
       /\ queries[u].found \in Seq(VRegs)

(* A union holds the ranges of the registers assigned to its unit, as they *)
(* are now, and nothing else; its entries are in order, none overlaps      *)
(* another, and no two of a register touch.  What coalescing made one      *)
(* entry of is found again when the range is taken out.                    *)
UnionsHoldWhatIsAssigned ==
  \A u \in Units :
    LET entries == matrix[u] IN
      /\ \A v \in VRegs :
           UNION {e.start .. e.stop - 1 : e \in {e \in entries : e.reg = v}}
             = IF phys[v] # None /\ u \in ToSet(UnitsOf[phys[v]])
               THEN Slots(ranges[v]) ELSE {}
      /\ \A e, f \in entries :
           \/ e = f \/ e.stop < f.start \/ f.stop < e.start
           \/ (e.stop = f.start \/ f.stop = e.start) /\ e.reg # f.reg

Holders(v, u) ==
  {w \in VRegs : /\ phys[w] # None /\ u \in ToSet(UnitsOf[phys[w]])
                 /\ Meet(ranges[v], ranges[w])}

(* A check says what is in the way of the range now, whatever was asked,   *)
(* assigned or changed since the queries it goes on from were begun.       *)
ChecksAreTrue ==
  answer.asked = "kind" =>
    LET range == ranges[answer.vreg]
        units == ToSet(UnitsOf[answer.reg])
        calls == Slots(range) \cap CallsAt # {} /\ RootOf[answer.reg] \in Destroyed
        fixed == \E u \in units : Slots(range) \cap FixedAt[u] # {}
        held == \E u \in units : Holders(answer.vreg, u) # {}
    IN  answer.kind = IF calls THEN "RegMask" ELSE IF fixed THEN "RegUnit"
                      ELSE IF held THEN "VirtReg" ELSE "Free"

(* The registers collected are the ones in the way, each once: all of      *)
(* them, unless there are as many as were asked for.                       *)
CollectedAreInTheWay ==
  answer.asked = "vregs" =>
    LET holders == Holders(answer.vreg, answer.unit) IN
      /\ ToSet(answer.found) \subseteq holders
      /\ Cardinality(ToSet(answer.found)) = Len(answer.found)
      /\ Len(answer.found) >= Min({answer.limit, Cardinality(holders)})

=============================================================================
