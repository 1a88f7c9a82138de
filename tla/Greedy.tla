-------------------------------- MODULE Greedy --------------------------------
(***************************************************************************)
(* The greedy register allocator (llrm-codegen, greedy/greedy.rs), with    *)
(* the matrix of what each register unit holds (greedy/matrix.rs).  Live   *)
(* ranges are taken from a queue; one that finds no free register evicts   *)
(* lighter ones, waits, is spilled to tiny ranges, or is placed by         *)
(* recoloring what is in its way.  At the end copies are given one         *)
(* register where a hint was missed.                                       *)
(*                                                                         *)
(* The allocator is the one without split support (`split` is `None`):     *)
(* "then a range that does not fit is spilled", and the first use of a     *)
(* callee-saved register costs nothing.  A range is the set of the points  *)
(* it is live at, and does not change while it exists.                     *)
(***************************************************************************)
EXTENDS Naturals, Sequences, FiniteSets, SequencesExt, FiniteSetsExt

CONSTANTS
  VRegs,        (* The numbers of the virtual registers.                   *)
  Regs,         (* The physical registers.                                 *)
  None,
  Fail,
  UnitsOf,      (* `regunits`: the byte lanes a register covers.           *)
  RootOf,       (* The widest register a register is part of.              *)
  Seeds,        (* What there is to allocate: of a seed, a program         *)
  ProgramOf(_)  (* (Program, below).                                       *)

Unspillable == 1000     (* The weight `isSpillable` tests for.             *)
NoVReg == 0

(* `LiveRangeStage`.  (Split2 is only given to what a split makes.)        *)
New == 0
Assign == 1
Split == 2
Spill == 4
Done == 5
Stages == {New, Assign, Split, Spill, Done}

ASSUME RegsAssumption ==
  /\ VRegs \subseteq Nat \ {NoVReg} /\ IsFiniteSet(VRegs)
  /\ None \notin Regs /\ Fail \notin Regs /\ None # Fail
  /\ UnitsOf \in [Regs -> (SUBSET Nat) \ {{}}] /\ RootOf \in [Regs -> Regs]

(* The ranges of `values` are there at the start; spilling v makes those   *)
(* of `products[v]`, of new numbers.  `last` is the last point, `blocked`  *)
(* are the registers a call or a fixed range keeps a range from, `copies`  *)
(* the copies between two ranges.  `pins` is the register a value has to   *)
(* be in: `fixed` ones are not allocated, the others (LLRM_PINS_AS_VREGS)  *)
(* are `Pinned`.  `cutoffs` are the three at which the allocator gives up, *)
(* EVICT_INTERFERENCE_CUTOFF and LAST_CHANCE_RECOLORING_MAX_INTERFERENCE   *)
(* and _MAX_DEPTH: constants of the code, lower here where a small program *)
(* is to meet them.                                                        *)
Program(p) ==
  /\ p.values \subseteq VRegs /\ p.local \subseteq VRegs
  /\ p.pins \in [VRegs -> Regs \cup {None}]
  /\ p.fixed \subseteq {v \in VRegs : p.pins[v] # None} \ p.values
  /\ p.last \in Nat /\ p.live \in [VRegs -> SUBSET (0 .. p.last)]
  /\ p.weight \in [VRegs -> 0 .. Unspillable]
  /\ p.order \in [VRegs -> Seq(Regs)]
  /\ p.blocked \in [VRegs -> SUBSET Regs]
  /\ p.hints \in [VRegs -> Seq([reg: Regs \cup {None}, vreg: VRegs \cup {NoVReg}])]
  /\ p.products \in [VRegs -> SUBSET VRegs]
  /\ \A v \in VRegs :
       /\ p.products[v] # {} => v \in p.values
       /\ p.products[v] \cap p.values = {}
       /\ \A w \in VRegs \ {v} : p.products[v] \cap p.products[w] = {}
       /\ \A w \in p.values \cup p.products[v] : p.live[w] # {}
  /\ p.copies \in Seq([ends: {E \in SUBSET VRegs : Cardinality(E) = 2}, freq: Nat])
  /\ p.cutoffs \in [depth: Nat, interference: Nat, evict: Nat]

ASSUME ProgramsAssumption == \A seed \in Seeds : Program(ProgramOf(seed))

VARIABLES
  prog,     (* The program: it does not change.                            *)
  alloc,    (* What the allocator holds of its live ranges.                *)
  queue,    (* How often each range is queued, and the priority it has.    *)
  failed    (* The ranges for which no register was found.                 *)

vars == <<prog, alloc, queue, failed>>

Meets(v, w) == prog.live[v] \cap prog.live[w] # {}
Pinned == {v \in VRegs : prog.pins[v] # None} \ prog.fixed
Spillable(v) == prog.weight[v] # Unspillable

(* What a loop comes to in n turns: it has ended, or the n-th ends it.     *)
Loop(n, start, Turn(_, _)) ==
  LET after[i \in 0 .. n] == IF i = 0 THEN start ELSE Turn(i, after[i - 1])
  IN  after[n]

(* A sequence with what a set of one, or of none, has, unless it is there. *)
AddOnce(seq, S) ==
  IF S \subseteq ToSet(seq) THEN seq ELSE Append(seq, CHOOSE x \in S : TRUE)
Gathered(sets) == Loop(Len(sets), <<>>, LAMBDA i, seq : AddOnce(seq, sets[i]))

-----------------------------------------------------------------------------
(* The matrix.                                                             *)

(* `query_vregs`: who in a unit v's range meets.                           *)
Holders(a, v, u) ==
  {w \in a.made : /\ a.phys[w] # None
                  /\ u \in UnitsOf[a.phys[w]]
                  /\ Meets(v, w)}
HoldersOf(a, v, r) == UNION {Holders(a, v, u) : u \in UnitsOf[r]}

(* Mutant: only the lowest byte of a register is asked about.              *)
IsFreeLowByte(a, v, r) ==
  r \notin prog.blocked[v] /\ Holders(a, v, Min(UnitsOf[r])) = {}

(* `check_interference` is `Free`.                                         *)
IsFree(a, v, r) == r \notin prog.blocked[v] /\ HoldersOf(a, v, r) = {}

Freed(a, S) == [a EXCEPT !.phys = [w \in VRegs |-> IF w \in S THEN None ELSE @[w]]]

-----------------------------------------------------------------------------
(* The order to try registers in, and the order to take ranges in.         *)

(* The first hint, and the registers hints come to: a register, or the one *)
(* another range has; in a byte's order, the first byte of it.             *)
SimpleHint(v) == IF prog.hints[v] = <<>> THEN [reg |-> None, vreg |-> NoVReg]
                 ELSE prog.hints[v][1]
Reached(a, hint) == IF hint.vreg # NoVReg THEN a.phys[hint.vreg] ELSE hint.reg
HintReg(a, v) == Reached(a, SimpleHint(v))

Near(order, reg) ==
  LET like == {n \in DOMAIN order : RootOf[order[n]] = RootOf[reg]}
  IN  IF reg = None THEN {}
      ELSE IF reg \in ToSet(order) THEN {reg}
      ELSE IF like = {} THEN {} ELSE {order[Min(like)]}

Hinted(a, v) ==
  [n \in DOMAIN prog.hints[v] |->
     Near(prog.order[v], Reached(a, prog.hints[v][n]))]
HintRegs(a, v) == Gathered(Hinted(a, v))

(* `AllocationOrder`: hints first.                                         *)
Order(a, v) ==
  Gathered(Hinted(a, v) \o [n \in DOMAIN prog.order[v] |-> {prog.order[v][n]}])

(* `get_priority`, with its bits 29, 30 and 31, and `enqueue` of a pin.    *)
Bit29 == 1000
Bit30 == 2000
Bit31 == 4000
AllBits == 8000

Priority(a, v) ==
  LET size == Cardinality(prog.live[v])
      global == size > 2 * Len(prog.order[v]) \/ v \notin prog.local
      place == IF a.stage[v] = Assign /\ ~global
               THEN prog.last - Min(prog.live[v])
               ELSE Bit29 + size
  IN  IF a.stage[v] = Split THEN size
      ELSE Bit31 + place + (IF HintReg(a, v) # None THEN Bit30 ELSE 0)

(* The heap's first: the highest priority, and then the lowest number.     *)
First(entries) ==
  CHOOSE x \in entries :
    \A y \in entries : x.prio > y.prio \/ (x.prio = y.prio /\ x.reg <= y.reg)
Entries(q) ==
  {[prio |-> q[v].prio, reg |-> v] : v \in {w \in VRegs : q[w].times > 0}}

(* `enqueue` of each range as often as `new` says.  What is queued has no  *)
(* register, and was not spilled: the allocator asserts it (NoneLost).     *)
Queued(a, v) == IF v \in Pinned THEN AllBits ELSE Priority(a, v)
Enqueued(q, a, new) ==
  [v \in VRegs |-> IF new[v] = 0 THEN q[v]
                   ELSE [times |-> q[v].times + new[v], prio |-> Queued(a, v)]]
Staged(a, new) ==
  [a EXCEPT !.stage = [v \in VRegs |-> IF new[v] > 0 /\ @[v] = New
                                       THEN Assign ELSE @[v]]]
Once(S) == [v \in VRegs |-> IF v \in S THEN 1 ELSE 0]
And(new, more) == [v \in VRegs |-> new[v] + more[v]]

-----------------------------------------------------------------------------
(* Assignment and eviction.  A session `s` is the allocator's state with   *)
(* what one `selectOrSplit` passes down: the ranges it recolored (`fixed`),*)
(* what to undo (`undo`, a register each of some had) and how often to     *)
(* queue each after it (`new`).                                            *)

Sessions ==
  [phys: [VRegs -> Regs \cup {None}], stage: [VRegs -> Stages],
   cascade: [VRegs -> Nat], nextCascade: Nat,
   made: SUBSET VRegs, broken: Seq(VRegs),
   fixed: SUBSET VRegs, undo: SUBSET [reg: VRegs, phys: Regs],
   new: [VRegs -> Nat]]

Session(a) ==
  [phys |-> a.phys, stage |-> a.stage, cascade |-> a.cascade,
   nextCascade |-> a.nextCascade, made |-> a.made, broken |-> a.broken,
   fixed |-> {}, undo |-> {}, new |-> Once({})]
KeptOf(s) ==
  [phys |-> s.phys, stage |-> s.stage, cascade |-> s.cascade,
   nextCascade |-> s.nextCascade, made |-> s.made, broken |-> s.broken]
Answer(s, reg) == [s |-> s, reg |-> reg]

RecordBroken(s, v) == [s EXCEPT !.broken = AddOnce(@, {v})]

(* An eviction's cost: hints broken, then the heaviest weight.             *)
MaxCost == [hints |-> 1000000, weight |-> 0]
Less(c, d) == c.hints < d.hints \/ (c.hints = d.hints /\ c.weight < d.weight)

Cascade(s, v) == IF s.cascade[v] = 0 THEN s.nextCascade ELSE s.cascade[v]

IsUrgent(v, w) ==
  /\ ~Spillable(v)
  /\ Spillable(w) \/ Len(prog.order[v]) < Len(prog.order[w])

BreaksHint(s, w) == s.phys[w] = HintReg(s, w)

ShouldEvict(s, v, isHint, w) ==
  \/ s.stage[w] < Spill /\ isHint /\ ~BreaksHint(s, w)
  \/ prog.weight[v] > prog.weight[w]

CanReassign(s, w, from) ==
  \E n \in DOMAIN prog.order[w] :
    prog.order[w][n] # from /\ HoldersOf(s, w, prog.order[w][n]) = {}

EvictionCost(s, v, r) ==
  LET hints(w) == (IF Cascade(s, v) < s.cascade[w] THEN 10 ELSE 0)
                    + (IF BreaksHint(s, w) THEN 1 ELSE 0)
      cost(held) == [hints |-> MapThenSumSet(LAMBDA x : hints(x[2]), held),
                     weight |-> Max({0} \cup {prog.weight[x[2]] : x \in held})]
  IN  cost({x \in UnitsOf[r] \X s.made : x[2] \in Holders(s, v, x[1])})

(* Mutant: spill products can be evicted too.                              *)
CanEvictDone(s, v, r, isHint, limit) ==
  /\ r \notin prog.blocked[v]
  /\ \A w \in HoldersOf(s, v, r) :
       /\ w \notin s.fixed /\ Cascade(s, v) # s.cascade[w]
       /\ IsUrgent(v, w) \/ ShouldEvict(s, v, isHint, w)
       /\ Cascade(s, v) < s.cascade[w] => IsUrgent(v, w)
  /\ HoldersOf(s, v, r) # {} => Less(EvictionCost(s, v, r), limit)

(* `can_evict_interference_based_on_cost`.                                 *)
CanEvict(s, v, r, isHint, limit) ==
  /\ r \notin prog.blocked[v]
  /\ \A u \in UnitsOf[r] : Cardinality(Holders(s, v, u)) < prog.cutoffs.evict
  /\ \A w \in HoldersOf(s, v, r) :
       /\ w \notin s.fixed /\ s.stage[w] # Done
       /\ Cascade(s, v) # s.cascade[w]
       /\ Cascade(s, v) < s.cascade[w] => IsUrgent(v, w)
       /\ \/ IsUrgent(v, w)
          \/ /\ ShouldEvict(s, v, isHint, w)
             /\ limit # MaxCost /\ {v, w} \subseteq prog.local
                  => CanReassign(s, w, r)
  /\ HoldersOf(s, v, r) # {} => Less(EvictionCost(s, v, r), limit)

(* Mutants: what is evicted is not queued; it is given no cascade; a new   *)
(* cascade is not counted.                                                 *)
EvictedUnqueued(s, v, r) == Freed(s, HoldersOf(s, v, r))

EvictedWithoutCascade(s, v, r) ==
  LET gone == HoldersOf(s, v, r)
  IN  [Freed(s, gone) EXCEPT !.new = And(@, Once(gone))]

EvictedUncounted(s, v, r) ==
  LET gone == HoldersOf(s, v, r)
  IN  [Freed(s, gone) EXCEPT
         !.cascade = [w \in VRegs |->
                        IF w \in gone \cup {v} THEN Cascade(s, v) ELSE @[w]],
         !.new = And(@, Once(gone))]

(* `evict_interference`.                                                   *)
Evicted(s, v, r) ==
  LET gone == HoldersOf(s, v, r)
      cascade == Cascade(s, v)
  IN  [Freed(s, gone) EXCEPT
         !.cascade = [w \in VRegs |->
                        IF w \in gone \cup {v} THEN cascade ELSE @[w]],
         !.nextCascade = IF s.cascade[v] = 0 THEN @ + 1 ELSE @,
         !.new = And(@, Once(gone))]

(* `try_assign`: a free register, or the hint where that is cheap to free. *)
Take(s, v, reg) ==
  LET hint == SimpleHint(v).reg
      hints == ToSet(HintRegs(s, v))
  IN  IF reg \in hints \/ hint \notin hints THEN Answer(s, reg)
      ELSE IF CanEvict(s, v, hint, TRUE, [hints |-> 1, weight |-> 0])
      THEN Answer(Evicted(s, v, hint), hint)
      ELSE Answer(RecordBroken(s, v), reg)

TryAssign(s, v) ==
  LET order == Order(s, v)
      free == {n \in DOMAIN order : IsFree(s, v, order[n])}
  IN  IF free = {} THEN Answer(s, None) ELSE Take(s, v, order[Min(free)])

(* `try_find_eviction_candidate`: the cheapest, and a hint at once.        *)
Better(s, v, best, r) ==
  IF best.found \/ ~CanEvict(s, v, r, FALSE, best.cost) THEN best
  ELSE [reg |-> r, cost |-> EvictionCost(s, v, r),
        found |-> r \in ToSet(HintRegs(s, v))]

EvictionCandidate(s, v) ==
  LET order == Order(s, v)
  IN  Loop(Len(order), [reg |-> None, cost |-> MaxCost, found |-> FALSE],
           LAMBDA n, best : Better(s, v, best, order[n])).reg

(* `try_evict` answered r: a hint that is broken may be repaired later.    *)
EvictedFor(s, v, r) ==
  LET hint == SimpleHint(v)
      missed == hint.vreg # NoVReg \/ hint.reg \notin {None, r}
  IN  [Evicted(s, v, r) EXCEPT !.broken = IF missed THEN AddOnce(@, {v}) ELSE @]

Waiting(s, v) ==
  [s EXCEPT !.stage[v] = Split, !.new = And(@, Once({v}))]

(* `SimpleSpiller::spill`: v goes, a tiny range per instruction comes.     *)
Spilled(s, v) ==
  LET products == prog.products[v]
  IN  [s EXCEPT !.made = (@ \ {v}) \cup products,
                !.stage = [w \in VRegs |-> IF w \in products THEN Done ELSE @[w]],
                !.new = And(@, Once(products))]

(* `select_or_split_impl` up to the last chance: Fail where it is needed.  *)
Evict(s, v) ==
  LET r == IF s.stage[v] = Split THEN None ELSE EvictionCandidate(s, v)
  IN  IF r # None THEN Answer(EvictedFor(s, v, r), r)
      ELSE IF s.stage[v] < Split THEN Answer(Waiting(s, v), None)
      ELSE IF s.stage[v] < Done /\ Spillable(v) THEN Answer(Spilled(s, v), None)
      ELSE Answer(s, Fail)

Settled(s, v) ==
  LET tried == TryAssign(s, v)
  IN  IF tried.reg # None \/ s.new # Once({}) THEN tried ELSE Evict(s, v)

-----------------------------------------------------------------------------
(* Last chance recoloring.                                                 *)

(* `may_recolor_all_interferences`.                                        *)
MayRecolor(s, v, r) ==
  /\ \A u \in UnitsOf[r] : Cardinality(Holders(s, v, u)) < prog.cutoffs.interference
  /\ \A w \in HoldersOf(s, v, r) :
       /\ w \notin s.fixed \cup Pinned
       /\ s.stage[w] = Done /\ prog.order[w] = prog.order[v]
            => s.phys[w] # r /\ UnitsOf[s.phys[w]] \cap UnitsOf[r] # {}

(* Whether x is a candidate before w: the unions give them a unit at a     *)
(* time, each unit's from the last to the first.                           *)
Before(s, r, x, w) ==
  LET unit(y) == Min(UnitsOf[s.phys[y]] \cap UnitsOf[r])
  IN  \/ unit(x) < unit(w)
      \/ unit(x) = unit(w) /\ Min(prog.live[x]) > Min(prog.live[w])

(* Each candidate leaves its register, to be undone, and is queued as it   *)
(* was when those before it had left; v is as if it had r.                 *)
Displaced(s, v, r) ==
  LET candidates == HoldersOf(s, v, r)
      at(w) == Freed(s, {x \in candidates : Before(s, r, x, w)})
  IN  [s |-> [Freed(s, candidates) EXCEPT
                !.phys[v] = r,
                !.undo = @ \cup {[reg |-> w, phys |-> s.phys[w]] : w \in candidates},
                !.new = Once({})],
       queue |-> {[prio |-> Priority(at(w), w), reg |-> w] : w \in candidates}]

(* `try_recoloring_candidates`: `deeper` is `select_or_split_impl` one     *)
(* deeper.  A candidate that was spilled ends it too: the interval asked   *)
(* whether it is empty is the one it was before.                           *)
RecoloredOne(x, deeper) ==
  LET first == First(x.queue)
      got == deeper[<<x.s, first.reg>>]
  IN  IF x.reg = Fail THEN x
      ELSE IF got.reg \in {None, Fail}
      THEN [s |-> got.s, queue |-> x.queue, reg |-> Fail]
      ELSE [s |-> [got.s EXCEPT !.phys[first.reg] = got.reg,
                                !.fixed = @ \cup {first.reg}],
            queue |-> x.queue \ {first}, reg |-> None]

Recolored(start, deeper) ==
  Loop(Cardinality(start.queue), [s |-> start.s, queue |-> start.queue, reg |-> None],
       LAMBDA n, x : RecoloredOne(x, deeper))

(* Mutant: what was recolored on the way stays where it was put.           *)
RolledBackNot(s, t, v, r) ==
  [t EXCEPT !.phys[v] = None, !.fixed = s.fixed, !.undo = s.undo]

(* The attempt from s came to t and failed: its ranges have the registers  *)
(* they had, and what it evicted or spilled is left to the caller.         *)
RolledBack(s, t, v, r) ==
  LET undone == t.undo \ s.undo
      had(w) == {e.phys : e \in {x \in undone : x.reg = w /\ w \in t.made}}
      restored(w) == IF had(w) # {} THEN CHOOSE reg \in had(w) : TRUE
                     ELSE IF w = v \/ \E e \in undone : e.reg = w THEN None
                     ELSE t.phys[w]
  IN  [t EXCEPT
         !.phys = [w \in VRegs |-> restored(w)],
         !.fixed = s.fixed,
         !.undo = s.undo,
         !.new = [w \in VRegs |-> IF w \in HoldersOf(s, v, r) THEN s.new[w]
                                  ELSE s.new[w] + @[w]]]

(* `try_last_chance_recoloring`: one register of the order, then all.      *)
Attempt(s, v, r, deeper) ==
  LET got == Recolored(Displaced(s, v, r), deeper)
  IN  IF r \in prog.blocked[v] \/ ~MayRecolor(s, v, r) THEN Answer(s, Fail)
      ELSE IF got.reg = Fail THEN Answer(RolledBack(s, got.s, v, r), Fail)
      ELSE Answer([got.s EXCEPT !.phys[v] = None, !.new = And(s.new, @)], r)

LastChance(s, v, deeper) ==
  LET order == Order(s, v)
  IN  Loop(Len(order), Answer([s EXCEPT !.fixed = @ \cup {v}], Fail),
           LAMBDA n, got : IF got.reg # Fail THEN got
                           ELSE Attempt(got.s, v, order[n], deeper))

(* `select_or_split_impl`, where the last chance may go `levels` deep.     *)
Select(s, v, deeper) ==
  LET got == Settled(s, v)
  IN  IF got.reg = Fail THEN LastChance(s, v, deeper) ELSE got

Calls == Sessions \X VRegs
SelectOrSplit(levels) ==
  Loop(levels, [call \in Calls |-> Settled(call[1], call[2])],
       LAMBDA n, deeper : [call \in Calls |-> Select(call[1], call[2], deeper)])

-----------------------------------------------------------------------------
(* Hint recoloring.                                                        *)

(* `collect_hint_info`: the copies of v whose other end has a register.    *)
OtherEnd(copy, v) == CHOOSE w \in copy.ends : w # v
HeldBy(a, w) == IF prog.pins[w] # None THEN prog.pins[w] ELSE a.phys[w]
HintInfo(a, v) ==
  {n \in DOMAIN prog.copies :
     /\ v \in prog.copies[n].ends
     /\ HeldBy(a, OtherEnd(prog.copies[n], v)) # None}

FreqOf(copies) ==
  Loop(Len(prog.copies), 0,
       LAMBDA n, sum : IF n \in copies THEN sum + prog.copies[n].freq ELSE sum)

BrokenHintFreq(a, v, r) ==
  FreqOf({n \in HintInfo(a, v) : HeldBy(a, OtherEnd(prog.copies[n], v)) # r})

(* Mutant: the comparison is the wrong way.                                *)
MayMoveToWorse(a, v, r) ==
  /\ Contains(prog.order[v], r) /\ IsFree(a, v, r)
  /\ BrokenHintFreq(a, v, a.phys[v]) <= BrokenHintFreq(a, v, r)

(* Whether v, not in r, may be given it.                                   *)
MayMove(a, v, r) ==
  /\ Contains(prog.order[v], r) /\ IsFree(a, v, r)
  /\ BrokenHintFreq(a, v, a.phys[v]) >= BrokenHintFreq(a, v, r)

(* The other ends of v's copies that were not visited, and can be moved.   *)
OthersOf(a, v, visited) ==
  LET others(n) ==
        IF n \in HintInfo(a, v)
        THEN {OtherEnd(prog.copies[n], v)} \ (visited \cup Pinned \cup prog.fixed)
        ELSE {}
  IN  Gathered([n \in DOMAIN prog.copies |-> others(n)])

(* `try_hint_recoloring`: r spreads along the copies, from the last found. *)
HintRecoloredOne(x, r) ==
  LET v == Last(x.todo)
      others == OthersOf(x.a, v, x.visited)
  IN  IF x.todo = <<>> THEN x
      ELSE IF x.a.phys[v] = None \/ (x.a.phys[v] # r /\ ~MayMove(x.a, v, r))
      THEN [x EXCEPT !.todo = Front(@)]
      ELSE [a |-> [x.a EXCEPT !.phys[v] = r],
            todo |-> Front(x.todo) \o others,
            visited |-> x.visited \cup ToSet(others)]

HintRecolored(a, v) ==
  Loop(Cardinality(VRegs), [a |-> a, todo |-> <<v>>, visited |-> {v}],
       LAMBDA n, x : HintRecoloredOne(x, a.phys[v])).a

-----------------------------------------------------------------------------
(* `seed_live_regs`.                                                       *)
Init ==
  /\ \E seed \in Seeds : prog = ProgramOf(seed)
  /\ alloc = Staged([phys |-> [v \in VRegs |-> None],
                     stage |-> [v \in VRegs |-> New],
                     cascade |-> [v \in VRegs |-> 0], nextCascade |-> 1,
                     made |-> prog.values, broken |-> <<>>],
                    Once(prog.values))
  /\ queue = Enqueued([v \in VRegs |-> [times |-> 0, prio |-> 0]], alloc,
                      Once(prog.values))
  /\ failed = {}

(* `allocate_phys_regs`: one turn of its loop, of the first of the queue.  *)
Idle == \A v \in VRegs : queue[v].times = 0

Allocate ==
  /\ ~Idle
  /\ \E v \in {First(Entries(queue)).reg} :
     \E got \in {SelectOrSplit(prog.cutoffs.depth)[<<Session(alloc), v>>]} :
       /\ alloc' = Staged([KeptOf(got.s) EXCEPT
                             !.phys[v] = IF got.reg \in Regs THEN got.reg ELSE @],
                          got.s.new)
       /\ queue' = Enqueued([queue EXCEPT ![v].times = @ - 1], alloc', got.s.new)
       /\ failed' = IF got.reg = Fail THEN failed \cup {v} ELSE failed
  /\ UNCHANGED prog

(* `try_hints_recoloring`: of one range whose hint was missed.             *)
RecolorHint ==
  /\ Idle /\ alloc.broken # <<>>
  /\ LET v == Head(alloc.broken)
         rest == [alloc EXCEPT !.broken = Tail(@)]
     IN  alloc' = IF alloc.phys[v] = None THEN rest ELSE HintRecolored(rest, v)
  /\ UNCHANGED <<prog, queue, failed>>

Next == Allocate \/ RecolorHint

Finished == Idle /\ alloc.broken = <<>>

(* Nothing but its own loop keeps the allocator from its next turn.  This  *)
(* is WF_vars(Next): Next is enabled where Finished is false.              *)
Fairness == []<>Finished \/ []<><<Next>>_vars

Spec == Init /\ [][Next]_vars /\ Fairness

-----------------------------------------------------------------------------
TypeOK ==
  /\ alloc.phys \in [VRegs -> Regs \cup {None}]
  /\ alloc.stage \in [VRegs -> Stages]
  /\ alloc.cascade \in [VRegs -> 0 .. alloc.nextCascade - 1]
  /\ alloc.made \subseteq VRegs /\ alloc.broken \in Seq(VRegs)
  /\ queue \in [VRegs -> [times: Nat, prio: Nat]]
  /\ failed \subseteq VRegs

(* No two ranges live together have a byte of a register in common, and    *)
(* none has a register a call destroys under it.                           *)
NoClash ==
  \A v \in alloc.made : alloc.phys[v] # None =>
    /\ alloc.phys[v] \notin prog.blocked[v]
    /\ Contains(prog.order[v], alloc.phys[v])
    /\ HoldersOf(alloc, v, alloc.phys[v]) = {v}

(* Every range that is left has a register, or is to get one, or is why    *)
(* the allocation is refused: one that had none of these would be read     *)
(* from a register nobody gave it.  And only one of them: "Register        *)
(* already assigned" is asserted of what is queued, and that it is there.  *)
NoneLost ==
  \A v \in VRegs :
    /\ queue[v].times = IF v \in alloc.made \ failed /\ alloc.phys[v] = None
                        THEN 1 ELSE 0
    /\ v \in failed => alloc.phys[v] = None

(* What a spill made, once it has a register, is never left without one:   *)
(* it can neither split nor spill.  Evictions and recolorings on behalf of *)
(* others, taken back or not, are what could take it.                      *)
DoneIsKept ==
  [][\A v \in VRegs : alloc.stage[v] = Done /\ alloc.phys[v] # None
                        => alloc'.phys[v] # None]_vars

(* A range that finds no register leaves the others where they were: each  *)
(* recoloring that failed, at whatever depth, has been taken back.         *)
FailureRestores ==
  [][failed' # failed
       => \A v \in VRegs : alloc'.phys[v] \in {alloc.phys[v], None}]_vars

(* "Recoloring must not raise the cost of the broken copies".              *)
Broken(a, copy) ==
  /\ \A v \in copy.ends : HeldBy(a, v) # None
  /\ \E v \in copy.ends, w \in copy.ends : HeldBy(a, v) # HeldBy(a, w)
BrokenCost(a) == FreqOf({n \in DOMAIN prog.copies : Broken(a, prog.copies[n])})

HintsAreNotWorsened ==
  [][RecolorHint => BrokenCost(alloc') <= BrokenCost(alloc)]_vars

(* The allocation ends: no ranges evict one another for ever, be it for    *)
(* hints, for weight, or because they cannot be spilled.                   *)
Terminates == <>Finished

=============================================================================
