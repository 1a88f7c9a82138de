------------------------------ MODULE ModuleFacts ------------------------------
(***************************************************************************)
(* The module analyses of one module (llrm-mir, passes.rs:                 *)
(* `ModuleAnalyses`) under the pass manager (`PassManager::over`), and how *)
(* the interprocedural step runs function passes inside a module pass      *)
(* (llrm-transforms, pipeline.rs and walk.rs).                             *)
(*                                                                         *)
(* A result that is given up is kept aside and comes back as the same      *)
(* object if it still says what there is: the functions' analyses stand as *)
(* long as the proxy they read holds the same objects.  To tell that it    *)
(* does, an analysis trusts what passes said they edited, and the objects  *)
(* it was made from; this module is about that trust.                      *)
(*                                                                         *)
(* Three analyses stand for the rest: Declarations, checked against the    *)
(* edits told; Found, each body's accesses (GlobalsModRef, with GlobalsAA),*)
(* always worked out; and Summaries, which reads both and is brought up to *)
(* date.  The others are worked out of the declarations alone and stand as *)
(* long as these do, as Summaries does of its own two.                     *)
(***************************************************************************)
EXTENDS Naturals, FiniteSets, FiniteSetsExt

CONSTANTS
  Count,      (* The functions are 1 .. Count, and Variable is a global.   *)
  Edits,      (* What an edit changes: what a body does, what its global   *)
              (* declares, and whether another global is placed with it.   *)
  MaxEdits    (* Bound: the edits of one behaviour.                        *)

Functions == 1 .. Count
Variable == Count + 1
Globals == 1 .. Variable

Declarations == "Declarations"
Found == "Found"
Summaries == "Summaries"
Kinds == {Declarations, Found, Summaries}

ASSUME EditsAssumption ==
  /\ Count \in Nat \ {0} /\ MaxEdits \in Nat
  /\ Edits \subseteq SUBSET {"body", "decl", "place"}

VARIABLES
  module,     (* What each global declares and what each body does.        *)
  analyses,   (* The `ModuleAnalyses`.                                     *)
  stateless,  (* The analyses made at points and kept (`require_cached`).  *)
  frozen,     (* The analyses held past passes that only remove.           *)
  phase,      (* "pipeline", or in a "module" or a "function" pass.        *)
  unsaid,     (* The globals a module pass edited and has not told of.     *)
  next,       (* The function a function pass runs over next,              *)
  kept,       (* and the results all its runs so far preserved.            *)
  quiet,      (* Nothing was edited since the last proxy.                  *)
  edits       (* The edits made.                                           *)

vars == <<module, analyses, stateless, frozen, phase, unsaid, next, kept, quiet, edits>>

(* What each analysis is of.                                               *)
Reads(k) == CASE k = Declarations -> {"decl", "place"}
              [] k = Found -> {"body"}
              [] k = Summaries -> {"body", "decl", "place"}

Edited(g, what) ==
  [body |-> [module.body EXCEPT ![g] = IF "body" \in what THEN 1 - @ ELSE @],
   decl |-> [h \in Globals |->
               IF \/ h = g /\ "decl" \in what
                  \/ h = Variable /\ "place" \in what
               THEN 1 - module.decl[h] ELSE module.decl[h]]]

Editing(g, what) ==
  /\ what # {} => edits < MaxEdits
  /\ module' = Edited(g, what)
  /\ edits' = IF what = {} THEN edits ELSE edits + 1

Without(held, S) == [k \in DOMAIN held \ S |-> held[k]]
Only(held, S) == [k \in DOMAIN held \cap S |-> held[k]]
Over(one, other) ==
  [k \in DOMAIN one \cup DOMAIN other |-> IF k \in DOMAIN one THEN one[k] ELSE other[k]]
Adding(held, k, x) == Over([j \in {k} |-> x], held)

(* `made` is what the last run of Summaries noted: the objects it read,    *)
(* the bodies logged as edited since, whether `resets` and the log are     *)
(* still those there were.  `outer` is the objects the last proxy holds.   *)
New == [results |-> <<>>, dropped |-> <<>>, edited |-> {}, open |-> TRUE,
        made |-> {}, outer |-> <<>>]

Init ==
  /\ module = [body |-> [g \in Globals |-> 0], decl |-> [g \in Globals |-> 0]]
  /\ analyses = New
  /\ stateless \in {{}, {Found}}
  /\ frozen = {} /\ phase = "pipeline" /\ unsaid = {}
  /\ next = 1 /\ kept = {} /\ quiet = FALSE /\ edits = 0
-----------------------------------------------------------------------------
(* Asking.                                                                 *)

(* The objects of a kind there are, by number; a new one is the first that *)
(* is free.                                                                *)
Numbers(a, k) ==
  {held[k].at : held \in {h \in {a.results, a.dropped} : k \in DOMAIN h}}
    \cup {a.outer[j] : j \in DOMAIN a.outer \cap {k}}
    \cup (IF k = Declarations THEN {m.declared.at : m \in a.made} ELSE {})
    \cup (IF k = Found THEN {m.found.at : m \in a.made} ELSE {})
NewNumber(a, k) == Min((0 .. 5) \ Numbers(a, k))

(* Mutant: what was dropped is not given out again.                        *)
ComputedAnew(a, k, value) ==
  [a EXCEPT !.results = Adding(@, k, [value |-> value, at |-> NewNumber(a, k)]),
            !.dropped = Without(@, {k})]

(* A result worked out: the object that was dropped, if it says the same.  *)
Computed(a, k, value) ==
  LET same == k \in DOMAIN a.dropped /\ a.dropped[k].value = value
  IN  [a EXCEPT !.results = Adding(@, k, IF same THEN a.dropped[k]
                                        ELSE [value |-> value, at |-> NewNumber(a, k)]),
                !.dropped = Without(@, {k})]

(* Mutant: what is given out again is still held as dropped.               *)
RestoredTwice(a, k) == [a EXCEPT !.results = Adding(@, k, a.dropped[k])]

(* A dropped result that `unchanged` says stands.                          *)
Restored(a, k) ==
  [a EXCEPT !.results = Adding(@, k, a.dropped[k]), !.dropped = Without(@, {k})]

(* `Declarations::unchanged`: only what was told edited is looked at,      *)
(* unless anything may have changed.                                       *)
DeclaredAsDropped(a) ==
  /\ Declarations \in DOMAIN a.dropped
  /\ \A g \in IF a.open THEN Globals ELSE a.edited :
       module.decl[g] = a.dropped[Declarations].value[g]

Verified(a) == [a EXCEPT !.open = FALSE, !.edited = {}]

WithDeclarations(a) ==
  IF Declarations \in DOMAIN a.results THEN a
  ELSE IF DeclaredAsDropped(a) THEN Verified(Restored(a, Declarations))
  ELSE Computed(Verified(a), Declarations, module.decl)

(* What GlobalsModRef finds each function to do, of the bodies as they     *)
(* are.  What it finds of callees, and of globals other modules name, is   *)
(* left out: the whole of it is only compared.                             *)
Accesses == [f \in Functions |-> module.body[f]]
WithFound(a) ==
  IF Found \in DOMAIN a.results THEN a ELSE Computed(a, Found, Accesses)

(* `summary_of` a function: of its declaration, of what its body is found  *)
(* to do, and of the variables' declarations.                              *)
SummaryOf(f, declared, found) ==
  [declared |-> declared[f], found |-> found[f], tracked |-> declared[Variable]]

(* Mutant: a pass after which anything may have changed is not minded.     *)
AloneDespiteResets(b, m) == m.sameLog /\ m.found.at = b.results[Found].at

(* Only the bodies logged since the last run can have moved.               *)
Alone(b, m) == m.sameLog /\ ~m.resets /\ m.found.at = b.results[Found].at

(* `Summaries::run`, which takes the last result and brings it up to date: *)
(* `resummarized`, or `summaries_reusing`.                                 *)
Summarized(b) ==
  LET declared == b.results[Declarations].value
      found == b.results[Found].value
      last == b.dropped[Summaries].value
      moved(m) == IF Alone(b, m) THEN m.logged
                  ELSE {f \in Functions :
                          SummaryOf(f, m.declared.value, m.found.value)
                            # SummaryOf(f, declared, found)}
  IN  [f \in Functions |->
         IF \E m \in b.made : Summaries \in DOMAIN b.dropped /\ f \notin moved(m)
         THEN last[f] ELSE SummaryOf(f, module.decl, found)]

WithSummaries(a) ==
  LET b == WithDeclarations(WithFound(a))
      stands == \E m \in b.made : /\ m.declared.at = b.results[Declarations].at
                                  /\ m.found.at = b.results[Found].at
      note == [declared |-> b.results[Declarations], found |-> b.results[Found],
               logged |-> {}, resets |-> FALSE, sameLog |-> TRUE]
  IN  IF Summaries \in DOMAIN a.results THEN a
      ELSE IF Summaries \in DOMAIN b.dropped /\ stands THEN Restored(b, Summaries)
      ELSE Computed([b EXCEPT !.dropped = Without(@, {Summaries}), !.made = {note}],
                    Summaries, Summarized(b))

(* `computed`.                                                             *)
With(a, k) == CASE k = Declarations -> WithDeclarations(a)
                [] k = Found -> WithFound(a)
                [] k = Summaries -> WithSummaries(a)

(* `outer`: the proxy holds the declarations, the summaries the pipeline   *)
(* requires, and the stateless results that were made; with the same       *)
(* objects it is the same proxy.                                           *)
WithOuter(a) ==
  LET b == WithSummaries(WithDeclarations(a))
      holds == {Declarations, Summaries} \cup (stateless \cap DOMAIN b.results)
  IN  [b EXCEPT !.outer = [k \in holds |-> b.results[k].at]]
-----------------------------------------------------------------------------
(* Giving up.                                                              *)

Dropped(a, S) ==
  [a EXCEPT !.results = Without(@, S), !.dropped = Over(Only(a.results, S), @)]

InvalidateBodies(a, preserved) == Dropped(a, Kinds \ (preserved \cup stateless))

Invalidate(a, preserved) ==
  LET b == InvalidateBodies(a, preserved)
  IN  [b EXCEPT !.open = TRUE, !.made = {[m EXCEPT !.resets = TRUE] : m \in @}]

InvalidateLogged(a, preserved) == [InvalidateBodies(a, preserved) EXCEPT !.open = TRUE]

AbandonStateless(a) == Dropped(a, stateless)

(* `changed`, and of `body_edited` what goes before `invalidate_bodies`.   *)
Told(a, S) ==
  [a EXCEPT !.edited = @ \cup S,
            !.made = {[m EXCEPT !.logged = @ \cup (S \cap Functions)] : m \in @}]

(* `over` tells the log alone of a body that moved.                        *)
Logged(a, f, what) ==
  IF "body" \notin what THEN a
  ELSE [a EXCEPT !.made = {[m EXCEPT !.logged = @ \cup {f}] : m \in @}]

Abandoned(a, S) == [a EXCEPT !.results = Without(@, S), !.dropped = Without(@, S)]

(* `carried` and `carrying`, into the analyses of the next run.            *)
Carried(a) ==
  [New EXCEPT !.results = Only(a.results, stateless),
              !.dropped = Over(Without(a.results, stateless), a.dropped),
              !.made = {[m EXCEPT !.sameLog = FALSE] : m \in a.made}]
-----------------------------------------------------------------------------
(* The pass manager.                                                       *)

(* What a pass may say it preserved: what its edit is nothing to.          *)
Honest(what) == {{k \in Kinds : Reads(k) \cap what = {}}, {}}

(* `over` a function pass: the proxy is made, and every function run over. *)
FunctionPass ==
  /\ phase = "pipeline" /\ phase' = "function"
  /\ analyses' = WithOuter(analyses)
  /\ next' = 1 /\ kept' = DOMAIN analyses'.results
  /\ quiet' = TRUE
  /\ UNCHANGED <<module, edits, stateless, frozen, unsaid>>

(* Mutant: what the last run preserved is kept.                            *)
KeptOfLast(preserved) == DOMAIN analyses.results \cap preserved

(* What every run so far preserved.                                        *)
Kept(preserved) == kept \cap preserved

FunctionRun(what, tables) ==
  /\ phase = "function" /\ next \in Functions
  /\ Editing(next, what)
  /\ \E preserved \in Honest(what) : kept' = Kept(preserved)
  /\ tables => "place" \in what
  /\ LET a == Logged(analyses, next, what)
     IN  analyses' = IF tables THEN AbandonStateless(a) ELSE a
  /\ next' = next + 1
  /\ quiet' = (quiet /\ what = {})
  /\ UNCHANGED <<stateless, frozen, phase, unsaid>>

FunctionPassEnds(adds) ==
  /\ phase = "function" /\ next \notin Functions
  /\ phase' = "pipeline"
  /\ analyses' = Invalidate(analyses, kept \cup (IF adds THEN {} ELSE frozen))
  /\ next' = 1 /\ kept' = {}
  /\ UNCHANGED <<module, edits, stateless, frozen, unsaid, quiet>>

ModulePass ==
  /\ phase = "pipeline" /\ phase' = "module"
  /\ UNCHANGED <<module, edits, analyses, stateless, frozen, unsaid, next, kept, quiet>>

(* A module pass asks where it has told of what it edited.                 *)
Ask(k) ==
  /\ phase = "module" /\ unsaid = {}
  /\ analyses' = With(analyses, k)
  /\ UNCHANGED <<module, edits, stateless, frozen, phase, unsaid, next, kept, quiet>>

(* An edit it tells of as it returns.                                      *)
Edit(g, what) ==
  /\ phase = "module" /\ what # {} /\ "place" \notin what
  /\ g = Variable => what = {"decl"}
  /\ Editing(g, what) /\ unsaid' = unsaid \cup {g}
  /\ quiet' = FALSE
  /\ UNCHANGED <<analyses, stateless, frozen, phase, next, kept>>

(* The walk's splice: what `place` adds is told first, then the body.      *)
Splice(f, what) ==
  /\ phase = "module" /\ unsaid = {}
  /\ Editing(f, what)
  /\ LET a == IF "place" \in what THEN Invalidate(analyses, {}) ELSE analyses
     IN  analyses' = InvalidateBodies(Told(a, {f}), {})
  /\ quiet' = FALSE
  /\ UNCHANGED <<stateless, frozen, phase, unsaid, next, kept>>

(* The walk states what a body was found to do on its declaration.         *)
StateAttributes(f) ==
  /\ phase = "module" /\ unsaid = {}
  /\ {"decl"} \in Edits /\ Editing(f, {"decl"})
  /\ analyses' = InvalidateLogged(Told(analyses, {f}), {})
  /\ quiet' = FALSE
  /\ UNCHANGED <<stateless, frozen, phase, unsaid, next, kept>>

(* `rerun`: a function pass over one body.                                 *)
Rerun(f, what, tables) ==
  /\ phase = "module" /\ unsaid = {}
  /\ tables => "place" \in what
  /\ \E preserved \in Honest(what) :
       LET a == InvalidateBodies(Told(WithOuter(analyses), {f}), preserved)
           b == IF tables THEN AbandonStateless(a) ELSE a
       IN  analyses' = IF "place" \in what THEN Invalidate(b, {}) ELSE b
  /\ Editing(f, what)
  /\ quiet' = (what = {})
  /\ UNCHANGED <<stateless, frozen, phase, unsaid, next, kept>>

ModulePassEnds(adds) ==
  /\ phase = "module" /\ phase' = "pipeline"
  /\ analyses' = IF unsaid = {} THEN analyses
                 ELSE Told(Invalidate(analyses, IF adds THEN {} ELSE frozen), unsaid)
  /\ unsaid' = {}
  /\ UNCHANGED <<module, edits, stateless, frozen, next, kept, quiet>>

(* `compute` and `recompute` of a stateless analysis.                      *)
Compute(again) ==
  LET a == IF again THEN Dropped(analyses, {Found}) ELSE analyses
  IN  /\ phase = "pipeline" /\ Found \in stateless
      /\ analyses' = IF Found \in DOMAIN a.results THEN a
                     ELSE InvalidateBodies(WithFound(a), {})
      /\ UNCHANGED <<module, edits, stateless, frozen, phase, unsaid, next, kept, quiet>>

(* `freeze`.                                                               *)
Freeze ==
  /\ phase = "pipeline" /\ frozen' = {Summaries}
  /\ UNCHANGED <<module, edits, analyses, stateless, phase, unsaid, next, kept, quiet>>

(* A program pass comes next, which edits as it will and may abandon what  *)
(* is stateless, and then this module's passes again.                      *)
Carry(g, what, abandon) ==
  /\ phase = "pipeline"
  /\ Editing(g, what)
  /\ analyses' = Carried(IF abandon THEN Abandoned(analyses, stateless) ELSE analyses)
  /\ frozen' = {} /\ quiet' = FALSE
  /\ UNCHANGED <<stateless, phase, unsaid, next, kept>>

Next ==
  \/ FunctionPass \/ ModulePass \/ Freeze
  \/ \E what \in Edits, tables \in BOOLEAN : FunctionRun(what, tables)
  \/ \E adds \in BOOLEAN : FunctionPassEnds(adds) \/ ModulePassEnds(adds)
  \/ \E k \in Kinds : Ask(k)
  \/ \E g \in Globals, what \in Edits : Edit(g, what)
  \/ \E f \in Functions : StateAttributes(f)
  \/ \E f \in Functions, what \in Edits :
       Splice(f, what) \/ \E tables \in BOOLEAN : Rerun(f, what, tables)
  \/ \E again \in BOOLEAN : Compute(again)
  \/ \E f \in Functions, what \in Edits, abandon \in BOOLEAN : Carry(f, what, abandon)

Spec == Init /\ [][Next]_vars
-----------------------------------------------------------------------------
Versions(S) == [S -> 0 .. 1]
Values(k) ==
  CASE k = Declarations -> Versions(Globals)
    [] k = Found -> Versions(Functions)
    [] k = Summaries -> [Functions -> [declared: 0 .. 1, found: 0 .. 1, tracked: 0 .. 1]]

TypeOK ==
  /\ module \in [body: Versions(Globals), decl: Versions(Globals)]
  /\ \A held \in {analyses.results, analyses.dropped} :
       \A k \in DOMAIN held : k \in Kinds /\ held[k].value \in Values(k)
  /\ DOMAIN analyses.results \cap DOMAIN analyses.dropped = {}
  /\ Cardinality(analyses.made) <= 1
  /\ unsaid \subseteq Globals /\ kept \subseteq Kinds /\ next \in 1 .. Count + 1

(* What working k out afresh gives, from the stateless results held.       *)
Fresh(a, k) ==
  LET found == IF Found \in DOMAIN a.results \cap stateless
               THEN a.results[Found].value ELSE Accesses
  IN  CASE k = Declarations -> module.decl
        [] k = Found -> Accesses
        [] k = Summaries -> [f \in Functions |-> SummaryOf(f, module.decl, found)]

(* Between passes every result held is what working it out afresh gives,   *)
(* but for those held on purpose: a result one run of a function pass      *)
(* changed is not kept by what the next run of it preserved (passes.rs:    *)
(* 3208).                                                                  *)
ResultsAreTrue ==
  phase = "pipeline" =>
    \A k \in DOMAIN analyses.results \ (stateless \cup frozen) :
      analyses.results[k].value = Fresh(analyses, k)

(* What is given out again, or brought up to date from the log of edits,   *)
(* is what working it out afresh gives: LLRM_CHECK_MODULES asserts it      *)
(* (passes.rs:2435 and 2450).                                              *)
AnswersAreFresh ==
  phase \in {"pipeline", "module"} /\ unsaid = {} =>
    \A k \in Kinds \ (DOMAIN analyses.results \cap (stateless \cup frozen)) :
      LET a == With(analyses, k) IN a.results[k].value = Fresh(a, k)

(* passes.rs:2619: a proxy made where nothing was edited since the last is *)
(* the same one, whatever was dropped in between; with another, every      *)
(* function's analyses that read it would be given up.                     *)
ProxyIsKept ==
  [][quiet /\ quiet' /\ stateless = {} /\ frozen = {}
       => analyses'.outer = analyses.outer]_vars

=============================================================================
