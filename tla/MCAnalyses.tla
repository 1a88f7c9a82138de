----------------------------- MODULE MCAnalyses -----------------------------
(* Chains of the program's own analyses, for TLC.                          *)
EXTENDS Analyses, TLC

CONSTANTS dominators, accesses, footprints, writes, throughMemory,
          exposedFrames, reads, cfg, calls, memory, other, outerFacts, none

CacheKinds == {dominators, accesses, writes, throughMemory, exposedFrames,
                reads}
CacheOwn == dominators :> {cfg} @@ accesses :> {memory} @@ writes :> {calls}
              @@ throughMemory :> {memory}
              @@ exposedFrames :> {memory, outerFacts} @@ reads :> {other}
CacheDep == dominators :> none @@ accesses :> dominators @@ writes :> none
              @@ throughMemory :> writes @@ exposedFrames :> none
              @@ reads :> none

(* `Accesses` (INCREMENTAL) over the CFG's dominators (INCREMENTAL).       *)
AsksAccesses ==
  [asks |-> {dominators, accesses}, edits |-> {cfg, memory},
   changes |-> 3, outers |-> 0]

(* `ThroughMemory` (SOUND) over `Writes` (SKIPS).                           *)
AsksThroughMemory ==
  [asks |-> {writes, throughMemory}, edits |-> {calls, memory},
   changes |-> 2, outers |-> 0]

(* `ExposedFrames` (INCREMENTAL, SKIPS), of the body and the module's      *)
(* facts.                                                                  *)
AsksFrames ==
  [asks |-> {exposedFrames}, edits |-> {memory, other},
   changes |-> 3, outers |-> 2]

(* `Reads` (SOUND, NAMES_VALUES), the analysis of the tests of these.      *)
AsksReads ==
  [asks |-> {reads}, edits |-> {other}, changes |-> 3, outers |-> 0]

EachInTurn == {AsksAccesses, AsksThroughMemory, AsksFrames, AsksReads}

(* `Writes` over `CallFootprints`, both SKIPS.                             *)
CallKinds == {footprints, writes}
CallOwn == footprints :> {calls} @@ writes :> {}
CallDep == footprints :> none @@ writes :> footprints
AsksWrites ==
  {[asks |-> CallKinds, edits |-> {calls, memory}, changes |-> 1, outers |-> 0]}

=============================================================================
