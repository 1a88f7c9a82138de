------------------------------ MODULE Analyses ------------------------------
(***************************************************************************)
(* The analysis cache of one MIR function (llrm-mir, passes.rs): results   *)
(* computed on demand, held until a pass fails to preserve them, and then, *)
(* where the analysis can be brought up to date, kept with the point of    *)
(* the function's history they were true at.                               *)
(*                                                                         *)
(* A result is what it was derived from: for each part of the body it      *)
(* read, itself or through the analysis it builds on, the last change of   *)
(* that part it saw.  A mark is a position in the history, which is what   *)
(* ChangeLog shows marks to be.                                            *)
(***************************************************************************)
EXTENDS Naturals, Sequences, FiniteSets, FiniteSetsExt

CONSTANTS
  Kinds,          (* The analyses.                                         *)
  Facets,         (* The parts of a body they tell apart.                  *)
  Own,            (* What each reads of the body itself, and OuterFacts.   *)
  Dep,            (* The analysis each builds on, or None.                 *)
  None,
  Incremental,    (* Those whose `update` brings an old result up to date. *)
  Skips,          (* Those whose `unaffected` can tell one still true.     *)
  Sound,          (* Those that stay true answers past sound edits.        *)
  NamesValues,    (* Those of them whose results name values.              *)
  CfgOnly,        (* Those that stand whenever the CFG is preserved.       *)
  Cfg,            (* The facet that is the CFG.                            *)
  OuterFacts,     (* What is read through `analyses.outer()`.              *)
  AsksUnreported, (* Whether a pass asks after an edit it has not told.    *)
  Programs        (* Bound: what one behaviour asks for and edits.         *)

ASSUME KindsAssumption ==
  /\ IsFiniteSet(Kinds) /\ None \notin Kinds
  /\ OuterFacts \notin Facets
  /\ Own \in [Kinds -> SUBSET (Facets \cup {OuterFacts})]
  /\ Dep \in [Kinds -> Kinds \cup {None}]
  /\ \E rank \in [Kinds -> 0 .. Cardinality(Kinds)] :
       \A k \in Kinds : Dep[k] # None => rank[Dep[k]] < rank[k]
  /\ Incremental \cup Skips \cup Sound \cup CfgOnly \subseteq Kinds
  /\ NamesValues \subseteq Sound
  /\ AsksUnreported \in BOOLEAN

(* What each of S builds on is in S.                                       *)
WithWhatItBuildsOn(S) == \A k \in S : Dep[k] \in S \cup {None}

(* A behaviour asks for some analyses, and edits some facets, at most      *)
(* `changes` times; the facts around the function have versions up to      *)
(* `outers`.  What an analysis builds on can be asked for too.             *)
ASSUME ProgramsAssumption ==
  \A p \in Programs :
    /\ p \in [asks: SUBSET Kinds, edits: SUBSET Facets,
               changes: Nat, outers: Nat]
    /\ WithWhatItBuildsOn(p.asks)

VARIABLES
  function,   (* [log, from]: its changes, and where its kept log begins.  *)
  analyses,   (* The `Analyses` of the function.                           *)
  pending,    (* The facets edited since a pass last invalidated.          *)
  program     (* What this behaviour asks for and edits.                   *)

vars == <<function, analyses, pending, program>>

(* The analyses k is derived from, itself among them.                      *)
Chain ==
  [k \in Kinds |->
     {d \in Kinds :
        \A S \in SUBSET Kinds : k \in S /\ WithWhatItBuildsOn(S) => d \in S}]

(* What a result reads: each facet with the analysis that reads it.        *)
Sources == [k \in Kinds |-> UNION {{d} \X Own[d] : d \in Chain[k]}]

Reach(k) == {s[2] : s \in Sources[k]}
ReadsOuter(k) == OuterFacts \in Reach(k)

(* No analysis that is kept as exact is kept as sound, or is derived from  *)
(* one that is.                                                            *)
ASSUME SoundAssumption ==
  \A k \in Incremental \cup Skips : Chain[k] \cap Sound = {}

ASSUME CfgAssumption == \A k \in CfgOnly : Reach(k) \subseteq {Cfg}

(* An edit of one facet; a body put in its place changes every one.        *)
Change == [facets: SUBSET Facets, sound: BOOLEAN]

Now == Len(function.log)

(* What is left in the log of the changes since a mark.                    *)
ChangesSince(mark) ==
  {function.log[n] : n \in Max({mark, function.from}) + 1 .. Now}
Touched(mark) == UNION {c.facets : c \in ChangesSince(mark)}

(* The last change of a facet up to position n, and the last that was not  *)
(* sound.                                                                  *)
FormAt(f, n) ==
  Max({0} \cup {i \in 1 .. n : f \in function.log[i].facets})
MeaningAt(f, n) ==
  Max({0} \cup {i \in 1 .. n :
                  f \in function.log[i].facets /\ ~function.log[i].sound})

(* What a derivation made at position n under `outer` finds at a source.   *)
Version(s, n, outer) ==
  IF s[2] = OuterFacts THEN outer ELSE FormAt(s[2], n)

TrueAt(k, n, outer) == [s \in Sources[k] |-> Version(s, n, outer)]
Fresh(k) == TrueAt(k, Now, analyses.outer)

(* Says nothing of a live value that TrueAt(k, n, outer) contradicts.      *)
Covers(k, result, n, outer) ==
  \A s \in Sources[k] :
    IF s[2] = OuterFacts THEN result[s] = outer
    ELSE MeaningAt(s[2], result[s]) = MeaningAt(s[2], n)

Put(held, k, entry) ==
  [x \in DOMAIN held \cup {k} |-> IF x = k THEN entry ELSE held[x]]
Without(held, S) == [x \in DOMAIN held \ S |-> held[x]]
Only(held, S) == [x \in DOMAIN held \cap S |-> held[x]]
Over(new, held) ==
  [x \in DOMAIN held \cup DOMAIN new |->
     IF x \in DOMAIN new THEN new[x] ELSE held[x]]

(* Mutant: an entry is marked after the next edit.                         *)
EntryOfNext(a, result, fromOlder) ==
  [result |-> result, outer |-> a.outer, mark |-> Now + 1, fromOlder |-> fromOlder]

(* An entry for the function as it stands.                                 *)
EntryOf(a, result, fromOlder) ==
  [result |-> result, outer |-> a.outer, mark |-> Now, fromOlder |-> fromOlder]

New(outer) ==
  [cache |-> <<>>, kept |-> <<>>, vouched |-> {}, soft |-> {},
   tainted |-> FALSE, outer |-> outer]

Init ==
  /\ function = [log |-> <<>>, from |-> 0]
  /\ analyses = New(0)
  /\ pending = {}
  /\ program \in Programs

-----------------------------------------------------------------------------
(* Asking.                                                                 *)

(* An entry held from before an edit the pass made since it invalidated,   *)
(* or derived from one.                                                    *)
Older(a, entry) ==
  entry.fromOlder \/ (entry.mark # Now /\ a.vouched # {Now})

(* Mutant: the outer facts are not compared.                               *)
UsableUnderAny(a, k) ==
  k \in DOMAIN a.kept /\ a.kept[k].mark >= function.from

(* A result kept past an invalidation can be used: its changes are still   *)
(* in the log, and the outer facts it read are the ones there are.         *)
Usable(a, k) ==
  /\ k \in DOMAIN a.kept
  /\ a.kept[k].mark >= function.from
  /\ ReadsOuter(k) => a.kept[k].outer = a.outer

(* A result kept as sound still says nothing untrue.  One that names       *)
(* values is brought to those that took their place, if it can be          *)
(* (`remapped`); what it says of them is the same.                         *)
StandsAsSound(a, k, willing) ==
  /\ Usable(a, k) /\ k \in Sound
  /\ \A c \in ChangesSince(a.kept[k].mark) : c.sound
  /\ k \in NamesValues => k \in willing

Unaffected(a, k) ==
  /\ Usable(a, k) /\ k \in Skips
  /\ Touched(a.kept[k].mark) \cap Reach(k) = {}

(* What asking for one analysis leaves behind, of it and of what is asked  *)
(* for it: the entries held after, those derived or replayed (`made`),     *)
(* which of them are soft, which were derived afresh (`hard`), and whether *)
(* one was older than the body (`read_older`, which is of one derivation). *)
Found(held, made, soft, hard, older) ==
  [held |-> held, made |-> made, soft |-> soft, hard |-> hard, older |-> older]

Nothing == Found(<<>>, {}, {}, {}, FALSE)

(* What is held answers.                                                   *)
AsHeld(a, k) == Found(Only(a.cache, {k}), {}, {}, {}, Older(a, a.cache[k]))

(* What was kept answers as it is.                                         *)
AsKept(a, k, soft) ==
  Found(Put(<<>>, k, EntryOf(a, a.kept[k].result, FALSE)), {k}, soft, {}, FALSE)

(* What `run` gives, from what it is given.                                *)
Run(a, k, sub) ==
  [s \in Sources[k] |-> IF s[1] = k THEN Version(s, Now, a.outer)
                        ELSE sub.held[Dep[k]].result[s]]

(* What `update` gives: what `run` does of what the changes touched, if    *)
(* `old` was true of it before them.                                       *)
Updated(a, k, sub) ==
  LET old == a.kept[k]
  IN  [s \in Sources[k] |->
         IF /\ s[2] \in Touched(old.mark)
            /\ old.result[s] = Version(s, old.mark, old.outer)
         THEN Run(a, k, sub)[s] ELSE old.result[s]]

(* k is derived over what was found of what it builds on.                  *)
Derived(a, k, sub, updates) ==
  LET result == IF updates THEN Updated(a, k, sub) ELSE Run(a, k, sub)
      hard == IF updates THEN {} ELSE {k}
  IN  Found(Put(sub.held, k, EntryOf(a, result, sub.older)), sub.made \cup {k},
            sub.soft, sub.hard \cup hard, sub.older)

(* `willing` are the kinds that do not decline to skip, to update or to be *)
(* remapped this time.                                                     *)
Answered(a, willing, k, sub) ==
  CASE k \in DOMAIN a.cache -> AsHeld(a, k)
    [] k \notin DOMAIN a.cache /\ StandsAsSound(a, k, willing) -> AsKept(a, k, {k})
    [] k \notin DOMAIN a.cache /\ ~StandsAsSound(a, k, willing)
         /\ Unaffected(a, k) /\ k \in willing -> AsKept(a, k, {})
    [] OTHER ->
         Derived(a, k, sub, Usable(a, k) /\ k \in Incremental \cap willing)

Asked(a, willing) ==
  LET found[k \in Kinds] ==
        Answered(a, willing, k, IF Dep[k] = None THEN Nothing ELSE found[Dep[k]])
  IN  found

(* `found`: the cache once k was asked of `a`.                             *)
Got(a, k, willing) ==
  LET found == Asked(a, willing)[k]
  IN  [a EXCEPT !.cache = Over(found.held, @),
                !.kept = Without(@, found.made),
                !.soft = (@ \ found.hard) \cup found.soft,
                !.tainted = @ \/ found.soft # {}]

(* The edits since the last invalidation leave k's result true, or it was  *)
(* derived after the last of them.                                         *)
LeftTrue(k) ==
  \/ Reach(k) \cap pending = {}
  \/ k \in DOMAIN analyses.cache /\ analyses.cache[k].mark = Now

(* A pass that asks after an edit asks only for what the edit left true,   *)
(* or tells the cache of the edit first.                                   *)
MayAsk(k) ==
  AsksUnreported \/ \A d \in Chain[k] \cap DOMAIN analyses.cache : LeftTrue(d)

Get(k, willing) ==
  /\ MayAsk(k)
  /\ analyses' = Got(analyses, k, willing)
  /\ UNCHANGED <<function, pending, program>>

(* Mutant: only what is kept is dropped, and not what is held.             *)
HardenedKept(a, k) ==
  [a EXCEPT !.soft = @ \ {k}, !.kept = Without(@, {k} \cap (Sound \ Incremental))]

(* `get_exact`: a result kept as sound is derived again.                   *)
Hardened(a, k) ==
  LET soft == a.soft \cap {k}
  IN  [a EXCEPT !.soft = @ \ soft,
                !.cache = Without(@, soft),
                !.kept = Without(@, {k} \cap (Sound \ Incremental))]

GetExact(k, willing) ==
  /\ MayAsk(k)
  /\ analyses' = Got(Hardened(analyses, k), k, willing)
  /\ UNCHANGED <<function, pending, program>>

-----------------------------------------------------------------------------
(* Giving results up.                                                      *)

(* Mutant: what is kept is marked with where it was given up.              *)
RetiredNow(a, gone) ==
  LET old == Only(a.cache, gone \cap (Incremental \cup Skips \cup Sound))
  IN  [a EXCEPT !.cache = Without(@, gone),
                !.kept = Over([k \in DOMAIN old |-> [old[k] EXCEPT !.mark = Now]], @)]

(* `retire`: what can be brought up to date is kept, the rest dropped.     *)
Retired(a, gone) ==
  [a EXCEPT !.cache = Without(@, gone),
            !.kept = Over(Only(a.cache, gone \cap
                                 (Incremental \cup Skips \cup Sound)), @)]

(* Mutant: what was vouched for once is held for good.                     *)
ForgottenOnce(a) ==
  IF a.vouched # {} THEN a
  ELSE Retired(a, {k \in DOMAIN a.cache : a.cache[k].mark # Now})

(* `forget_unreported`: unless vouched for as the function is now.         *)
Forgotten(a) ==
  IF a.vouched = {Now} THEN a
  ELSE Retired(a, {k \in DOMAIN a.cache : a.cache[k].mark # Now})

(* `ModuleAnalyses::function`, by which a module pass asks.                *)
AskThroughModule(k, willing) ==
  /\ analyses' = Got(Forgotten(analyses), k, willing)
  /\ UNCHANGED <<function, pending, program>>

(* `invalidate`: a pass names what it left true, and what it updated and   *)
(* put back, which is held only if nothing was edited since.               *)
(* (`invalidate_if_edited` is this where something was edited.)            *)
Invalidate(names, cfg, updated) ==
  /\ \A k \in names : LeftTrue(k)
  /\ cfg => Cfg \notin pending
  /\ LET preserved == names \cup updated \cup (IF cfg THEN CfgOnly ELSE {})
         gone == {k \in DOMAIN analyses.cache :
                    \/ k \notin preserved
                    \/ k \in updated /\ analyses.cache[k].mark # Now}
     IN  analyses' = [Retired(analyses, gone) EXCEPT !.vouched = {Now}]
  /\ pending' = {}
  /\ UNCHANGED <<function, program>>

(* `vouch`: what the pass edited left every result held true.              *)
Vouch ==
  /\ \A k \in DOMAIN analyses.cache : LeftTrue(k)
  /\ analyses' = [analyses EXCEPT !.vouched = {Now}]
  /\ pending' = {}
  /\ UNCHANGED <<function, program>>

(* `refresh_soft`, at a named point of the pipeline.                       *)
RefreshSoft ==
  /\ analyses' = [analyses EXCEPT !.cache = Without(@, analyses.soft),
                                  !.kept = Without(@, analyses.soft),
                                  !.soft = {}]
  /\ UNCHANGED <<function, pending, program>>

(* `declared`, or `ModuleAnalyses::manager` given another proxy, be it one *)
(* the results were under before.                                          *)
OuterChanged(outer) ==
  /\ outer # analyses.outer
  /\ analyses' =
       [Retired(analyses, {k \in DOMAIN analyses.cache : ReadsOuter(k)})
          EXCEPT !.outer = outer]
  /\ UNCHANGED <<function, pending, program>>

(* `ModuleAnalyses::changed`: a module pass reports the body it edited.    *)
Changed ==
  /\ analyses' = New(analyses.outer)
  /\ pending' = {}
  /\ UNCHANGED <<function, program>>

-----------------------------------------------------------------------------
(* Results put in, and the function itself.                                *)

(* `replace`: a pass updated the result as its own edits need.             *)
Replace(k) ==
  /\ analyses' = [analyses EXCEPT
                    !.cache = Put(@, k, EntryOf(analyses, Fresh(k), FALSE)),
                    !.kept = Without(@, {k}),
                    !.soft = @ \ {k}]
  /\ UNCHANGED <<function, pending, program>>

(* `seed`: the same of a result worked out elsewhere.                      *)
Seed(k) ==
  /\ analyses' = [analyses EXCEPT
                    !.cache = Put(@, k, EntryOf(analyses, Fresh(k), FALSE))]
  /\ UNCHANGED <<function, pending, program>>

(* The pass edits the body.                                                *)
Edit(facet, sound) ==
  /\ Now < program.changes /\ (sound => facet # Cfg)
  /\ function' = [function EXCEPT
                    !.log = Append(@, [facets |-> {facet}, sound |-> sound])]
  /\ pending' = pending \cup {facet}
  /\ UNCHANGED <<analyses, program>>

(* `take_changes` drains a log grown long.                                 *)
TakeChanges(from) ==
  /\ function.from < from /\ from <= Now
  /\ function' = [function EXCEPT !.from = from]
  /\ UNCHANGED <<analyses, pending, program>>

(* Another body, with a history of its own, takes the function's place: a  *)
(* trial put back.                                                         *)
ReplaceFunction ==
  /\ Now < program.changes
  /\ function' = [log |-> Append(function.log,
                                 [facets |-> Facets, sound |-> FALSE]),
                  from |-> Now + 1]
  /\ pending' = Facets
  /\ UNCHANGED <<analyses, program>>

(* The kinds that may decline to be brought up to date.                    *)
Willing == SUBSET (program.asks \cap (Incremental \cup Skips \cup NamesValues))

(* Whether an edit is sound tells on nothing but what is kept as sound.    *)
SaysSound == program.asks \cap Sound # {}

Next ==
  \/ \E k \in program.asks, willing \in Willing :
       Get(k, willing) \/ GetExact(k, willing) \/ AskThroughModule(k, willing)
  \/ \E names, updated \in SUBSET DOMAIN analyses.cache, cfg \in BOOLEAN :
       Invalidate(names, cfg, updated)
  \/ Vouch \/ RefreshSoft \/ Changed
  \/ \E outer \in 0 .. program.outers : OuterChanged(outer)
  \/ \E k \in program.asks : Replace(k) \/ Seed(k)
  \/ \E facet \in program.edits, sound \in {FALSE, SaysSound} : Edit(facet, sound)
  \/ \E from \in 1 .. program.changes : TakeChanges(from)
  \/ ReplaceFunction

Spec == Init /\ [][Next]_vars

-----------------------------------------------------------------------------
Entries(k) ==
  [result: [Sources[k] -> Nat], outer: Nat, mark: 0 .. Now, fromOlder: BOOLEAN]

TypeOK ==
  /\ function.log \in Seq(Change) /\ function.from \in 0 .. Now
  /\ pending \subseteq Facets
  /\ program \in Programs
  /\ DOMAIN analyses.cache \cup DOMAIN analyses.kept \subseteq program.asks
  /\ \A k \in DOMAIN analyses.cache : analyses.cache[k] \in Entries(k)
  /\ \A k \in DOMAIN analyses.kept : analyses.kept[k] \in Entries(k)
  /\ analyses.soft \subseteq program.asks
  /\ analyses.outer \in 0 .. program.outers
  /\ analyses.vouched \in {{}} \cup {{n} : n \in 0 .. Now}
  /\ analyses.tainted \in BOOLEAN

(* A result the pass's own edits left alone is true of the function as it  *)
(* stands: it says nothing a fresh derivation contradicts, and where       *)
(* nothing was kept as sound it is what a fresh derivation gives.          *)
HeldIsTrue ==
  \A k \in DOMAIN analyses.cache :
    LET result == analyses.cache[k].result
    IN  LeftTrue(k) =>
          /\ Covers(k, result, Now, analyses.outer)
          /\ ~analyses.tainted => result = Fresh(k)

(* A result kept past an invalidation, or held, comes with the point in    *)
(* the function's history it was true at (`Analysis::INCREMENTAL`): what   *)
(* `update`, `unaffected` and a pass that asked `held` take it to be.      *)
TrueAtItsMark ==
  \A k \in Kinds :
    \A entry \in {held[k] : held \in {h \in {analyses.cache, analyses.kept} :
                                        k \in DOMAIN h}} :
      /\ Covers(k, entry.result, entry.mark, entry.outer)
      /\ ~analyses.tainted
           => entry.result = TrueAt(k, entry.mark, entry.outer)

(* What is brought up to date, once a pass has told of its edits, is what  *)
(* `run` gives: what LLRM_CHECK_REPLAY asserts.                            *)
ReplayGivesRun ==
  \A k \in program.asks, willing \in Willing :
    pending = {} /\ Usable(analyses, k) /\ ~analyses.tainted
      => LET a == Got(analyses, k, willing)
         IN  a.cache[k].result = Fresh(k) \/ a.tainted

(* Whatever a module pass edited without saying so, what it asks through   *)
(* `ModuleAnalyses::function` is true of the body as it stands.            *)
AskedIsTrue ==
  \A k \in program.asks, willing \in Willing :
    LET a == Got(Forgotten(analyses), k, willing)
    IN  /\ Covers(k, a.cache[k].result, Now, a.outer)
        /\ ~a.tainted => a.cache[k].result = Fresh(k)

(* `get_exact` of an analysis kept as sound, where what it builds on is    *)
(* not, knows what a fresh derivation knows, whatever was kept since.      *)
ExactIsFresh ==
  \A k \in program.asks, willing \in Willing :
    Chain[k] \cap Sound = {k} /\ MayAsk(k)
      => Got(Hardened(analyses, k), k, willing).cache[k].result = Fresh(k)

=============================================================================
