---------------------------- MODULE MCModuleFacts ----------------------------
(* ModuleFacts for TLC.                                                    *)
EXTENDS ModuleFacts

SomeEdits == {{}, {"body"}, {"decl"}, {"body", "place"}}

(* Two states are one where only the names of the versions and the numbers *)
(* of the objects differ: a value counts by where it is not the module's,  *)
(* an object by the places that hold it.                                   *)
Off(k, value) ==
  CASE k = Found -> {f \in Functions : value[f] # module.body[f]}
    [] k = Summaries ->
         [f \in Functions |-> <<value[f].declared = module.decl[f],
                               value[f].found = module.body[f],
                               value[f].tracked = module.decl[Variable]>>]
    [] OTHER -> {g \in Globals : value[g] # module.decl[g]}

(* The last proxy counts only where the next may have to be the same.      *)
Compared == quiet /\ stateless = {} /\ frozen = {}
OfProxy == IF Compared THEN analyses.outer ELSE <<>>

Places(k, at) ==
  {where \in {"results", "dropped"} :
     k \in DOMAIN analyses[where] /\ analyses[where][k].at = at}
  \cup {"outer" : j \in {k} \cap {h \in DOMAIN OfProxy : OfProxy[h] = at}}
  \cup {"declared" : m \in {m \in analyses.made : k = Declarations /\ m.declared.at = at}}
  \cup {"found" : m \in {m \in analyses.made : k = Found /\ m.found.at = at}}

Seen(k, one) == <<Off(k, one.value), Places(k, one.at)>>
SeenIn(held) == [k \in DOMAIN held |-> Seen(k, held[k])]

Current ==
  <<SeenIn(analyses.results), SeenIn(analyses.dropped), DOMAIN OfProxy,
    {[m EXCEPT !.declared = Seen(Declarations, @), !.found = Seen(Found, @)] :
       m \in analyses.made},
    analyses.open, IF analyses.open THEN {} ELSE analyses.edited,
    stateless, frozen, phase, unsaid, next, kept, Compared, edits>>

=============================================================================
