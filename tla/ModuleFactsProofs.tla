-------------------------- MODULE ModuleFactsProofs --------------------------
(***************************************************************************)
(* The module analyses proved for any number of functions, any edits and   *)
(* any number of them: what is held between passes, what is given out      *)
(* again and what is brought up to date is what working it out afresh      *)
(* gives, and where nothing was edited the proxy is the same.              *)
(*                                                                         *)
(* `Inv` says what each thing kept is good for: an object given up still   *)
(* agrees with the module wherever nobody told of an edit, the summaries   *)
(* are those of the two objects noted with them, and an object's number is *)
(* that of one object.                                                     *)
(***************************************************************************)
EXTENDS ModuleFacts, FiniteSetTheorems, TLAPS

Version == 0 .. 1
Summary == [declared : Version, found : Version, tracked : Version]
Value(k) == CASE k = Declarations -> [Globals -> Version]
              [] k = Found -> [Functions -> Version]
              [] k = Summaries -> [Functions -> Summary]
Object(k) == [value : Value(k), at : Nat]

(* What is held: an object of each of some analyses.                       *)
Holding == {held \in UNION {[S -> UNION {Object(k) : k \in Kinds}] : S \in SUBSET Kinds} :
              \A k \in DOMAIN held : held[k] \in Object(k)}
Note == [declared : Object(Declarations), found : Object(Found),
         logged : SUBSET Functions, resets : BOOLEAN, sameLog : BOOLEAN]
State == [results : Holding, dropped : Holding, edited : SUBSET Globals,
          open : BOOLEAN, made : SUBSET Note,
          outer : UNION {[S -> Nat] : S \in SUBSET Kinds}]

(* A result is held or given up, and the summaries have one note.          *)
Shaped(a) ==
  /\ a \in State
  /\ DOMAIN a.results \cap DOMAIN a.dropped = {}
  /\ \A m, n \in a.made : m = n

(* An object is the one of its number.                                     *)
Objects(a, k) ==
  {a.results[j] : j \in DOMAIN a.results \cap {k}}
    \cup {a.dropped[j] : j \in DOMAIN a.dropped \cap {k}}
    \cup (IF k = Declarations THEN {m.declared : m \in a.made} ELSE {})
    \cup (IF k = Found THEN {m.found : m \in a.made} ELSE {})
OneEach(a) ==
  \A k \in Kinds : \A x, y \in Objects(a, k) : x.at = y.at => x = y

(* The summaries, held or given up, are those of what was noted.           *)
SummariesOf(declared, found) == [f \in Functions |-> SummaryOf(f, declared, found)]
AsNoted(a) ==
  \A held \in {a.results, a.dropped} : Summaries \in DOMAIN held =>
    /\ a.made # {}
    /\ \A m \in a.made :
         held[Summaries].value = SummariesOf(m.declared.value, m.found.value)

AccessesIn(mod) == [f \in Functions |-> mod.body[f]]
FoundNow(mod, a) ==
  IF Found \in DOMAIN a.results \cap stateless THEN a.results[Found].value
  ELSE AccessesIn(mod)

(* Of the analyses S, what is held is true of the module.                  *)
TrueOf(mod, a, S) ==
  /\ Declarations \in S \cap DOMAIN a.results => a.results[Declarations].value = mod.decl
  /\ Found \in (S \cap DOMAIN a.results) \ stateless => a.results[Found].value = AccessesIn(mod)
  /\ Summaries \in S \cap DOMAIN a.results =>
       \A m \in a.made : m.declared.value = mod.decl /\ m.found.value = FoundNow(mod, a)

(* What was given up, and what the summaries were made from, agree with    *)
(* the module but for what was told edited.                                *)
Agrees(value, mod, S) == \A g \in Globals \ S : value[g] = mod.decl[g]
ToldOf(mod, a) ==
  /\ Declarations \in DOMAIN a.dropped /\ ~a.open
       => Agrees(a.dropped[Declarations].value, mod, a.edited)
  /\ \A m \in a.made : m.sameLog /\ ~m.resets => Agrees(m.declared.value, mod, m.logged)

Consistent(a) == Shaped(a) /\ OneEach(a) /\ AsNoted(a)
Good(mod, a) == Consistent(a) /\ TrueOf(mod, a, Kinds \ frozen) /\ ToldOf(mod, a)

(* Where nothing is kept on purpose the summaries held are of the objects  *)
(* held.                                                                   *)
IsAt(a, k, at) == k \in DOMAIN a.results /\ a.results[k].at = at
Matched(a) ==
  Summaries \in DOMAIN a.results =>
    \A m \in a.made : IsAt(a, Declarations, m.declared.at) /\ IsAt(a, Found, m.found.at)

(* An object held, or to be given out again as it is true.                 *)
Has(a, k, at) == IsAt(a, k, at) \/ (k \in DOMAIN a.dropped /\ a.dropped[k].at = at)
Repeats(mod, a) ==
  /\ DOMAIN a.outer = {Declarations, Summaries}
  /\ \E m \in a.made :
       /\ m.declared.value = mod.decl /\ m.found.value = AccessesIn(mod)
       /\ a.outer[Declarations] = m.declared.at
       /\ Has(a, Declarations, m.declared.at) /\ Has(a, Found, m.found.at)
       /\ Has(a, Summaries, a.outer[Summaries])

Controls ==
  /\ module \in [body : [Globals -> Version], decl : [Globals -> Version]]
  /\ stateless \in {{}, {Found}} /\ frozen \in {{}, {Summaries}}
  /\ phase \in {"pipeline", "module", "function"}
  /\ unsaid \subseteq Globals /\ (unsaid # {} => phase = "module")
  /\ next \in 1 .. Count + 1 /\ kept \subseteq Kinds
  /\ quiet \in BOOLEAN /\ edits \in Nat

Inv ==
  /\ Controls
  /\ Consistent(analyses)
  /\ phase \in {"pipeline", "module"} /\ unsaid = {} => Good(module, analyses)
  /\ phase = "function" => TrueOf(module, analyses, kept \ frozen)
  /\ stateless = {} /\ frozen = {} =>
       /\ Matched(analyses)
       /\ phase = "function" /\ Summaries \in kept => kept = Kinds
  /\ stateless = {} /\ frozen = {} /\ quiet => Repeats(module, analyses) /\ unsaid = {}
-----------------------------------------------------------------------------
(* What is held.                                                           *)
LEMMA ValueIs ==
  /\ Value(Found) = [Functions -> Version]
  /\ Value(Summaries) = [Functions -> Summary]
  /\ Value(Declarations) = [Globals -> Version]
  /\ Object(Found) = [value : [Functions -> Version], at : Nat]
  /\ Object(Summaries) = [value : [Functions -> Summary], at : Nat]
  /\ Object(Declarations) = [value : [Globals -> Version], at : Nat]
<1>1. /\ Value(Found) = [Functions -> Version]
      /\ Value(Summaries) = [Functions -> Summary]
      /\ Value(Declarations) = [Globals -> Version]
  BY DEF Value, Found, Summaries, Declarations
<1> QED
  BY <1>1 DEF Object

LEMMA HoldingIs ==
  ASSUME NEW held \in Holding
  PROVE  /\ DOMAIN held \subseteq Kinds
         /\ \A k \in DOMAIN held : held[k] \in Object(k)
         /\ held = [k \in DOMAIN held |-> held[k]]
BY DEF Holding

LEMMA IsHolding ==
  ASSUME NEW S \in SUBSET Kinds, NEW held, held = [k \in S |-> held[k]],
         \A k \in S : held[k] \in Object(k)
  PROVE  held \in Holding
<1>1. DOMAIN held = S
  OBVIOUS
<1>2. held \in [S -> UNION {Object(k) : k \in Kinds}]
  OBVIOUS
<1> QED
  BY <1>1, <1>2 DEF Holding

LEMMA NothingHeld ==
  <<>> \in Holding /\ DOMAIN <<>> = {}
<1>1. DOMAIN <<>> = {} /\ <<>> = [k \in {} |-> <<>>[k]]
  OBVIOUS
<1> QED
  BY <1>1, IsHolding

LEMMA WithoutIs ==
  ASSUME NEW held \in Holding, NEW S
  PROVE  /\ Without(held, S) \in Holding
         /\ DOMAIN Without(held, S) = DOMAIN held \ S
         /\ \A k \in DOMAIN held \ S : Without(held, S)[k] = held[k]
<1>1. /\ Without(held, S) = [k \in DOMAIN held \ S |-> held[k]]
      /\ DOMAIN held \ S \in SUBSET Kinds
      /\ \A k \in DOMAIN held \ S : held[k] \in Object(k)
  BY HoldingIs DEF Without
<1> QED
  BY <1>1, IsHolding

LEMMA OnlyIs ==
  ASSUME NEW held \in Holding, NEW S
  PROVE  /\ Only(held, S) \in Holding
         /\ DOMAIN Only(held, S) = DOMAIN held \cap S
         /\ \A k \in DOMAIN held \cap S : Only(held, S)[k] = held[k]
<1>1. /\ Only(held, S) = [k \in DOMAIN held \cap S |-> held[k]]
      /\ DOMAIN held \cap S \in SUBSET Kinds
      /\ \A k \in DOMAIN held \cap S : held[k] \in Object(k)
  BY HoldingIs DEF Only
<1> QED
  BY <1>1, IsHolding

LEMMA BothIs ==
  ASSUME NEW one \in Holding, NEW other \in Holding
  PROVE  /\ Over(one, other) \in Holding
         /\ DOMAIN Over(one, other) = DOMAIN one \cup DOMAIN other
         /\ \A k \in DOMAIN one : Over(one, other)[k] = one[k]
         /\ \A k \in DOMAIN other \ DOMAIN one : Over(one, other)[k] = other[k]
<1> DEFINE both == Over(one, other)
<1>1. /\ both = [k \in DOMAIN one \cup DOMAIN other |->
                   IF k \in DOMAIN one THEN one[k] ELSE other[k]]
      /\ DOMAIN one \cup DOMAIN other \in SUBSET Kinds
  BY HoldingIs DEF Over
<1>2. \A k \in DOMAIN one \cup DOMAIN other : both[k] \in Object(k)
  BY <1>1, HoldingIs
<1> HIDE DEF both
<1>3. both \in Holding
  BY <1>1, <1>2, IsHolding
<1> QED
  BY <1>1, <1>3 DEF both

LEMMA AddedIs ==
  ASSUME NEW held \in Holding, NEW k \in Kinds, NEW x \in Object(k)
  PROVE  /\ Adding(held, k, x) \in Holding
         /\ DOMAIN Adding(held, k, x) = DOMAIN held \cup {k}
         /\ Adding(held, k, x)[k] = x
         /\ \A j \in DOMAIN held \ {k} : Adding(held, k, x)[j] = held[j]
<1> DEFINE one == [j \in {k} |-> x]
<1>1. DOMAIN one = {k} /\ one[k] = x /\ one = [j \in {k} |-> one[j]]
  OBVIOUS
<1> HIDE DEF one
<1>2. one \in Holding
  BY <1>1, IsHolding
<1> QED
  BY <1>1, <1>2, BothIs DEF one, Adding
-----------------------------------------------------------------------------
(* Objects and their numbers.                                              *)
LEMMA LeastOf ==
  ASSUME NEW S \in SUBSET Nat, S # {}
  PROVE  Min(S) \in S
<1>1. PICK x \in S : \A y \in S : ~(<<y, x>> \in OpToRel(<, Nat))
  BY NatLessThanWellFounded, WFMin, Zenon
<1>2. ASSUME NEW y \in S PROVE x <= y
  <2>1. <<y, x>> \in Nat \X Nat /\ <<y, x>>[1] = y /\ <<y, x>>[2] = x
    OBVIOUS
  <2>2. y < x => <<y, x>> \in OpToRel(<, Nat)
    BY <2>1 DEF OpToRel
  <2>3. ~(y < x)
    BY <1>1, <2>2, Zenon
  <2>4. x \in Nat /\ y \in Nat
    OBVIOUS
  <2> QED
    BY <2>3, <2>4, SMT
<1> QED
  BY <1>2 DEF Min

LEMMA FewNumbers ==
  ASSUME NEW a, Shaped(a), NEW k
  PROVE  \E p, q, r, s : Numbers(a, k) \subseteq {p, q, r, s}
<1> DEFINE noted == (IF k = Declarations THEN {m.declared.at : m \in a.made} ELSE {})
                      \cup (IF k = Found THEN {m.found.at : m \in a.made} ELSE {})
<1>1. \E s : noted \subseteq {s}
  <2>1. CASE a.made = {}
    BY <2>1
  <2>2. CASE a.made # {}
    <3>1. PICK m \in a.made : \A n \in a.made : n = m
      BY <2>2 DEF Shaped
    <3>2. Declarations # Found
      BY DEF Declarations, Found
    <3>3. noted \subseteq {m.declared.at} \/ noted \subseteq {m.found.at}
      BY <3>1, <3>2
    <3> QED
      BY <3>3
  <2> QED
    BY <2>1, <2>2
<1>2. PICK s : noted \subseteq {s}
  BY <1>1
<1>3. Numbers(a, k) \subseteq {a.results[k].at, a.dropped[k].at, a.outer[k]} \cup noted
  BY DEF Numbers
<1> HIDE DEF noted
<1>4. Numbers(a, k) \subseteq {a.results[k].at, a.dropped[k].at, a.outer[k], s}
  BY <1>2, <1>3
<1> QED
  BY <1>4

LEMMA NewNumberIs ==
  ASSUME NEW a, Shaped(a), NEW k
  PROVE  NewNumber(a, k) \in Nat /\ NewNumber(a, k) \notin Numbers(a, k)
<1>1. PICK p, q, r, s : Numbers(a, k) \subseteq {p, q, r, s}
  BY FewNumbers
<1> DEFINE free == (0 .. 5) \ Numbers(a, k)
<1>2. \E n \in 0 .. 4 : n \notin {p, q, r, s}
  <2> SUFFICES ASSUME {0, 1, 2, 3, 4} \subseteq {p, q, r, s} PROVE FALSE
    OBVIOUS
  <2> QED
    OBVIOUS
<1>3. free # {} /\ free \in SUBSET Nat
  BY <1>1, <1>2
<1>4. Min(free) \in free
  BY <1>3, LeastOf
<1> QED
  BY <1>3, <1>4 DEF NewNumber

LEMMA ObjectsAreNumbered ==
  ASSUME NEW a, NEW k, NEW x \in Objects(a, k)
  PROVE  x.at \in Numbers(a, k)
<1>1. CASE x \in {a.results[j] : j \in DOMAIN a.results \cap {k}}
  BY <1>1 DEF Numbers
<1>2. CASE x \in {a.dropped[j] : j \in DOMAIN a.dropped \cap {k}}
  BY <1>2 DEF Numbers
<1>3. CASE k = Declarations /\ x \in {m.declared : m \in a.made}
  BY <1>3 DEF Numbers
<1>4. CASE k = Found /\ x \in {m.found : m \in a.made}
  BY <1>4 DEF Numbers
<1> QED
  BY <1>1, <1>2, <1>3, <1>4 DEF Objects

(* b is a with an object of k held: one there was, or a new one.           *)
Gives(a, b, k) ==
  /\ b \in State
  /\ DOMAIN b.results = DOMAIN a.results \cup {k}
  /\ \A j \in DOMAIN a.results \ {k} : b.results[j] = a.results[j]
  /\ DOMAIN b.dropped = DOMAIN a.dropped \ {k}
  /\ \A j \in DOMAIN b.dropped : b.dropped[j] = a.dropped[j]
  /\ b.made = a.made /\ b.outer = a.outer
  /\ b.results[k] \in Objects(a, k) \/ b.results[k].at \notin Numbers(a, k)

LEMMA GivingIsConsistent ==
  ASSUME NEW a, NEW b, NEW k \in Kinds, Shaped(a), OneEach(a), Gives(a, b, k)
  PROVE  Shaped(b) /\ OneEach(b)
<1>1. Shaped(b)
  BY DEF Shaped, Gives
<1>2. ASSUME NEW j \in Kinds, NEW x \in Objects(b, j)
      PROVE  x \in Objects(a, j) \/ (j = k /\ x = b.results[k])
  BY <1>2 DEF Objects, Gives
<1>3. ASSUME NEW j \in Kinds, NEW x \in Objects(b, j), NEW y \in Objects(b, j), x.at = y.at
      PROVE  x = y
  BY <1>2, <1>3, ObjectsAreNumbered DEF Gives, OneEach
<1> QED
  BY <1>1, <1>3 DEF OneEach

LEMMA GivingKeepsNoted ==
  ASSUME NEW a, NEW b, NEW k \in Kinds \ {Summaries}, AsNoted(a), Gives(a, b, k)
  PROVE  AsNoted(b)
BY DEF AsNoted, Gives

LEMMA RestoredGives ==
  ASSUME NEW a, NEW k \in DOMAIN a.dropped, Shaped(a)
  PROVE  LET b == Restored(a, k)
         IN  /\ Gives(a, b, k) /\ b.results[k] = a.dropped[k]
             /\ b.open = a.open /\ b.edited = a.edited
<1> DEFINE results == Adding(a.results, k, a.dropped[k])
           dropped == Without(a.dropped, {k})
           b == Restored(a, k)
<1>1. a \in State /\ a.results \in Holding /\ a.dropped \in Holding
  BY DEF Shaped, State
<1>2. k \in Kinds /\ a.dropped[k] \in Object(k)
  BY <1>1, HoldingIs
<1>3. /\ results \in Holding /\ DOMAIN results = DOMAIN a.results \cup {k}
      /\ results[k] = a.dropped[k]
      /\ \A j \in DOMAIN a.results \ {k} : results[j] = a.results[j]
  BY <1>1, <1>2, AddedIs
<1>4. /\ dropped \in Holding /\ DOMAIN dropped = DOMAIN a.dropped \ {k}
      /\ \A j \in DOMAIN a.dropped \ {k} : dropped[j] = a.dropped[j]
  BY <1>1, WithoutIs, Zenon
<1>5. b = [a EXCEPT !.results = results, !.dropped = dropped]
  BY DEF Restored
<1> HIDE DEF results, dropped, b
<1>6. /\ b \in State /\ b.results = results /\ b.dropped = dropped /\ b.made = a.made
      /\ b.outer = a.outer /\ b.open = a.open /\ b.edited = a.edited
  BY <1>1, <1>3, <1>4, <1>5 DEF State
<1>7. a.dropped[k] \in Objects(a, k)
  BY DEF Objects
<1>8. Gives(a, b, k)
  BY <1>3, <1>4, <1>6, <1>7 DEF Gives
<1> QED
  BY <1>3, <1>6, <1>8 DEF b

LEMMA ComputedGives ==
  ASSUME NEW a, NEW k \in Kinds, Shaped(a), NEW value \in Value(k)
  PROVE  LET b == Computed(a, k, value)
         IN  /\ Gives(a, b, k) /\ b.results[k].value = value
             /\ b.open = a.open /\ b.edited = a.edited
             /\ k \in DOMAIN a.dropped /\ a.dropped[k].value = value
                  => b.results[k] = a.dropped[k]
<1> DEFINE same == k \in DOMAIN a.dropped /\ a.dropped[k].value = value
           new == [value |-> value, at |-> NewNumber(a, k)]
           x == IF same THEN a.dropped[k] ELSE new
           results == Adding(a.results, k, x)
           dropped == Without(a.dropped, {k})
           b == Computed(a, k, value)
<1>1. a \in State /\ a.results \in Holding /\ a.dropped \in Holding
  BY DEF Shaped, State
<1>2. x \in Object(k) /\ x.value = value
  <2>1. new \in Object(k)
    BY NewNumberIs DEF Object
  <2> QED
    BY <1>1, <2>1, HoldingIs
<1>3. x \in Objects(a, k) \/ x.at \notin Numbers(a, k)
  <2>1. same => x \in Objects(a, k)
    BY DEF Objects
  <2> QED
    BY <2>1, NewNumberIs
<1>4. b = [a EXCEPT !.results = results, !.dropped = dropped]
  BY DEF Computed
<1>5. same => x = a.dropped[k]
  OBVIOUS
<1> HIDE DEF x, b
<1>6. /\ results \in Holding /\ DOMAIN results = DOMAIN a.results \cup {k}
      /\ results[k] = x
      /\ \A j \in DOMAIN a.results \ {k} : results[j] = a.results[j]
  BY <1>1, <1>2, AddedIs
<1>7. /\ dropped \in Holding /\ DOMAIN dropped = DOMAIN a.dropped \ {k}
      /\ \A j \in DOMAIN a.dropped \ {k} : dropped[j] = a.dropped[j]
  BY <1>1, WithoutIs, Zenon
<1> HIDE DEF results, dropped
<1>8. /\ b \in State /\ b.results = results /\ b.dropped = dropped /\ b.made = a.made
      /\ b.outer = a.outer /\ b.open = a.open /\ b.edited = a.edited
  BY <1>1, <1>4, <1>6, <1>7 DEF State
<1>9. Gives(a, b, k)
  BY <1>3, <1>6, <1>7, <1>8 DEF Gives
<1> QED
  BY <1>2, <1>5, <1>6, <1>8, <1>9 DEF b
-----------------------------------------------------------------------------
(* Asking.                                                                 *)
LEMMA KindsDiffer ==
  /\ Declarations # Found /\ Declarations # Summaries /\ Found # Summaries
  /\ Kinds = {Declarations, Found, Summaries}
BY DEF Declarations, Found, Summaries, Kinds

LEMMA GlobalsAre ==
  /\ Count \in Nat \ {0} /\ Functions \subseteq Globals
  /\ Variable \in Globals /\ Variable \notin Functions
BY EditsAssumption DEF Functions, Globals, Variable

LEMMA ModuleTyped ==
  ASSUME Controls
  PROVE  /\ module.decl \in Value(Declarations)
         /\ AccessesIn(module) \in Value(Found) /\ Accesses = AccessesIn(module)
BY ValueIs, GlobalsAre DEF Controls, AccessesIn, Accesses

(* What is found of the module now, of an analysis that is not of others.  *)
Now(mod, k) == IF k = Declarations THEN mod.decl ELSE AccessesIn(mod)

LEMMA GivingKeepsGood ==
  ASSUME NEW a, NEW b, NEW k \in {Declarations, Found}, k \notin DOMAIN a.results,
         Good(module, a), Gives(a, b, k), b.results[k].value = Now(module, k),
         ToldOf(module, b), frozen \in {{}, {Summaries}}
  PROVE  Good(module, b)
<1>1. k \in Kinds \ {Summaries}
  BY KindsDiffer
<1>2. Consistent(b)
  BY <1>1, GivingIsConsistent, GivingKeepsNoted DEF Good, Consistent
<1>3. FoundNow(module, b) = FoundNow(module, a)
  BY KindsDiffer DEF FoundNow, Gives, Now
<1>4. Declarations \in DOMAIN b.results => b.results[Declarations].value = module.decl
  BY KindsDiffer DEF Gives, Now, Good, TrueOf
<1>5. Found \in DOMAIN b.results \ stateless => b.results[Found].value = AccessesIn(module)
  BY KindsDiffer DEF Gives, Now, Good, TrueOf
<1>6. Summaries \in (Kinds \ frozen) \cap DOMAIN b.results =>
        \A m \in b.made : m.declared.value = module.decl
                          /\ m.found.value = FoundNow(module, b)
  BY <1>1, <1>3 DEF Gives, Good, TrueOf
<1> QED
  BY <1>2, <1>4, <1>5, <1>6 DEF Good, TrueOf

LEMMA WithDeclarationsIs ==
  ASSUME Controls, NEW a, Good(module, a)
  PROVE  LET b == WithDeclarations(a)
         IN  /\ Good(module, b)
             /\ \/ b = a
                \/ Declarations \notin DOMAIN a.results /\ Gives(a, b, Declarations)
             /\ Declarations \in DOMAIN b.results
             /\ b.results[Declarations].value = module.decl
             /\ Declarations \in DOMAIN a.dropped
                  /\ a.dropped[Declarations].value = module.decl
                  => b.results[Declarations] = a.dropped[Declarations]
<1> DEFINE b == WithDeclarations(a)
           given == IF DeclaredAsDropped(a) THEN Restored(a, Declarations)
                    ELSE Computed(Verified(a), Declarations, module.decl)
<1> USE KindsDiffer
<1>0. Shaped(a) /\ a \in State
  BY DEF Good, Consistent, Shaped
<1>1. CASE Declarations \in DOMAIN a.results
  <2>1. b = a /\ Declarations \notin DOMAIN a.dropped
    BY <1>0, <1>1 DEF WithDeclarations, Shaped
  <2>2. a.results[Declarations].value = module.decl
    BY <1>1 DEF Good, TrueOf, Controls
  <2> QED
    BY <1>1, <2>1, <2>2
<1>2. CASE Declarations \notin DOMAIN a.results /\ DeclaredAsDropped(a)
  <2> DEFINE r == Restored(a, Declarations)
  <2>1. b = Verified(r)
    BY <1>2 DEF WithDeclarations
  <2>2. Gives(a, r, Declarations) /\ r.results[Declarations] = a.dropped[Declarations]
    BY <1>0, <1>2, RestoredGives DEF DeclaredAsDropped
  <2> HIDE DEF r
  <2>3. /\ b \in State /\ b.results = r.results /\ b.dropped = r.dropped
        /\ b.made = r.made /\ b.outer = r.outer /\ b.open = FALSE /\ b.edited = {}
    BY <2>1, <2>2 DEF Verified, Gives, State
  <2> HIDE DEF b
  <2>4. Gives(a, b, Declarations)
    BY <2>2, <2>3 DEF Gives
  <2>5. a.dropped[Declarations].value = module.decl
    <3>1. a.dropped[Declarations].value \in [Globals -> Version]
      <4>1. a.dropped \in Holding /\ Declarations \in DOMAIN a.dropped
        BY <1>0, <1>2 DEF DeclaredAsDropped, State
      <4>2. a.dropped[Declarations] \in Object(Declarations)
        BY <4>1, HoldingIs
      <4> QED
        BY <4>2, ValueIs
    <3>2. module.decl \in [Globals -> Version]
      BY DEF Controls
    <3>3. ASSUME NEW g \in Globals PROVE a.dropped[Declarations].value[g] = module.decl[g]
      BY <1>2 DEF DeclaredAsDropped, Good, ToldOf, Agrees
    <3> QED
      BY <3>1, <3>2, <3>3
  <2>6. b.results[Declarations].value = Now(module, Declarations)
    BY <2>2, <2>3, <2>5 DEF Now
  <2>7. ToldOf(module, b)
    BY <2>4 DEF Gives, ToldOf, Good
  <2>8. Good(module, b)
    BY <1>2, <2>4, <2>6, <2>7, GivingKeepsGood DEF Controls
  <2> QED
    BY <1>2, <2>2, <2>3, <2>4, <2>6, <2>8 DEF Now, b, Gives
<1>3. CASE Declarations \notin DOMAIN a.results /\ ~DeclaredAsDropped(a)
  <2> DEFINE v == Verified(a)
  <2>1. b = Computed(v, Declarations, module.decl)
    BY <1>3 DEF WithDeclarations
  <2>2. /\ v \in State /\ v.results = a.results /\ v.dropped = a.dropped
        /\ v.made = a.made /\ v.outer = a.outer
    BY <1>0 DEF Verified, State
  <2> HIDE DEF v, b
  <2>3. Shaped(v)
    BY <1>0, <2>2 DEF Shaped
  <2>4. /\ Gives(v, b, Declarations) /\ b.results[Declarations].value = module.decl
        /\ Declarations \in DOMAIN v.dropped
             /\ v.dropped[Declarations].value = module.decl
             => b.results[Declarations] = v.dropped[Declarations]
    BY <2>1, <2>3, ComputedGives, ModuleTyped, Zenon
  <2>5. Objects(v, Declarations) = Objects(a, Declarations)
        /\ Numbers(v, Declarations) = Numbers(a, Declarations)
    BY <2>2 DEF Objects, Numbers
  <2>6. Gives(a, b, Declarations)
    BY <2>2, <2>4, <2>5 DEF Gives
  <2>7. ToldOf(module, b)
    BY <2>6 DEF Gives, ToldOf, Good
  <2>8. Good(module, b)
    BY <1>3, <2>4, <2>6, <2>7, GivingKeepsGood DEF Controls, Now
  <2> QED
    BY <1>3, <2>2, <2>4, <2>6, <2>8 DEF b, Gives
<1> QED
  BY <1>1, <1>2, <1>3

LEMMA WithFoundIs ==
  ASSUME Controls, NEW a, Good(module, a)
  PROVE  LET b == WithFound(a)
         IN  /\ Good(module, b)
             /\ \/ b = a
                \/ Found \notin DOMAIN a.results /\ Gives(a, b, Found)
             /\ Found \in DOMAIN b.results
             /\ b.results[Found].value = FoundNow(module, a)
             /\ Found \in DOMAIN a.dropped /\ a.dropped[Found].value = AccessesIn(module)
                  => b.results[Found] = a.dropped[Found]
<1> DEFINE b == WithFound(a)
<1> USE KindsDiffer
<1>0. Shaped(a) /\ a \in State
  BY DEF Good, Consistent, Shaped
<1>1. CASE Found \in DOMAIN a.results
  <2>1. b = a /\ Found \notin DOMAIN a.dropped
    BY <1>0, <1>1 DEF WithFound, Shaped
  <2>2. a.results[Found].value = FoundNow(module, a)
    BY <1>1 DEF Good, TrueOf, Controls, FoundNow
  <2> QED
    BY <1>1, <2>1, <2>2
<1>2. CASE Found \notin DOMAIN a.results
  <2>1. b = Computed(a, Found, AccessesIn(module))
    BY <1>2, ModuleTyped DEF WithFound
  <2> HIDE DEF b
  <2>2. /\ Gives(a, b, Found) /\ b.results[Found].value = AccessesIn(module)
        /\ b.open = a.open /\ b.edited = a.edited
        /\ Found \in DOMAIN a.dropped /\ a.dropped[Found].value = AccessesIn(module)
             => b.results[Found] = a.dropped[Found]
    BY <1>0, <2>1, ComputedGives, ModuleTyped, Zenon
  <2>3. ToldOf(module, b)
    BY <2>2 DEF Gives, ToldOf, Good
  <2>4. Good(module, b)
    BY <1>2, <2>2, <2>3, GivingKeepsGood DEF Controls, Now
  <2>5. FoundNow(module, a) = AccessesIn(module)
    BY <1>2 DEF FoundNow
  <2> QED
    BY <1>2, <2>2, <2>4, <2>5 DEF b, Gives
<1> QED
  BY <1>1, <1>2

(* Bringing the summaries up to date gives what making them gives.         *)
LEMMA SummarizedIs ==
  ASSUME Controls, NEW a, Good(module, a), {Declarations, Found} \subseteq DOMAIN a.results
  PROVE  Summarized(a) = SummariesOf(module.decl, a.results[Found].value)
<1> DEFINE declared == a.results[Declarations].value
           found == a.results[Found].value
           last == a.dropped[Summaries].value
           changed(m) == {f \in Functions : SummaryOf(f, m.declared.value, m.found.value)
                                              # SummaryOf(f, declared, found)}
           moved(m) == IF Alone(a, m) THEN m.logged ELSE changed(m)
<1>1. declared = module.decl
  BY KindsDiffer DEF Good, TrueOf, Controls
<1>2. ASSUME NEW m \in a.made, Alone(a, m), NEW f \in Functions \ m.logged
      PROVE  SummaryOf(f, m.declared.value, m.found.value) = SummaryOf(f, declared, found)
  <2>1. m.found = a.results[Found]
    <3>1. m.found \in Objects(a, Found) /\ a.results[Found] \in Objects(a, Found)
      BY DEF Objects
    <3> QED
      BY <1>2, <3>1, KindsDiffer DEF Alone, Good, Consistent, OneEach
  <2>2. Agrees(m.declared.value, module, m.logged)
    BY <1>2 DEF Alone, Good, ToldOf
  <2>3. m.logged \subseteq Functions
    BY DEF Good, Consistent, Shaped, State, Note
  <2>4. /\ m.declared.value[f] = module.decl[f]
        /\ m.declared.value[Variable] = module.decl[Variable]
    BY <2>2, <2>3, GlobalsAre DEF Agrees
  <2> QED
    BY <1>1, <2>1, <2>4 DEF SummaryOf
<1>3. ASSUME NEW m \in a.made, NEW f \in Functions \ moved(m)
      PROVE  SummaryOf(f, m.declared.value, m.found.value) = SummaryOf(f, declared, found)
  <2>1. CASE Alone(a, m)
    BY <1>2, <2>1
  <2>2. CASE ~Alone(a, m)
    BY <2>2
  <2> QED
    BY <2>1, <2>2
<1>4. ASSUME NEW f \in Functions, Summaries \in DOMAIN a.dropped,
             NEW m \in a.made, f \notin moved(m)
      PROVE  last[f] = SummaryOf(f, declared, found)
  <2>1. last = SummariesOf(m.declared.value, m.found.value)
    BY <1>4 DEF Good, Consistent, AsNoted
  <2>2. last[f] = SummaryOf(f, m.declared.value, m.found.value)
    BY <2>1 DEF SummariesOf
  <2> QED
    BY <1>3, <1>4, <2>2
<1>5. Summarized(a) =
        [f \in Functions |->
           IF \E m \in a.made : Summaries \in DOMAIN a.dropped /\ f \notin moved(m)
           THEN last[f] ELSE SummaryOf(f, module.decl, found)]
  BY DEF Summarized
<1> HIDE DEF moved, last, found, declared
<1>6. \A f \in Functions :
        (IF \E m \in a.made : Summaries \in DOMAIN a.dropped /\ f \notin moved(m)
         THEN last[f] ELSE SummaryOf(f, module.decl, found))
          = SummaryOf(f, module.decl, found)
  BY <1>1, <1>4
<1>7. Summarized(a) = [f \in Functions |-> SummaryOf(f, module.decl, found)]
  BY <1>5, <1>6
<1> QED
  BY <1>7 DEF SummariesOf, found

(* The summaries held are of the objects noted, and those are held.        *)
Settled(a) ==
  Summaries \in DOMAIN a.results /\ \A m \in a.made : IsAt(a, Declarations, m.declared.at)
                                                    /\ IsAt(a, Found, m.found.at)

LEMMA SummariesTyped ==
  ASSUME NEW declared \in Value(Declarations), NEW found \in Value(Found)
  PROVE  SummariesOf(declared, found) \in Value(Summaries)
<1>1. ASSUME NEW f \in Functions PROVE SummaryOf(f, declared, found) \in Summary
  BY ValueIs, GlobalsAre DEF SummaryOf, Summary
<1> QED
  BY <1>1, ValueIs DEF SummariesOf

(* Asked where they are given up.                                          *)
LEMMA SummariesGiven ==
  ASSUME Controls, NEW a, NEW b, Good(module, a), Summaries \notin DOMAIN a.results,
         {Declarations, Found} \subseteq DOMAIN a.results,
         Gives(a, b, Summaries), b.open = a.open, b.edited = a.edited,
         a.made # {},
         \A m \in a.made : /\ m.declared.at = a.results[Declarations].at
                           /\ m.found.at = a.results[Found].at,
         b.results[Summaries].value = SummariesOf(module.decl, a.results[Found].value)
  PROVE  Good(module, b) /\ Settled(b)
<1> USE KindsDiffer
<1>1. Shaped(b) /\ OneEach(b)
  BY GivingIsConsistent DEF Good, Consistent
<1>2. FoundNow(module, b) = FoundNow(module, a)
  BY DEF FoundNow, Gives
<1>3. a.results[Found].value = FoundNow(module, a)
  BY DEF Good, TrueOf, Controls, FoundNow
<1>4. a.results[Declarations].value = module.decl
  BY DEF Good, TrueOf, Controls
<1>5. ASSUME NEW m \in a.made
      PROVE  m.declared = a.results[Declarations] /\ m.found = a.results[Found]
  <2>1. /\ m.declared \in Objects(a, Declarations)
        /\ a.results[Declarations] \in Objects(a, Declarations)
        /\ m.found \in Objects(a, Found) /\ a.results[Found] \in Objects(a, Found)
    BY DEF Objects
  <2> QED
    BY <2>1 DEF Good, Consistent, OneEach
<1>6. AsNoted(b)
  BY <1>4, <1>5 DEF AsNoted, Gives
<1>7. TrueOf(module, b, Kinds \ frozen)
  <2>1. Declarations \in DOMAIN b.results => b.results[Declarations].value = module.decl
    BY <1>4 DEF Gives
  <2>2. Found \in DOMAIN b.results \ stateless => b.results[Found].value = AccessesIn(module)
    BY <1>3 DEF Gives, FoundNow
  <2>3. \A m \in b.made : m.declared.value = module.decl /\ m.found.value = FoundNow(module, b)
    BY <1>2, <1>3, <1>4, <1>5 DEF Gives
  <2> QED
    BY <2>1, <2>2, <2>3 DEF TrueOf
<1>8. ToldOf(module, b)
  BY DEF ToldOf, Gives, Good
<1>9. Settled(b)
  BY DEF Settled, IsAt, Gives
<1> QED
  BY <1>1, <1>6, <1>7, <1>8, <1>9 DEF Good, Consistent

LEMMA WithSummariesIs ==
  ASSUME Controls, NEW a, Good(module, a)
  PROVE  LET b == WithSummaries(a)
         IN  /\ Good(module, b) /\ b.outer = a.outer
             /\ Summaries \in DOMAIN b.results
             /\ Summaries \in DOMAIN a.results => b = a
             /\ Summaries \notin DOMAIN a.results =>
                  /\ Settled(b) /\ b.made # {}
                  /\ FoundNow(module, b) = FoundNow(module, a)
                  /\ b.results[Summaries].value = SummariesOf(module.decl, FoundNow(module, b))
<1> DEFINE f == WithFound(a)
           d == WithDeclarations(f)
           stands == \E m \in d.made : /\ m.declared.at = d.results[Declarations].at
                                       /\ m.found.at = d.results[Found].at
           note == [declared |-> d.results[Declarations], found |-> d.results[Found],
                    logged |-> {}, resets |-> FALSE, sameLog |-> TRUE]
           c == [d EXCEPT !.dropped = Without(@, {Summaries}), !.made = {note}]
           b == WithSummaries(a)
<1> USE KindsDiffer
<1>1. CASE Summaries \in DOMAIN a.results
  BY <1>1 DEF WithSummaries
<1>2. CASE Summaries \notin DOMAIN a.results
  <2>1. /\ Good(module, f) /\ Found \in DOMAIN f.results /\ f.outer = a.outer
        /\ Summaries \notin DOMAIN f.results
        /\ f.results[Found].value = FoundNow(module, a)
        /\ FoundNow(module, f) = FoundNow(module, a)
    <3>1. /\ Good(module, f) /\ (f = a \/ Gives(a, f, Found))
          /\ Found \in DOMAIN f.results /\ f.results[Found].value = FoundNow(module, a)
      BY WithFoundIs
    <3> HIDE DEF f
    <3>2. f.outer = a.outer /\ Summaries \notin DOMAIN f.results
      BY <1>2, <3>1 DEF Gives
    <3>3. FoundNow(module, f) = FoundNow(module, a)
      BY <3>1 DEF FoundNow, Good, TrueOf, Controls
    <3> QED
      BY <3>1, <3>2, <3>3
  <2> HIDE DEF f
  <2>2. /\ Good(module, d) /\ {Declarations, Found} \subseteq DOMAIN d.results
        /\ d.outer = a.outer /\ Summaries \notin DOMAIN d.results
        /\ d.results[Declarations].value = module.decl
        /\ d.results[Found].value = FoundNow(module, a)
        /\ FoundNow(module, d) = FoundNow(module, a)
    <3>1. /\ Good(module, d) /\ (d = f \/ Gives(f, d, Declarations))
          /\ Declarations \in DOMAIN d.results /\ d.results[Declarations].value = module.decl
      BY <2>1, WithDeclarationsIs
    <3> HIDE DEF d
    <3> QED
      BY <2>1, <3>1 DEF Gives, FoundNow
  <2>3. b = IF Summaries \in DOMAIN d.dropped /\ stands THEN Restored(d, Summaries)
            ELSE Computed(c, Summaries, Summarized(d))
    BY <1>2 DEF WithSummaries, f
  <2>4. d \in State /\ Shaped(d)
    BY <2>2 DEF Good, Consistent, Shaped
  <2> HIDE DEF d, b
  <2>5. CASE Summaries \in DOMAIN d.dropped /\ stands
    <3>1. b = Restored(d, Summaries)
      BY <2>3, <2>5
    <3>2. /\ Gives(d, b, Summaries) /\ b.results[Summaries] = d.dropped[Summaries]
          /\ b.open = d.open /\ b.edited = d.edited
      BY <2>4, <2>5, <3>1, RestoredGives
    <3>3. PICK m \in d.made : /\ m.declared.at = d.results[Declarations].at
                              /\ m.found.at = d.results[Found].at
      BY <2>5
    <3>4. \A n \in d.made : n = m
      BY <2>4 DEF Shaped
    <3>5. m.declared = d.results[Declarations] /\ m.found = d.results[Found]
      <4>1. /\ m.declared \in Objects(d, Declarations)
            /\ d.results[Declarations] \in Objects(d, Declarations)
            /\ m.found \in Objects(d, Found) /\ d.results[Found] \in Objects(d, Found)
        BY <2>2 DEF Objects
      <4> QED
        BY <2>2, <3>3, <4>1 DEF Good, Consistent, OneEach
    <3>6. b.results[Summaries].value = SummariesOf(module.decl, d.results[Found].value)
      BY <2>2, <2>5, <3>2, <3>5 DEF Good, Consistent, AsNoted
    <3>7. Good(module, b) /\ Settled(b)
      BY <2>2, <3>2, <3>3, <3>4, <3>6, SummariesGiven
    <3>8. FoundNow(module, b) = FoundNow(module, d) /\ b.made # {} /\ b.outer = d.outer
          /\ Summaries \in DOMAIN b.results
      BY <3>2, <3>3 DEF FoundNow, Gives
    <3> QED
      BY <1>2, <2>2, <3>6, <3>7, <3>8 DEF b
  <2>6. CASE ~(Summaries \in DOMAIN d.dropped /\ stands)
    <3>1. Summarized(d) = SummariesOf(module.decl, d.results[Found].value)
      BY <2>2, SummarizedIs
    <3>2. b = Computed(c, Summaries, Summarized(d))
      BY <2>3, <2>6
    <3>3. /\ d.results \in Holding /\ d.dropped \in Holding
          /\ d.results[Declarations] \in Object(Declarations)
          /\ d.results[Found] \in Object(Found)
      BY <2>2, <2>4, HoldingIs DEF State
    <3>4. Summarized(d) \in Value(Summaries)
      BY <2>2, <3>1, <3>3, SummariesTyped, ValueIs
    <3> DEFINE dropped == Without(d.dropped, {Summaries})
    <3>5. /\ dropped \in Holding /\ DOMAIN dropped = DOMAIN d.dropped \ {Summaries}
          /\ \A k \in DOMAIN d.dropped \ {Summaries} : dropped[k] = d.dropped[k]
      BY <3>3, WithoutIs, Zenon
    <3>6. note \in Note
      BY <3>3 DEF Note
    <3>7. c = [d EXCEPT !.dropped = dropped, !.made = {note}]
      OBVIOUS
    <3>8. note.declared = d.results[Declarations] /\ note.found = d.results[Found]
          /\ note.logged = {}
      OBVIOUS
    <3> HIDE DEF c, dropped, note
    <3>9. /\ c \in State /\ c.results = d.results /\ c.dropped = dropped
          /\ c.made = {note} /\ c.outer = d.outer /\ c.open = d.open /\ c.edited = d.edited
      BY <2>4, <3>5, <3>6, <3>7 DEF State
    <3>10. Shaped(c)
      BY <2>4, <3>5, <3>9 DEF Shaped
    <3>11. OneEach(c)
      <4>1. ASSUME NEW k \in Kinds, NEW x \in Objects(c, k) PROVE x \in Objects(d, k)
        BY <2>2, <3>5, <3>8, <3>9, <4>1 DEF Objects
      <4> QED
        BY <2>2, <4>1 DEF Good, Consistent, OneEach
    <3>12. AsNoted(c)
      BY <2>2, <3>5, <3>9 DEF AsNoted
    <3>13. FoundNow(module, c) = FoundNow(module, d)
      BY <3>9 DEF FoundNow
    <3>14. TrueOf(module, c, Kinds \ frozen)
      BY <2>2, <3>9, <3>13 DEF TrueOf, Good
    <3>15. ToldOf(module, c)
      <4>1. Agrees(note.declared.value, module, note.logged)
        BY <2>2, <3>8 DEF Agrees
      <4> QED
        BY <2>2, <3>5, <3>9, <4>1 DEF ToldOf, Good
    <3>16. Good(module, c)
      BY <3>10, <3>11, <3>12, <3>14, <3>15 DEF Good, Consistent
    <3>17. /\ Gives(c, b, Summaries) /\ b.results[Summaries].value = Summarized(d)
           /\ b.open = c.open /\ b.edited = c.edited
      BY <3>2, <3>4, <3>10, ComputedGives
    <3>18. Good(module, b) /\ Settled(b)
      <4>1. \A m \in c.made : /\ m.declared.at = c.results[Declarations].at
                              /\ m.found.at = c.results[Found].at
        BY <3>8, <3>9
      <4>2. b.results[Summaries].value = SummariesOf(module.decl, c.results[Found].value)
        BY <3>1, <3>9, <3>17
      <4> QED
        BY <2>2, <3>9, <3>16, <3>17, <4>1, <4>2, SummariesGiven
    <3>19. FoundNow(module, b) = FoundNow(module, c) /\ b.made # {} /\ b.outer = d.outer
           /\ Summaries \in DOMAIN b.results
      BY <3>9, <3>17 DEF FoundNow, Gives
    <3> QED
      BY <1>2, <2>2, <3>1, <3>13, <3>17, <3>18, <3>19 DEF b
  <2> QED
    BY <2>5, <2>6
<1> QED
  BY <1>1, <1>2

LEMMA HeldSummariesAre ==
  ASSUME Controls, NEW a, Good(module, a), Summaries \in DOMAIN a.results \ frozen
  PROVE  /\ a.results[Summaries].value = SummariesOf(module.decl, FoundNow(module, a))
         /\ a.made # {}
         /\ \A m \in a.made : /\ m.declared.value = module.decl
                              /\ m.found.value = FoundNow(module, a)
<1>1. /\ a.made # {}
      /\ \A m \in a.made :
           a.results[Summaries].value = SummariesOf(m.declared.value, m.found.value)
  BY DEF Good, Consistent, AsNoted
<1>2. \A m \in a.made : m.declared.value = module.decl /\ m.found.value = FoundNow(module, a)
  BY KindsDiffer DEF Good, TrueOf
<1> QED
  BY <1>1, <1>2

(* What is asked for is fresh, but for what is held on purpose.            *)
LEMMA AskedIs ==
  ASSUME Controls, NEW a, Good(module, a), NEW k \in Kinds
  PROVE  LET b == With(a, k)
         IN  /\ Good(module, b) /\ k \in DOMAIN b.results /\ b.outer = a.outer
             /\ k \notin DOMAIN a.results \cap (stateless \cup frozen)
                  => b.results[k].value = Fresh(b, k)
<1> USE KindsDiffer
<1>1. CASE k = Declarations
  <2> DEFINE b == WithDeclarations(a)
  <2>1. With(a, k) = b
    BY <1>1, Zenon DEF With
  <2>2. Fresh(b, k) = module.decl
    BY <1>1, Zenon DEF Fresh
  <2>3. /\ Good(module, b) /\ Declarations \in DOMAIN b.results
        /\ b.results[Declarations].value = module.decl
        /\ b = a \/ Gives(a, b, Declarations)
    BY WithDeclarationsIs
  <2> HIDE DEF b
  <2> QED
    BY <1>1, <2>1, <2>2, <2>3 DEF Gives
<1>2. CASE k = Found
  <2> DEFINE b == WithFound(a)
  <2>1. With(a, k) = b
    BY <1>2, Zenon DEF With
  <2>2. Fresh(b, k) = Accesses
    BY <1>2, Zenon DEF Fresh
  <2>3. /\ Good(module, b) /\ Found \in DOMAIN b.results
        /\ b.results[Found].value = FoundNow(module, a)
        /\ b = a \/ Gives(a, b, Found)
    BY WithFoundIs
  <2> HIDE DEF b
  <2> QED
    BY <1>2, <2>1, <2>2, <2>3, ModuleTyped DEF Gives, FoundNow
<1>3. CASE k = Summaries
  <2> DEFINE b == WithSummaries(a)
             found == IF Found \in DOMAIN b.results \cap stateless
                      THEN b.results[Found].value ELSE Accesses
  <2>1. With(a, k) = b
    BY <1>3, Zenon DEF With
  <2>2. Fresh(b, k) = [f \in Functions |-> SummaryOf(f, module.decl, found)]
    BY <1>3, Zenon DEF Fresh
  <2>3. Good(module, b) /\ Summaries \in DOMAIN b.results /\ b.outer = a.outer
    BY WithSummariesIs
  <2>4. Summaries \notin DOMAIN a.results \cap frozen =>
          b.results[Summaries].value = SummariesOf(module.decl, FoundNow(module, b))
    BY WithSummariesIs, HeldSummariesAre
  <2> HIDE DEF b
  <2>5. found = FoundNow(module, b)
    BY ModuleTyped DEF FoundNow
  <2> QED
    BY <1>3, <2>1, <2>2, <2>3, <2>4, <2>5 DEF SummariesOf
<1> QED
  BY <1>1, <1>2, <1>3

LEMMA GivingKeepsMatched ==
  ASSUME NEW a, NEW b, NEW k \in {Declarations, Found}, k \notin DOMAIN a.results,
         Matched(a), Gives(a, b, k)
  PROVE  Matched(b)
BY KindsDiffer DEF Matched, Gives, IsAt

LEMMA AskedKeepsMatched ==
  ASSUME Controls, NEW a, Good(module, a), Matched(a), NEW k \in Kinds
  PROVE  Matched(With(a, k))
<1> USE KindsDiffer
<1>1. CASE k = Declarations
  BY <1>1, WithDeclarationsIs, GivingKeepsMatched DEF With
<1>2. CASE k = Found
  BY <1>2, WithFoundIs, GivingKeepsMatched DEF With
<1>3. CASE k = Summaries
  <2>1. With(a, k) = WithSummaries(a)
    BY <1>3, Zenon DEF With
  <2> QED
    BY <2>1, WithSummariesIs DEF Settled, Matched
<1> QED
  BY <1>1, <1>2, <1>3

(* An object that is true is given out again.                              *)
LEMMA HadIsTrue ==
  ASSUME NEW a, Consistent(a), NEW m \in a.made
  PROVE  /\ Declarations \in DOMAIN a.dropped /\ a.dropped[Declarations].at = m.declared.at
              => a.dropped[Declarations] = m.declared
         /\ Found \in DOMAIN a.dropped /\ a.dropped[Found].at = m.found.at
              => a.dropped[Found] = m.found
<1>1. /\ m.declared \in Objects(a, Declarations) /\ m.found \in Objects(a, Found)
      /\ Declarations \in DOMAIN a.dropped
           => a.dropped[Declarations] \in Objects(a, Declarations)
      /\ Found \in DOMAIN a.dropped => a.dropped[Found] \in Objects(a, Found)
  BY DEF Objects
<1> QED
  BY <1>1, KindsDiffer DEF Consistent, OneEach

LEMMA FoundAgain ==
  ASSUME Controls, stateless = {}, NEW a, Good(module, a), NEW m \in a.made,
         m.found.value = AccessesIn(module), Has(a, Found, m.found.at)
  PROVE  /\ IsAt(WithFound(a), Found, m.found.at) /\ WithFound(a).made = a.made
         /\ WithFound(a).outer = a.outer
         /\ \A k \in {Declarations, Summaries} : \A at :
              Has(a, k, at) => Has(WithFound(a), k, at)
<1> DEFINE b == WithFound(a)
<1> USE KindsDiffer
<1>1. /\ b = a \/ (Found \notin DOMAIN a.results /\ Gives(a, b, Found))
      /\ Found \in DOMAIN b.results
      /\ Found \in DOMAIN a.dropped /\ a.dropped[Found].value = AccessesIn(module)
           => b.results[Found] = a.dropped[Found]
  BY WithFoundIs
<1> HIDE DEF b
<1>2. Shaped(a) /\ Consistent(a)
  BY DEF Good, Consistent
<1>3. CASE b = a
  <2>1. Found \in DOMAIN a.results /\ Found \notin DOMAIN a.dropped
    BY <1>1, <1>2, <1>3 DEF Shaped
  <2> QED
    BY <1>3, <2>1 DEF b, Has, IsAt
<1>4. CASE Found \notin DOMAIN a.results /\ Gives(a, b, Found)
  <2>1. b.results[Found].at = m.found.at
    BY <1>1, <1>2, <1>4, HadIsTrue DEF Has, IsAt
  <2>2. \A k \in {Declarations, Summaries} : \A at : Has(a, k, at) => Has(b, k, at)
    BY <1>4 DEF Has, IsAt, Gives
  <2> QED
    BY <1>1, <1>4, <2>1, <2>2 DEF b, Gives, IsAt
<1> QED
  BY <1>1, <1>3, <1>4

LEMMA DeclarationsAgain ==
  ASSUME Controls, NEW a, Good(module, a), NEW m \in a.made,
         m.declared.value = module.decl, Has(a, Declarations, m.declared.at)
  PROVE  /\ IsAt(WithDeclarations(a), Declarations, m.declared.at)
         /\ WithDeclarations(a).made = a.made /\ WithDeclarations(a).outer = a.outer
         /\ \A k \in {Found, Summaries} : \A at :
              Has(a, k, at) => Has(WithDeclarations(a), k, at)
<1> DEFINE b == WithDeclarations(a)
<1> USE KindsDiffer
<1>1. /\ b = a \/ (Declarations \notin DOMAIN a.results /\ Gives(a, b, Declarations))
      /\ Declarations \in DOMAIN b.results
      /\ Declarations \in DOMAIN a.dropped /\ a.dropped[Declarations].value = module.decl
           => b.results[Declarations] = a.dropped[Declarations]
  BY WithDeclarationsIs
<1> HIDE DEF b
<1>2. Shaped(a) /\ Consistent(a)
  BY DEF Good, Consistent
<1>3. CASE b = a
  <2>1. Declarations \in DOMAIN a.results /\ Declarations \notin DOMAIN a.dropped
    BY <1>1, <1>2, <1>3 DEF Shaped
  <2> QED
    BY <1>3, <2>1 DEF b, Has, IsAt
<1>4. CASE Declarations \notin DOMAIN a.results /\ Gives(a, b, Declarations)
  <2>1. b.results[Declarations].at = m.declared.at
    BY <1>1, <1>2, <1>4, HadIsTrue DEF Has, IsAt
  <2>2. \A k \in {Found, Summaries} : \A at : Has(a, k, at) => Has(b, k, at)
    BY <1>4 DEF Has, IsAt, Gives
  <2> QED
    BY <1>1, <1>4, <2>1, <2>2 DEF b, Gives, IsAt
<1> QED
  BY <1>1, <1>3, <1>4

LEMMA SummariesAgain ==
  ASSUME Controls, stateless = {}, frozen = {},
         NEW a, Good(module, a), Matched(a), Repeats(module, a)
  PROVE  LET b == WithSummaries(a)
         IN  /\ Repeats(module, b)
             /\ IsAt(b, Declarations, a.outer[Declarations])
             /\ IsAt(b, Summaries, a.outer[Summaries])
<1> DEFINE f == WithFound(a)
           d == WithDeclarations(f)
           stands == \E m \in d.made : /\ m.declared.at = d.results[Declarations].at
                                       /\ m.found.at = d.results[Found].at
           b == WithSummaries(a)
<1> USE KindsDiffer
<1>0. Shaped(a)
  BY DEF Good, Consistent
<1>1. PICK m \in a.made :
        /\ m.declared.value = module.decl /\ m.found.value = AccessesIn(module)
        /\ a.outer[Declarations] = m.declared.at
        /\ Has(a, Declarations, m.declared.at) /\ Has(a, Found, m.found.at)
        /\ Has(a, Summaries, a.outer[Summaries])
  BY DEF Repeats
<1>2. CASE Summaries \in DOMAIN a.results
  <2>1. b = a
    BY <1>2 DEF WithSummaries
  <2>2. Summaries \notin DOMAIN a.dropped
    BY <1>0, <1>2 DEF Shaped
  <2> QED
    BY <1>1, <1>2, <2>1, <2>2 DEF Matched, Has, IsAt
<1>3. CASE Summaries \notin DOMAIN a.results
  <2>1. /\ Good(module, f) /\ Summaries \notin DOMAIN f.results
        /\ IsAt(f, Found, m.found.at) /\ f.made = a.made /\ f.outer = a.outer
        /\ Has(f, Declarations, m.declared.at) /\ Has(f, Summaries, a.outer[Summaries])
    <3>1. Good(module, f) /\ (f = a \/ Gives(a, f, Found))
      BY WithFoundIs
    <3>2. Summaries \notin DOMAIN f.results
      BY <1>3, <3>1 DEF Gives
    <3> QED
      BY <1>1, <3>1, <3>2, FoundAgain
  <2> HIDE DEF f
  <2>2. /\ Good(module, d) /\ Summaries \notin DOMAIN d.results
        /\ IsAt(d, Declarations, m.declared.at) /\ IsAt(d, Found, m.found.at)
        /\ d.made = a.made /\ d.outer = a.outer /\ Has(d, Summaries, a.outer[Summaries])
    <3>1. Good(module, d) /\ (d = f \/ Gives(f, d, Declarations))
      BY <2>1, WithDeclarationsIs
    <3>2. /\ IsAt(d, Declarations, m.declared.at) /\ d.made = f.made /\ d.outer = f.outer
          /\ Has(d, Summaries, a.outer[Summaries])
      BY <1>1, <2>1, DeclarationsAgain
    <3> HIDE DEF d
    <3>3. Summaries \notin DOMAIN d.results /\ IsAt(d, Found, m.found.at)
      BY <2>1, <3>1 DEF Gives, IsAt
    <3> QED
      BY <2>1, <3>1, <3>2, <3>3
  <2>3. b = IF Summaries \in DOMAIN d.dropped /\ stands THEN Restored(d, Summaries)
            ELSE Computed([d EXCEPT !.dropped = Without(@, {Summaries}),
                                    !.made = {[declared |-> d.results[Declarations],
                                               found |-> d.results[Found],
                                               logged |-> {}, resets |-> FALSE,
                                               sameLog |-> TRUE]}],
                          Summaries, Summarized(d))
    BY <1>3 DEF WithSummaries, f
  <2> HIDE DEF d, b
  <2>4. stands
    BY <2>2 DEF IsAt
  <2>5. Summaries \in DOMAIN d.dropped /\ d.dropped[Summaries].at = a.outer[Summaries]
    BY <2>2 DEF Has, IsAt
  <2>6. b = Restored(d, Summaries)
    BY <2>3, <2>4, <2>5
  <2>7. Gives(d, b, Summaries) /\ b.results[Summaries] = d.dropped[Summaries]
    BY <2>2, <2>5, <2>6, RestoredGives DEF Good, Consistent
  <2>8. /\ IsAt(b, Summaries, a.outer[Summaries]) /\ b.made = a.made /\ b.outer = a.outer
        /\ IsAt(b, Declarations, m.declared.at) /\ IsAt(b, Found, m.found.at)
    BY <2>2, <2>5, <2>7 DEF Gives, IsAt
  <2>9. DOMAIN a.outer = {Declarations, Summaries}
    BY DEF Repeats
  <2>10. Repeats(module, b)
    BY <1>1, <2>8, <2>9 DEF Repeats, Has
  <2> QED
    BY <1>1, <2>8, <2>10 DEF b
<1> QED
  BY <1>2, <1>3

LEMMA AskedAgain ==
  ASSUME Controls, stateless = {}, frozen = {},
         NEW a, Good(module, a), Matched(a), Repeats(module, a), NEW k \in Kinds
  PROVE  Repeats(module, With(a, k))
<1> USE KindsDiffer
<1>1. PICK m \in a.made :
        /\ m.declared.value = module.decl /\ m.found.value = AccessesIn(module)
        /\ a.outer[Declarations] = m.declared.at
        /\ Has(a, Declarations, m.declared.at) /\ Has(a, Found, m.found.at)
        /\ Has(a, Summaries, a.outer[Summaries])
  BY DEF Repeats
<1>2. DOMAIN a.outer = {Declarations, Summaries}
  BY DEF Repeats
<1>3. CASE k = Declarations
  <2> DEFINE b == WithDeclarations(a)
  <2>1. With(a, k) = b
    BY <1>3, Zenon DEF With
  <2>2. /\ IsAt(b, Declarations, m.declared.at) /\ b.made = a.made /\ b.outer = a.outer
        /\ Has(b, Found, m.found.at) /\ Has(b, Summaries, a.outer[Summaries])
    BY <1>1, DeclarationsAgain
  <2> HIDE DEF b
  <2> QED
    BY <1>1, <1>2, <2>1, <2>2 DEF Repeats, Has
<1>4. CASE k = Found
  <2> DEFINE b == WithFound(a)
  <2>1. With(a, k) = b
    BY <1>4, Zenon DEF With
  <2>2. /\ IsAt(b, Found, m.found.at) /\ b.made = a.made /\ b.outer = a.outer
        /\ Has(b, Declarations, m.declared.at) /\ Has(b, Summaries, a.outer[Summaries])
    BY <1>1, FoundAgain
  <2> HIDE DEF b
  <2> QED
    BY <1>1, <1>2, <2>1, <2>2 DEF Repeats, Has
<1>5. CASE k = Summaries
  <2>1. With(a, k) = WithSummaries(a)
    BY <1>5, Zenon DEF With
  <2> QED
    BY <2>1, SummariesAgain
<1> QED
  BY <1>3, <1>4, <1>5

(* The proxy.                                                              *)
LEMMA WithOuterIs ==
  ASSUME Controls, NEW a, Good(module, a)
  PROVE  LET b == WithOuter(a)
         IN  /\ Good(module, b)
             /\ stateless = {} /\ frozen = {} /\ Matched(a)
                  => /\ Matched(b) /\ Repeats(module, b)
                     /\ DOMAIN b.results = Kinds
                     /\ Repeats(module, a) => b.outer = a.outer
<1> USE KindsDiffer
<1> DEFINE d == WithDeclarations(a)
           s == WithSummaries(d)
           holds == {Declarations, Summaries} \cup (stateless \cap DOMAIN s.results)
           outer == [k \in holds |-> s.results[k].at]
           b == WithOuter(a)
<1>1. /\ Good(module, d) /\ Declarations \in DOMAIN d.results
      /\ d = a \/ (Declarations \notin DOMAIN a.results /\ Gives(a, d, Declarations))
  BY WithDeclarationsIs
<1>2. /\ Good(module, s) /\ Summaries \in DOMAIN s.results /\ s.outer = d.outer
      /\ Summaries \in DOMAIN d.results => s = d
      /\ Summaries \notin DOMAIN d.results => Settled(s)
  BY <1>1, WithSummariesIs
<1>3. b = [s EXCEPT !.outer = outer]
  BY DEF WithOuter
<1>4. stateless = {} /\ frozen = {} /\ Matched(a) /\ Repeats(module, a)
        => /\ s.outer = a.outer /\ IsAt(s, Declarations, a.outer[Declarations])
           /\ IsAt(s, Summaries, a.outer[Summaries])
  <2> SUFFICES ASSUME stateless = {}, frozen = {}, Matched(a), Repeats(module, a)
               PROVE  /\ s.outer = a.outer /\ IsAt(s, Declarations, a.outer[Declarations])
                      /\ IsAt(s, Summaries, a.outer[Summaries])
    BY Zenon
  <2>1. With(a, Declarations) = d
    BY Zenon DEF With
  <2>2. Repeats(module, d)
    BY <2>1, AskedAgain
  <2>3. d.outer = a.outer
    BY <1>1 DEF Gives
  <2>4. Matched(d)
    BY <1>1, GivingKeepsMatched
  <2> QED
    BY <1>1, <1>2, <2>2, <2>3, <2>4, SummariesAgain
<1>5. stateless = {} /\ frozen = {} /\ Matched(a) => Matched(s)
  BY <1>1, <1>2, GivingKeepsMatched DEF Settled, Matched
<1> HIDE DEF d, s
<1>6. s \in State /\ s.results \in Holding
  BY <1>2 DEF Good, Consistent, Shaped, State
<1>7. Declarations \in DOMAIN s.results
  <2>1. s = d \/ Settled(s)
    BY <1>2
  <2>2. s.made # {}
    BY <1>2 DEF Good, Consistent, AsNoted
  <2> QED
    BY <1>1, <2>1, <2>2 DEF Settled, IsAt
<1>8. holds \subseteq DOMAIN s.results /\ holds \in SUBSET Kinds
  BY <1>2, <1>6, <1>7, HoldingIs
<1>9. outer \in [holds -> Nat]
  <2>1. \A k \in holds : s.results[k].at \in Nat
    BY <1>6, <1>8, HoldingIs DEF Object
  <2> QED
    BY <2>1
<1>10. stateless = {} => holds = {Declarations, Summaries}
  OBVIOUS
<1>11. /\ DOMAIN outer = holds
       /\ outer[Declarations] = s.results[Declarations].at
       /\ outer[Summaries] = s.results[Summaries].at
  OBVIOUS
<1> HIDE DEF outer, holds, b
<1>12. /\ b \in State /\ b.results = s.results /\ b.dropped = s.dropped /\ b.made = s.made
       /\ b.open = s.open /\ b.edited = s.edited /\ b.outer = outer
  BY <1>3, <1>6, <1>8, <1>9 DEF State
<1>13. Good(module, b)
  <2>1. Shaped(b)
    BY <1>2, <1>12 DEF Good, Consistent, Shaped
  <2>2. OneEach(b)
    BY <1>2, <1>12 DEF Good, Consistent, OneEach, Objects
  <2>3. AsNoted(b) /\ ToldOf(module, b)
    BY <1>2, <1>12 DEF Good, Consistent, AsNoted, ToldOf
  <2>4. FoundNow(module, b) = FoundNow(module, s)
    BY <1>12 DEF FoundNow
  <2>5. TrueOf(module, b, Kinds \ frozen)
    BY <1>2, <1>12, <2>4 DEF Good, TrueOf
  <2> QED
    BY <2>1, <2>2, <2>3, <2>5 DEF Good, Consistent
<1>14. ASSUME stateless = {}, frozen = {}, Matched(a)
       PROVE  /\ Matched(b) /\ Repeats(module, b) /\ DOMAIN b.results = Kinds
              /\ Repeats(module, a) => b.outer = a.outer
  <2>1. Matched(b)
    BY <1>5, <1>12, <1>14 DEF Matched, IsAt
  <2>2. /\ s.made # {}
        /\ \A m \in s.made : /\ m.declared.value = module.decl
                             /\ m.found.value = FoundNow(module, s)
    BY <1>2, <1>14, HeldSummariesAre
  <2>3. PICK m \in s.made : TRUE
    BY <2>2
  <2>4. IsAt(b, Declarations, m.declared.at) /\ IsAt(b, Found, m.found.at)
    BY <1>2, <1>12, <2>1, <2>3 DEF Matched
  <2>5. m.found.value = AccessesIn(module)
    BY <1>14, <2>2 DEF FoundNow
  <2>6. /\ outer[Declarations] = m.declared.at /\ DOMAIN outer = {Declarations, Summaries}
        /\ IsAt(b, Summaries, outer[Summaries])
    BY <1>2, <1>10, <1>11, <1>12, <1>14, <2>4 DEF IsAt
  <2>7. Repeats(module, b)
    BY <1>12, <2>2, <2>4, <2>5, <2>6 DEF Repeats, Has
  <2>8. DOMAIN b.results = Kinds
    BY <1>6, <1>12, <2>4, <2>6, HoldingIs DEF IsAt
  <2>9. ASSUME Repeats(module, a) PROVE b.outer = a.outer
    <3>1. /\ IsAt(s, Declarations, a.outer[Declarations])
          /\ IsAt(s, Summaries, a.outer[Summaries])
      BY <1>4, <1>14, <2>9
    <3>2. DOMAIN a.outer = {Declarations, Summaries}
      BY <2>9 DEF Repeats
    <3>3. a.outer = [k \in DOMAIN a.outer |-> a.outer[k]]
      BY DEF Good, Consistent, Shaped, State
    <3>4. outer = [k \in holds |-> s.results[k].at]
      BY DEF outer
    <3> QED
      BY <1>10, <1>11, <1>12, <1>14, <3>1, <3>2, <3>3, <3>4 DEF IsAt
  <2> QED
    BY <2>1, <2>7, <2>8, <2>9
<1> QED
  BY <1>13, <1>14 DEF b
-----------------------------------------------------------------------------
(* Giving up.                                                              *)

(* c holds nothing a did not have, and its notes are of what a's are.      *)
Keeps(a, c) ==
  /\ c \in State /\ DOMAIN c.results \cap DOMAIN c.dropped = {}
  /\ \A m, n \in c.made : m = n
  /\ \A k \in DOMAIN c.results : k \in DOMAIN a.results /\ c.results[k] = a.results[k]
  /\ \A k \in DOMAIN c.dropped :
       \/ k \in DOMAIN a.results /\ c.dropped[k] = a.results[k]
       \/ k \in DOMAIN a.dropped /\ c.dropped[k] = a.dropped[k]
  /\ \A n \in c.made : \E m \in a.made : n.declared = m.declared /\ n.found = m.found
  /\ a.made # {} => c.made # {}

(* It has all a had.                                                       *)
KeepsAll(a, c) ==
  /\ Keeps(a, c) /\ c.outer = a.outer
  /\ DOMAIN a.results \cup DOMAIN a.dropped = DOMAIN c.results \cup DOMAIN c.dropped
  /\ \A m \in a.made : \E n \in c.made : n.declared = m.declared /\ n.found = m.found

LEMMA KeepingIsConsistent ==
  ASSUME NEW a, NEW c, Consistent(a), Keeps(a, c)
  PROVE  Consistent(c)
<1>1. Shaped(c)
  BY DEF Keeps, Shaped
<1>2. ASSUME NEW k \in Kinds, NEW x \in Objects(c, k) PROVE x \in Objects(a, k)
  <2>1. CASE x \in {c.results[j] : j \in DOMAIN c.results \cap {k}}
    BY <2>1 DEF Keeps, Objects
  <2>2. CASE x \in {c.dropped[j] : j \in DOMAIN c.dropped \cap {k}}
    BY <2>2 DEF Keeps, Objects
  <2>3. CASE k = Declarations /\ x \in {m.declared : m \in c.made}
    BY <2>3 DEF Keeps, Objects
  <2>4. CASE k = Found /\ x \in {m.found : m \in c.made}
    BY <2>4 DEF Keeps, Objects
  <2> QED
    BY <1>2, <2>1, <2>2, <2>3, <2>4 DEF Objects
<1>3. OneEach(c)
  BY <1>2 DEF OneEach, Consistent
<1>4. AsNoted(c)
  BY DEF AsNoted, Keeps, Consistent
<1> QED
  BY <1>1, <1>3, <1>4 DEF Consistent

LEMMA KeepingOnKeeping ==
  ASSUME NEW a, NEW b, NEW c, Keeps(a, b), Keeps(b, c)
  PROVE  Keeps(a, c)
BY DEF Keeps

LEMMA KeepingAllRepeats ==
  ASSUME NEW mod, NEW a, NEW c, Shaped(a), KeepsAll(a, c), Repeats(mod, a)
  PROVE  Repeats(mod, c)
<1>1. ASSUME NEW k, NEW at, Has(a, k, at) PROVE Has(c, k, at)
  BY <1>1 DEF Has, IsAt, KeepsAll, Keeps, Shaped
<1>2. PICK m \in a.made :
        /\ m.declared.value = mod.decl /\ m.found.value = AccessesIn(mod)
        /\ a.outer[Declarations] = m.declared.at
        /\ Has(a, Declarations, m.declared.at) /\ Has(a, Found, m.found.at)
        /\ Has(a, Summaries, a.outer[Summaries])
  BY DEF Repeats
<1>3. PICK n \in c.made : n.declared = m.declared /\ n.found = m.found
  BY DEF KeepsAll
<1>4. c.outer = a.outer
  BY DEF KeepsAll
<1> QED
  BY <1>1, <1>2, <1>3, <1>4 DEF Repeats

LEMMA DroppedIs ==
  ASSUME NEW a, Shaped(a), NEW S
  PROVE  LET c == Dropped(a, S)
         IN  /\ KeepsAll(a, c)
             /\ DOMAIN c.results = DOMAIN a.results \ S
             /\ c.made = a.made /\ c.edited = a.edited /\ c.open = a.open
<1> DEFINE gone == Only(a.results, S)
           results == Without(a.results, S)
           dropped == Over(gone, a.dropped)
           c == Dropped(a, S)
<1>1. a \in State /\ a.results \in Holding /\ a.dropped \in Holding
  BY DEF Shaped, State
<1>2. /\ gone \in Holding /\ DOMAIN gone = DOMAIN a.results \cap S
      /\ \A k \in DOMAIN a.results \cap S : gone[k] = a.results[k]
  BY <1>1, OnlyIs, Zenon
<1>3. /\ results \in Holding /\ DOMAIN results = DOMAIN a.results \ S
      /\ \A k \in DOMAIN a.results \ S : results[k] = a.results[k]
  BY <1>1, WithoutIs, Zenon
<1>4. c = [a EXCEPT !.results = results, !.dropped = dropped]
  BY DEF Dropped
<1> HIDE DEF gone
<1>5. /\ dropped \in Holding /\ DOMAIN dropped = DOMAIN gone \cup DOMAIN a.dropped
      /\ \A k \in DOMAIN gone : dropped[k] = gone[k]
      /\ \A k \in DOMAIN a.dropped \ DOMAIN gone : dropped[k] = a.dropped[k]
  BY <1>1, <1>2, BothIs, Zenon
<1> HIDE DEF results, dropped, c
<1>6. /\ c \in State /\ c.results = results /\ c.dropped = dropped /\ c.made = a.made
      /\ c.edited = a.edited /\ c.open = a.open /\ c.outer = a.outer
  BY <1>1, <1>3, <1>4, <1>5 DEF State
<1>7. DOMAIN c.results \cap DOMAIN c.dropped = {}
  BY <1>2, <1>3, <1>5, <1>6 DEF Shaped
<1>8. \A k \in DOMAIN c.dropped :
        \/ k \in DOMAIN a.results /\ c.dropped[k] = a.results[k]
        \/ k \in DOMAIN a.dropped /\ c.dropped[k] = a.dropped[k]
  BY <1>2, <1>5, <1>6
<1>9. Keeps(a, c)
  BY <1>3, <1>6, <1>7, <1>8 DEF Keeps, Shaped
<1> QED
  BY <1>2, <1>3, <1>5, <1>6, <1>9 DEF KeepsAll, c

(* Its notes are a's, marked.                                              *)
LEMMA MarkingKeeps ==
  ASSUME NEW a, Shaped(a), NEW c \in State,
         \A m \in a.made : \E n \in c.made : n.declared = m.declared /\ n.found = m.found,
         \A n \in c.made : \E m \in a.made : n.declared = m.declared /\ n.found = m.found,
         \A m, n \in c.made : m = n,
         c.results = a.results, c.dropped = a.dropped, c.outer = a.outer
  PROVE  KeepsAll(a, c)
<1>1. Keeps(a, c)
  BY DEF Keeps, Shaped
<1> QED
  BY <1>1 DEF KeepsAll

LEMMA ToldIs ==
  ASSUME NEW a, Shaped(a), NEW S \in SUBSET Globals
  PROVE  LET c == Told(a, S)
         IN  /\ KeepsAll(a, c) /\ c.results = a.results /\ c.dropped = a.dropped
             /\ c.open = a.open /\ c.edited = a.edited \cup S
             /\ \A n \in c.made : \E m \in a.made :
                  n = [m EXCEPT !.logged = m.logged \cup (S \cap Functions)]
<1> DEFINE marked(m) == [m EXCEPT !.logged = m.logged \cup (S \cap Functions)]
           made == {marked(m) : m \in a.made}
           c == Told(a, S)
<1>1. a \in State /\ a.made \subseteq Note
  BY DEF Shaped, State
<1>2. \A m \in a.made : /\ marked(m) \in Note /\ marked(m).declared = m.declared
                        /\ marked(m).found = m.found
  BY <1>1 DEF Note
<1>3. c = [a EXCEPT !.edited = a.edited \cup S, !.made = made]
  BY <1>1 DEF Told, State
<1>4. made \subseteq Note
  BY <1>2
<1>5. /\ \A m \in a.made : \E n \in made : n.declared = m.declared /\ n.found = m.found
      /\ \A n \in made : \E m \in a.made : n.declared = m.declared /\ n.found = m.found
      /\ \A m, n \in made : m = n
      /\ \A n \in made : \E m \in a.made : n = marked(m)
  BY <1>2 DEF Shaped
<1> HIDE DEF made, c
<1>6. /\ c \in State /\ c.results = a.results /\ c.dropped = a.dropped /\ c.made = made
      /\ c.edited = a.edited \cup S /\ c.open = a.open /\ c.outer = a.outer
  BY <1>1, <1>3, <1>4 DEF State
<1>7. KeepsAll(a, c)
  BY <1>5, <1>6, MarkingKeeps
<1> QED
  BY <1>5, <1>6, <1>7 DEF c

LEMMA LoggedIs ==
  ASSUME NEW a, Shaped(a), NEW f \in Functions, NEW what
  PROVE  LET c == Logged(a, f, what)
         IN  /\ KeepsAll(a, c) /\ c.results = a.results
             /\ "body" \notin what => c = a
<1> DEFINE marked(m) == [m EXCEPT !.logged = m.logged \cup {f}]
           made == {marked(m) : m \in a.made}
           c == Logged(a, f, what)
<1>1. a \in State /\ a.made \subseteq Note
  BY DEF Shaped, State
<1>2. CASE "body" \notin what
  <2>1. c = a
    BY <1>2 DEF Logged
  <2>2. KeepsAll(a, a)
    BY <1>1, MarkingKeeps DEF Shaped
  <2> QED
    BY <2>1, <2>2
<1>3. CASE "body" \in what
  <2>1. \A m \in a.made : /\ marked(m) \in Note /\ marked(m).declared = m.declared
                          /\ marked(m).found = m.found
    BY <1>1 DEF Note
  <2>2. c = [a EXCEPT !.made = made]
    BY <1>1, <1>3 DEF Logged, State
  <2>3. made \subseteq Note
    BY <2>1
  <2>4. /\ \A m \in a.made : \E n \in made : n.declared = m.declared /\ n.found = m.found
        /\ \A n \in made : \E m \in a.made : n.declared = m.declared /\ n.found = m.found
        /\ \A m, n \in made : m = n
    BY <2>1 DEF Shaped
  <2> HIDE DEF made, c
  <2>5. /\ c \in State /\ c.results = a.results /\ c.dropped = a.dropped
        /\ c.made = made /\ c.outer = a.outer
    BY <1>1, <2>2, <2>3 DEF State
  <2>6. KeepsAll(a, c)
    BY <2>4, <2>5, MarkingKeeps
  <2> QED
    BY <1>3, <2>5, <2>6 DEF c
<1> QED
  BY <1>2, <1>3

LEMMA InvalidateBodiesIs ==
  ASSUME NEW a, Shaped(a), NEW preserved
  PROVE  LET c == InvalidateBodies(a, preserved)
         IN  /\ KeepsAll(a, c) /\ c.made = a.made /\ c.edited = a.edited /\ c.open = a.open
             /\ DOMAIN c.results = DOMAIN a.results \cap (preserved \cup stateless)
<1>1. a \in State /\ DOMAIN a.results \subseteq Kinds
  BY HoldingIs DEF Shaped, State
<1> DEFINE S == Kinds \ (preserved \cup stateless)
           c == Dropped(a, S)
<1>2. InvalidateBodies(a, preserved) = c
  BY DEF InvalidateBodies
<1> HIDE DEF S
<1>3. /\ KeepsAll(a, c) /\ DOMAIN c.results = DOMAIN a.results \ S
      /\ c.made = a.made /\ c.edited = a.edited /\ c.open = a.open
  BY DroppedIs
<1> HIDE DEF c
<1> QED
  BY <1>1, <1>2, <1>3 DEF S

(* Anything may have changed.                                              *)
AllOpen(a) == a.open /\ \A m \in a.made : m.resets

LEMMA AllOpenIsTold ==
  ASSUME NEW mod, NEW a, AllOpen(a)
  PROVE  ToldOf(mod, a)
BY DEF AllOpen, ToldOf

LEMMA KeepingAllOnKeepingAll ==
  ASSUME NEW a, NEW b, NEW c, KeepsAll(a, b), KeepsAll(b, c)
  PROVE  KeepsAll(a, c)
<1>1. Keeps(a, c)
  BY KeepingOnKeeping DEF KeepsAll
<1>2. \A m \in a.made : \E n \in c.made : n.declared = m.declared /\ n.found = m.found
  <2> TAKE m \in a.made
  <2>1. PICK n \in b.made : n.declared = m.declared /\ n.found = m.found
    BY DEF KeepsAll
  <2>2. PICK l \in c.made : l.declared = n.declared /\ l.found = n.found
    BY DEF KeepsAll
  <2> QED
    BY <2>1, <2>2
<1> QED
  BY <1>1, <1>2 DEF KeepsAll

LEMMA InvalidateIs ==
  ASSUME NEW a, Shaped(a), NEW preserved
  PROVE  LET c == Invalidate(a, preserved)
         IN  /\ KeepsAll(a, c) /\ AllOpen(c)
             /\ DOMAIN c.results = DOMAIN a.results \cap (preserved \cup stateless)
<1> DEFINE b == InvalidateBodies(a, preserved)
           made == {[m EXCEPT !.resets = TRUE] : m \in b.made}
           c == Invalidate(a, preserved)
<1>1. /\ KeepsAll(a, b) /\ b.made = a.made
      /\ DOMAIN b.results = DOMAIN a.results \cap (preserved \cup stateless)
  BY InvalidateBodiesIs
<1>2. c = [b EXCEPT !.open = TRUE, !.made = made]
  BY DEF Invalidate
<1> HIDE DEF b
<1>3. b \in State /\ Shaped(b) /\ b.made \subseteq Note
  BY <1>1 DEF KeepsAll, Keeps, Shaped, State
<1>4. \A m \in b.made : LET n == [m EXCEPT !.resets = TRUE] IN
        n \in Note /\ n.declared = m.declared /\ n.found = m.found /\ n.resets
  BY <1>3 DEF Note
<1>5. /\ \A m \in b.made : \E n \in made : n.declared = m.declared /\ n.found = m.found
      /\ \A n \in made : \E m \in b.made : n.declared = m.declared /\ n.found = m.found
      /\ \A m, n \in made : m = n
      /\ made \subseteq Note /\ \A n \in made : n.resets
  BY <1>3, <1>4 DEF Shaped
<1> HIDE DEF made, c
<1>6. /\ c \in State /\ c.results = b.results /\ c.dropped = b.dropped /\ c.made = made
      /\ c.edited = b.edited /\ c.open /\ c.outer = b.outer
  BY <1>2, <1>3, <1>5 DEF State
<1>7. KeepsAll(b, c)
  BY <1>3, <1>5, <1>6, MarkingKeeps
<1>8. KeepsAll(a, c)
  BY <1>1, <1>7, KeepingAllOnKeepingAll
<1> QED
  BY <1>1, <1>5, <1>6, <1>8 DEF AllOpen, c

LEMMA InvalidateLoggedIs ==
  ASSUME NEW a, Shaped(a), NEW preserved
  PROVE  LET c == InvalidateLogged(a, preserved)
         IN  /\ KeepsAll(a, c) /\ c.open /\ c.made = a.made
             /\ DOMAIN c.results = DOMAIN a.results \cap (preserved \cup stateless)
<1> DEFINE b == InvalidateBodies(a, preserved)
           c == InvalidateLogged(a, preserved)
<1>1. /\ KeepsAll(a, b) /\ b.made = a.made
      /\ DOMAIN b.results = DOMAIN a.results \cap (preserved \cup stateless)
  BY InvalidateBodiesIs
<1>2. c = [b EXCEPT !.open = TRUE]
  BY DEF InvalidateLogged
<1> HIDE DEF b, c
<1>3. b \in State /\ Shaped(b)
  BY <1>1 DEF KeepsAll, Keeps, Shaped
<1>4. /\ c \in State /\ c.results = b.results /\ c.dropped = b.dropped /\ c.made = b.made
      /\ c.open /\ c.outer = b.outer
  BY <1>2, <1>3 DEF State
<1>5. KeepsAll(b, c)
  BY <1>3, <1>4, MarkingKeeps DEF Shaped
<1>6. KeepsAll(a, c)
  BY <1>1, <1>5, KeepingAllOnKeepingAll
<1> QED
  BY <1>1, <1>4, <1>6 DEF c

LEMMA AbandonedIs ==
  ASSUME NEW a, Shaped(a), NEW S
  PROVE  Keeps(a, Abandoned(a, S))
<1> DEFINE results == Without(a.results, S)
           dropped == Without(a.dropped, S)
           c == Abandoned(a, S)
<1>1. a \in State /\ a.results \in Holding /\ a.dropped \in Holding
  BY DEF Shaped, State
<1>2. /\ results \in Holding /\ DOMAIN results = DOMAIN a.results \ S
      /\ \A k \in DOMAIN a.results \ S : results[k] = a.results[k]
  BY <1>1, WithoutIs, Zenon
<1>3. /\ dropped \in Holding /\ DOMAIN dropped = DOMAIN a.dropped \ S
      /\ \A k \in DOMAIN a.dropped \ S : dropped[k] = a.dropped[k]
  BY <1>1, WithoutIs, Zenon
<1>4. c = [a EXCEPT !.results = results, !.dropped = dropped]
  BY DEF Abandoned
<1> HIDE DEF results, dropped, c
<1>5. /\ c \in State /\ c.results = results /\ c.dropped = dropped /\ c.made = a.made
  BY <1>1, <1>2, <1>3, <1>4 DEF State
<1>6. Keeps(a, c)
  BY <1>2, <1>3, <1>5 DEF Keeps, Shaped
<1> QED
  BY <1>6 DEF c

(* The next run starts from these.                                         *)
LEMMA CarriedIs ==
  ASSUME NEW a, Shaped(a)
  PROVE  LET c == Carried(a)
         IN  /\ Keeps(a, c) /\ DOMAIN c.results \subseteq stateless
             /\ c.open /\ \A m \in c.made : ~m.sameLog
<1> DEFINE results == Only(a.results, stateless)
           gone == Without(a.results, stateless)
           dropped == Over(gone, a.dropped)
           made == {[m EXCEPT !.sameLog = FALSE] : m \in a.made}
           c == Carried(a)
<1>1. /\ a \in State /\ a.results \in Holding /\ a.dropped \in Holding
      /\ a.made \subseteq Note
  BY DEF Shaped, State
<1>2. /\ results \in Holding /\ DOMAIN results = DOMAIN a.results \cap stateless
      /\ \A k \in DOMAIN a.results \cap stateless : results[k] = a.results[k]
  BY <1>1, OnlyIs, Zenon
<1>3. /\ gone \in Holding /\ DOMAIN gone = DOMAIN a.results \ stateless
      /\ \A k \in DOMAIN a.results \ stateless : gone[k] = a.results[k]
  BY <1>1, WithoutIs, Zenon
<1> HIDE DEF gone
<1>4. /\ dropped \in Holding /\ DOMAIN dropped = DOMAIN gone \cup DOMAIN a.dropped
      /\ \A k \in DOMAIN gone : dropped[k] = gone[k]
      /\ \A k \in DOMAIN a.dropped \ DOMAIN gone : dropped[k] = a.dropped[k]
  BY <1>1, <1>3, BothIs
<1>5. \A m \in a.made : LET n == [m EXCEPT !.sameLog = FALSE] IN
        n \in Note /\ n.declared = m.declared /\ n.found = m.found /\ ~n.sameLog
  BY <1>1 DEF Note
<1>6. /\ \A n \in made : \E m \in a.made : n.declared = m.declared /\ n.found = m.found
      /\ \A m, n \in made : m = n
      /\ made \subseteq Note /\ \A n \in made : ~n.sameLog
  <2>1. \A m, n \in made : m = n
    BY DEF Shaped
  <2> QED
    BY <1>5, <2>1
<1>6a. a.made # {} => made # {}
  OBVIOUS
<1>7. c = [New EXCEPT !.results = results, !.dropped = dropped, !.made = made]
  BY DEF Carried, gone
<1>8. <<>> \in UNION {[S -> Nat] : S \in SUBSET Kinds}
  <2>1. <<>> \in [{} -> Nat]
    OBVIOUS
  <2> QED
    BY <2>1
<1> HIDE DEF results, dropped, made, c
<1>9. /\ c = [results |-> results, dropped |-> dropped, edited |-> {}, open |-> TRUE,
              made |-> made, outer |-> <<>>]
      /\ c.results = results /\ c.dropped = dropped /\ c.made = made /\ c.open
  BY <1>7 DEF New
<1>10. c \in State
  BY <1>2, <1>4, <1>6, <1>8, <1>9 DEF State
<1>11. \A k \in DOMAIN c.dropped :
         \/ k \in DOMAIN a.results /\ c.dropped[k] = a.results[k]
         \/ k \in DOMAIN a.dropped /\ c.dropped[k] = a.dropped[k]
  BY <1>3, <1>4, <1>9
<1>12. DOMAIN c.results \cap DOMAIN c.dropped = {}
  BY <1>2, <1>3, <1>4, <1>9 DEF Shaped
<1>13. Keeps(a, c)
  BY <1>2, <1>6, <1>6a, <1>9, <1>10, <1>11, <1>12 DEF Keeps
<1> QED
  BY <1>2, <1>6, <1>9, <1>13 DEF c
-----------------------------------------------------------------------------
(* Editing.                                                                *)

LEMMA EditedIs ==
  ASSUME Controls, NEW g \in Globals, NEW what
  PROVE  LET mod == Edited(g, what)
         IN  /\ mod \in [body : [Globals -> Version], decl : [Globals -> Version]]
             /\ "body" \notin what => AccessesIn(mod) = AccessesIn(module)
             /\ "place" \notin what =>
                  \A h \in Globals \ {g} : mod.decl[h] = module.decl[h]
             /\ what \cap {"decl", "place"} = {} => mod.decl = module.decl
<1>1. /\ module.body \in [Globals -> Version] /\ module.decl \in [Globals -> Version]
  BY DEF Controls
<1> DEFINE body == [module.body EXCEPT ![g] = IF "body" \in what THEN 1 - @ ELSE @]
           decl == [h \in Globals |->
                      IF \/ h = g /\ "decl" \in what
                         \/ h = Variable /\ "place" \in what
                      THEN 1 - module.decl[h] ELSE module.decl[h]]
<1>2. body \in [Globals -> Version] /\ decl \in [Globals -> Version]
  BY <1>1 DEF Version
<1>3. "body" \notin what => body = module.body
  BY <1>1
<1>4. "place" \notin what => \A h \in Globals \ {g} : decl[h] = module.decl[h]
  OBVIOUS
<1>5. what \cap {"decl", "place"} = {} => decl = module.decl
  BY <1>1
<1>6. Edited(g, what) = [body |-> body, decl |-> decl]
  BY DEF Edited
<1> HIDE DEF body, decl
<1> QED
  BY <1>2, <1>3, <1>4, <1>5, <1>6 DEF AccessesIn

(* What a pass preserves tells nothing its edit changed.                   *)
LEMMA HonestIs ==
  ASSUME NEW what \in Edits, NEW preserved \in Honest(what)
  PROVE  /\ Declarations \in preserved => what \cap {"decl", "place"} = {}
         /\ Found \in preserved => "body" \notin what
         /\ Summaries \in preserved => what = {} /\ preserved = Kinds
<1>1. /\ Reads(Declarations) = {"decl", "place"} /\ Reads(Found) = {"body"}
      /\ Reads(Summaries) = {"body", "decl", "place"}
  BY Zenon DEF Reads, Declarations, Found, Summaries
<1>2. preserved = {} \/ preserved = {k \in Kinds : Reads(k) \cap what = {}}
  BY DEF Honest
<1>3. what \subseteq {"body", "decl", "place"}
  BY EditsAssumption
<1>4. Summaries \in preserved => what = {}
  BY <1>1, <1>2, <1>3
<1>5. Summaries \in preserved => preserved = Kinds
  BY <1>2, <1>4
<1> QED
  BY <1>1, <1>2, <1>4, <1>5

LEMMA EmptyEditIs ==
  ASSUME Controls, NEW g \in Globals
  PROVE  LET mod == Edited(g, {})
         IN  mod.decl = module.decl /\ AccessesIn(mod) = AccessesIn(module)
BY EditedIs

(* What is held stays true where nothing it is of was edited.              *)
LEMMA TrueAfter ==
  ASSUME NEW mod, NEW mod2, NEW a, NEW c, NEW S, NEW T,
         TrueOf(mod, a, S), Keeps(a, c), T \cap DOMAIN c.results \subseteq S,
         Declarations \in T \cap DOMAIN c.results => mod2.decl = mod.decl,
         Found \in (T \cap DOMAIN c.results) \ stateless => AccessesIn(mod2) = AccessesIn(mod),
         Summaries \in T \cap DOMAIN c.results =>
           /\ mod2.decl = mod.decl /\ AccessesIn(mod2) = AccessesIn(mod)
           /\ DOMAIN a.results \cap stateless \subseteq DOMAIN c.results
  PROVE  TrueOf(mod2, c, T)
<1>1. Declarations \in T \cap DOMAIN c.results => c.results[Declarations].value = mod2.decl
  BY DEF TrueOf, Keeps
<1>2. Found \in (T \cap DOMAIN c.results) \ stateless
        => c.results[Found].value = AccessesIn(mod2)
  BY DEF TrueOf, Keeps
<1>3. ASSUME Summaries \in T \cap DOMAIN c.results, NEW n \in c.made
      PROVE  n.declared.value = mod2.decl /\ n.found.value = FoundNow(mod2, c)
  <2>1. PICK m \in a.made : n.declared = m.declared /\ n.found = m.found
    BY DEF Keeps
  <2>2. m.declared.value = mod.decl /\ m.found.value = FoundNow(mod, a)
    BY <1>3 DEF TrueOf, Keeps
  <2>3. FoundNow(mod2, c) = FoundNow(mod, a)
    BY <1>3 DEF FoundNow, Keeps
  <2> QED
    BY <1>3, <2>1, <2>2, <2>3
<1> QED
  BY <1>1, <1>2, <1>3 DEF TrueOf

LEMMA NothingHeldIsTrue ==
  ASSUME NEW mod, NEW c, NEW T, stateless \in {{}, {Found}},
         T \cap DOMAIN c.results \subseteq stateless
  PROVE  TrueOf(mod, c, T)
BY KindsDiffer DEF TrueOf

(* One function's edit is told.                                            *)
LEMMA ToldAfterEdit ==
  ASSUME Controls, NEW a, NEW c, NEW mod2, NEW f \in Functions,
         Good(module, a), KeepsAll(a, c),
         \A h \in Globals \ {f} : mod2.decl[h] = module.decl[h],
         c.open \/ (~a.open /\ c.edited = a.edited \cup {f}),
         \A n \in c.made : \E m \in a.made :
           n = [m EXCEPT !.logged = m.logged \cup ({f} \cap Functions)]
  PROVE  ToldOf(mod2, c)
<1>1. ASSUME Declarations \in DOMAIN c.dropped, ~c.open
      PROVE  Agrees(c.dropped[Declarations].value, mod2, c.edited)
  <2>1. Agrees(c.dropped[Declarations].value, module, a.edited)
    <3>1. CASE Declarations \in DOMAIN a.results
                 /\ c.dropped[Declarations] = a.results[Declarations]
      <4>1. a.results[Declarations].value = module.decl
        BY <3>1, KindsDiffer DEF Good, TrueOf, Controls
      <4> QED
        BY <3>1, <4>1 DEF Agrees
    <3>2. CASE Declarations \in DOMAIN a.dropped
                 /\ c.dropped[Declarations] = a.dropped[Declarations]
      BY <1>1, <3>2 DEF Good, ToldOf
    <3> QED
      BY <1>1, <3>1, <3>2 DEF KeepsAll, Keeps
  <2> QED
    BY <1>1, <2>1 DEF Agrees
<1>2. ASSUME NEW n \in c.made, n.sameLog, ~n.resets
      PROVE  Agrees(n.declared.value, mod2, n.logged)
  <2>1. PICK m \in a.made : n = [m EXCEPT !.logged = m.logged \cup ({f} \cap Functions)]
    OBVIOUS
  <2>2. m \in Note
    BY DEF Good, Consistent, Shaped, State
  <2>3. /\ n.declared = m.declared /\ n.sameLog = m.sameLog /\ n.resets = m.resets
        /\ n.logged = m.logged \cup {f}
    BY <2>1, <2>2 DEF Note
  <2>4. Agrees(m.declared.value, module, m.logged)
    BY <1>2, <2>3 DEF Good, ToldOf
  <2> QED
    BY <2>3, <2>4 DEF Agrees
<1> QED
  BY <1>1, <1>2 DEF ToldOf
-----------------------------------------------------------------------------
(* The invariant, step by step.                                            *)

LEMMA GoodIs ==
  ASSUME Inv, phase \in {"pipeline", "module"}, unsaid = {}
  PROVE  /\ Controls /\ Shaped(analyses) /\ Consistent(analyses) /\ Good(module, analyses)
         /\ stateless = {} /\ frozen = {} => Matched(analyses)
         /\ stateless = {} /\ frozen = {} /\ quiet => Repeats(module, analyses)
BY DEF Inv, Consistent

(* What holds of the next state's analyses holds there.                    *)
LEMMA NextGood ==
  ASSUME stateless' = stateless, frozen' = frozen, Good(module', analyses')
  PROVE  Good(module, analyses)'
BY DEF Good, TrueOf, FoundNow

LEMMA MatchedAfter ==
  ASSUME NEW a, NEW c, Matched(a), Keeps(a, c),
         Summaries \in DOMAIN c.results =>
           DOMAIN a.results \cap {Declarations, Found} \subseteq DOMAIN c.results
  PROVE  Matched(c)
<1> SUFFICES ASSUME Summaries \in DOMAIN c.results, NEW n \in c.made
             PROVE  IsAt(c, Declarations, n.declared.at) /\ IsAt(c, Found, n.found.at)
  BY DEF Matched
<1>1. PICK m \in a.made : n.declared = m.declared /\ n.found = m.found
  BY DEF Keeps
<1>2. IsAt(a, Declarations, m.declared.at) /\ IsAt(a, Found, m.found.at)
  BY DEF Matched, Keeps
<1> QED
  BY <1>1, <1>2 DEF IsAt, Keeps

LEMMA InitInv ==
  ASSUME Init
  PROVE  Inv
<1>0. module \in [body : [Globals -> Version], decl : [Globals -> Version]]
  <2>1. [g \in Globals |-> 0] \in [Globals -> Version]
    BY DEF Version
  <2> QED
    BY <2>1 DEF Init
<1>1. Controls
  <2>1. /\ stateless \in {{}, {Found}} /\ frozen = {} /\ phase = "pipeline" /\ unsaid = {}
        /\ next = 1 /\ kept = {} /\ quiet = FALSE /\ edits = 0
    BY DEF Init
  <2>2. 1 \in 1 .. Count + 1
    BY GlobalsAre
  <2> QED
    BY <1>0, <2>1, <2>2 DEF Controls
<1>2. analyses = New /\ New.results = <<>> /\ New.dropped = <<>> /\ New.made = {} /\ New.open
  BY DEF Init, New
<1>3. <<>> \in [{} -> Nat]
  OBVIOUS
<1>4. New \in State
  BY <1>3, NothingHeld DEF New, State
<1>5. Consistent(New)
  BY <1>2, <1>4, NothingHeld DEF Consistent, Shaped, OneEach, Objects, AsNoted
<1>6. TrueOf(module, New, Kinds \ frozen) /\ ToldOf(module, New)
  BY <1>2, NothingHeld DEF TrueOf, ToldOf
<1>7. Matched(New)
  BY <1>2, NothingHeld DEF Matched
<1> HIDE DEF New
<1> QED
  BY <1>1, <1>2, <1>5, <1>6, <1>7 DEF Inv, Init, Good

LEMMA FunctionPassInv ==
  ASSUME Inv, FunctionPass
  PROVE  Inv' /\ (quiet /\ stateless = {} /\ frozen = {} => analyses'.outer = analyses.outer)
<1>1. /\ Controls /\ phase = "pipeline" /\ unsaid = {}
      /\ UNCHANGED <<module, edits, stateless, frozen, unsaid>>
      /\ analyses' = WithOuter(analyses) /\ phase' = "function" /\ next' = 1 /\ quiet' = TRUE
      /\ kept' = DOMAIN analyses'.results
  BY DEF FunctionPass, Inv, Controls
<1>2. /\ Good(module, analyses)
      /\ stateless = {} /\ frozen = {} => Matched(analyses)
      /\ stateless = {} /\ frozen = {} /\ quiet => Repeats(module, analyses)
  BY <1>1, GoodIs
<1>3. /\ Good(module, analyses')
      /\ stateless = {} /\ frozen = {} =>
           /\ Matched(analyses') /\ Repeats(module, analyses') /\ DOMAIN analyses'.results = Kinds
           /\ Repeats(module, analyses) => analyses'.outer = analyses.outer
  BY <1>1, <1>2, WithOuterIs
<1>4. Consistent(analyses') /\ DOMAIN analyses'.results \subseteq Kinds
  BY <1>3, HoldingIs DEF Good, Consistent, Shaped, State
<1>5. TrueOf(module, analyses', kept' \ frozen)
  BY <1>1, <1>3, <1>4 DEF Good, TrueOf
<1>6. TrueOf(module, analyses, kept \ frozen)'
  BY <1>1, <1>5 DEF TrueOf, FoundNow
<1>7. Controls'
  BY <1>1, <1>4, GlobalsAre DEF Controls
<1>8. Inv'
  BY <1>1, <1>3, <1>4, <1>6, <1>7 DEF Inv
<1> QED
  BY <1>2, <1>3, <1>8

LEMMA FunctionRunInv ==
  ASSUME Inv, NEW what \in Edits, NEW tables \in BOOLEAN, FunctionRun(what, tables)
  PROVE  Inv' /\ (stateless = {} => analyses'.outer = analyses.outer)
<1> DEFINE a == Logged(analyses, next, what)
           mod == Edited(next, what)
<1>1. /\ Controls /\ phase = "function" /\ next \in Functions /\ Consistent(analyses)
      /\ TrueOf(module, analyses, kept \ frozen) /\ Shaped(analyses)
  BY DEF FunctionRun, Inv, Consistent
<1>2. /\ UNCHANGED <<stateless, frozen, phase, unsaid>> /\ module' = mod
      /\ next' = next + 1 /\ quiet' = (quiet /\ what = {})
      /\ edits' = IF what = {} THEN edits ELSE edits + 1
      /\ tables => "place" \in what
      /\ analyses' = IF tables THEN Dropped(a, stateless) ELSE a
  BY DEF FunctionRun, Editing, AbandonStateless
<1>3. PICK preserved \in Honest(what) : kept' = kept \cap preserved
  BY DEF FunctionRun, Kept
<1>4. next \in Globals
  BY <1>1, GlobalsAre
<1>5. /\ mod \in [body : [Globals -> Version], decl : [Globals -> Version]]
      /\ "body" \notin what => AccessesIn(mod) = AccessesIn(module)
      /\ what \cap {"decl", "place"} = {} => mod.decl = module.decl
  BY <1>1, <1>4, EditedIs
<1> HIDE DEF mod
<1>6. /\ KeepsAll(analyses, a) /\ a.results = analyses.results
      /\ "body" \notin what => a = analyses
  BY <1>1, LoggedIs
<1> HIDE DEF a
<1>7. /\ KeepsAll(analyses, analyses') /\ (tables \/ analyses'.results = analyses.results)
      /\ stateless = {} => DOMAIN analyses'.results = DOMAIN analyses.results
  <2>1. CASE ~tables
    BY <1>2, <1>6, <2>1
  <2>2. CASE tables
    <3> DEFINE c == Dropped(a, stateless)
    <3>1. Shaped(a)
      BY <1>6 DEF KeepsAll, Keeps, Shaped
    <3>2. KeepsAll(a, c) /\ DOMAIN c.results = DOMAIN a.results \ stateless
      BY <3>1, DroppedIs
    <3> HIDE DEF c
    <3>3. KeepsAll(analyses, c)
      BY <1>6, <3>2, KeepingAllOnKeepingAll
    <3>4. analyses' = c
      BY <1>2, <2>2 DEF c
    <3> QED
      BY <1>6, <2>2, <3>2, <3>3, <3>4
  <2> QED
    BY <2>1, <2>2
<1>8. Keeps(analyses, analyses') /\ analyses'.outer = analyses.outer
  BY <1>7 DEF KeepsAll
<1>9. Consistent(analyses')
  BY <1>1, <1>8, KeepingIsConsistent
<1>10. /\ Declarations \in preserved => mod.decl = module.decl
       /\ Found \in preserved => AccessesIn(mod) = AccessesIn(module)
       /\ Summaries \in preserved => what = {} /\ preserved = Kinds
  BY <1>3, <1>5, HonestIs
<1>11. TrueOf(mod, analyses', kept' \ frozen)
  <2>1. Summaries \in preserved =>
          /\ mod.decl = module.decl /\ AccessesIn(mod) = AccessesIn(module)
          /\ analyses'.results = analyses.results
    BY <1>2, <1>5, <1>7, <1>10
  <2> DEFINE T == kept' \ frozen
             S == kept \ frozen
  <2>2. /\ T \cap DOMAIN analyses'.results \subseteq S
        /\ \A k \in T : k \in preserved
    BY <1>3
  <2> HIDE DEF T, S
  <2>3. TrueOf(module, analyses, S)
    BY <1>1 DEF S
  <2>4. TrueOf(mod, analyses', T)
    BY <1>8, <1>10, <2>1, <2>2, <2>3, TrueAfter
  <2> QED
    BY <2>4 DEF T
<1>12. TrueOf(module, analyses, kept \ frozen)'
  BY <1>2, <1>11 DEF TrueOf, FoundNow
<1>13. Controls'
  <2>1. next + 1 \in 1 .. Count + 1
    BY <1>1, GlobalsAre DEF Functions
  <2>2. edits' \in Nat
    BY <1>1, <1>2 DEF Controls
  <2> QED
    BY <1>1, <1>2, <1>3, <1>5, <2>1, <2>2 DEF Controls
<1>14. ASSUME stateless = {}, frozen = {}
       PROVE  /\ Matched(analyses')
              /\ Summaries \in kept' => kept' = Kinds
              /\ quiet' => Repeats(mod, analyses')
  <2>1. Matched(analyses')
    BY <1>7, <1>8, <1>14, MatchedAfter DEF Inv
  <2>2. Summaries \in kept' => kept' = Kinds
    BY <1>1, <1>3, <1>10, <1>14 DEF Inv
  <2>3. quiet' => Repeats(module, analyses)
    BY <1>2, <1>14 DEF Inv
  <2>4. quiet' => Repeats(module, analyses')
    BY <1>1, <1>7, <2>3, KeepingAllRepeats
  <2>5. quiet' => mod.decl = module.decl /\ AccessesIn(mod) = AccessesIn(module)
    BY <1>2, <1>5
  <2>6. quiet' => Repeats(mod, analyses')
    BY <2>4, <2>5 DEF Repeats
  <2> QED
    BY <2>1, <2>2, <2>6
<1>15. unsaid = {}
  BY <1>1 DEF Controls
<1>16. Inv'
  BY <1>1, <1>2, <1>9, <1>12, <1>13, <1>14, <1>15 DEF Inv
<1> QED
  BY <1>8, <1>16

LEMMA FunctionPassEndsInv ==
  ASSUME Inv, NEW adds \in BOOLEAN, FunctionPassEnds(adds)
  PROVE  Inv' /\ analyses'.outer = analyses.outer
<1> DEFINE held == IF adds THEN {} ELSE frozen
           c == Invalidate(analyses, kept \cup held)
<1>1. /\ Controls /\ phase = "function" /\ Consistent(analyses) /\ unsaid = {}
      /\ TrueOf(module, analyses, kept \ frozen) /\ Shaped(analyses)
  BY DEF FunctionPassEnds, Inv, Consistent, Controls
<1>2. /\ UNCHANGED <<module, edits, stateless, frozen, unsaid, quiet>>
      /\ phase' = "pipeline" /\ next' = 1 /\ kept' = {} /\ analyses' = c
  BY DEF FunctionPassEnds
<1>3. held \subseteq frozen
  OBVIOUS
<1>4. /\ KeepsAll(analyses, c) /\ AllOpen(c)
      /\ DOMAIN c.results = DOMAIN analyses.results \cap (kept \cup held \cup stateless)
  BY <1>1, InvalidateIs
<1> HIDE DEF c, held
<1>5. Keeps(analyses, c) /\ c.outer = analyses.outer
  BY <1>4 DEF KeepsAll
<1>6. Consistent(c)
  BY <1>1, <1>5, KeepingIsConsistent
<1>7. TrueOf(module, c, Kinds \ frozen)
  <2> DEFINE S == kept \ frozen
             T == (Kinds \ frozen) \ stateless
  <2>1. /\ T \cap DOMAIN c.results \subseteq S
        /\ DOMAIN analyses.results \cap stateless \subseteq DOMAIN c.results
    BY <1>3, <1>4
  <2> HIDE DEF S, T
  <2>2. TrueOf(module, analyses, S)
    BY <1>1 DEF S
  <2>3. TrueOf(module, c, T)
    BY <1>5, <2>1, <2>2, TrueAfter
  <2> QED
    BY <1>1, <2>3, KindsDiffer DEF TrueOf, Controls, T
<1>8. Good(module, c)
  BY <1>4, <1>6, <1>7, AllOpenIsTold DEF Good
<1>9. Good(module, analyses)'
  BY <1>2, <1>8, NextGood
<1>10. ASSUME stateless = {}, frozen = {}
       PROVE  Matched(c) /\ (quiet => Repeats(module, c))
  <2>1. Summaries \in DOMAIN c.results =>
          DOMAIN analyses.results \cap {Declarations, Found} \subseteq DOMAIN c.results
    BY <1>1, <1>3, <1>4, <1>10, KindsDiffer DEF Inv
  <2>2. Matched(c)
    BY <1>5, <1>10, <2>1, MatchedAfter DEF Inv
  <2>3. quiet => Repeats(module, c)
    BY <1>1, <1>4, <1>10, KeepingAllRepeats DEF Inv
  <2> QED
    BY <2>2, <2>3
<1>11. Controls'
  BY <1>1, <1>2, GlobalsAre DEF Controls
<1>12. Inv'
  BY <1>1, <1>2, <1>6, <1>9, <1>10, <1>11 DEF Inv
<1> QED
  BY <1>2, <1>5, <1>12

LEMMA ModulePassInv ==
  ASSUME Inv, ModulePass
  PROVE  Inv' /\ analyses' = analyses
<1>1. /\ Controls /\ phase = "pipeline" /\ unsaid = {} /\ Good(module, analyses)
      /\ Consistent(analyses) /\ phase' = "module"
      /\ UNCHANGED <<module, edits, analyses, stateless, frozen, unsaid, next, kept, quiet>>
  BY DEF ModulePass, Inv, Controls
<1>2. Good(module, analyses)'
  BY <1>1, NextGood
<1>3. Controls'
  BY <1>1 DEF Controls
<1> QED
  BY <1>1, <1>2, <1>3 DEF Inv

LEMMA AskInv ==
  ASSUME Inv, NEW k \in Kinds, Ask(k)
  PROVE  Inv' /\ analyses'.outer = analyses.outer
<1>1. /\ Controls /\ phase = "module" /\ unsaid = {} /\ analyses' = With(analyses, k)
      /\ UNCHANGED <<module, edits, stateless, frozen, phase, unsaid, next, kept, quiet>>
  BY DEF Ask, Inv
<1>2. /\ Good(module, analyses)
      /\ stateless = {} /\ frozen = {} => Matched(analyses)
      /\ stateless = {} /\ frozen = {} /\ quiet => Repeats(module, analyses)
  BY <1>1, GoodIs
<1>3. Good(module, analyses') /\ analyses'.outer = analyses.outer
  BY <1>1, <1>2, AskedIs
<1>4. stateless = {} /\ frozen = {} => Matched(analyses')
  BY <1>1, <1>2, AskedKeepsMatched
<1>5. stateless = {} /\ frozen = {} /\ quiet => Repeats(module, analyses')
  BY <1>1, <1>2, AskedAgain
<1>6. Good(module, analyses)'
  BY <1>1, <1>3, NextGood
<1>7. Controls' /\ Consistent(analyses')
  BY <1>1, <1>3 DEF Controls, Good
<1>8. Inv'
  BY <1>1, <1>4, <1>5, <1>6, <1>7 DEF Inv
<1> QED
  BY <1>3, <1>8

LEMMA EditingIs ==
  ASSUME Controls, NEW g \in Globals, NEW what, Editing(g, what)
  PROVE  /\ module' = Edited(g, what) /\ edits' \in Nat
         /\ module' \in [body : [Globals -> Version], decl : [Globals -> Version]]
<1>1. module' = Edited(g, what) /\ edits' = IF what = {} THEN edits ELSE edits + 1
  BY DEF Editing
<1>2. edits' \in Nat
  BY <1>1 DEF Controls
<1> QED
  BY <1>1, <1>2, EditedIs

LEMMA EditInv ==
  ASSUME Inv, NEW g \in Globals, NEW what \in Edits, Edit(g, what)
  PROVE  Inv' /\ ~quiet'
<1>1. /\ Controls /\ Consistent(analyses) /\ phase = "module" /\ Editing(g, what)
      /\ unsaid' = unsaid \cup {g} /\ quiet' = FALSE
      /\ UNCHANGED <<analyses, stateless, frozen, phase, next, kept>>
  BY DEF Edit, Inv
<1>2. /\ edits' \in Nat
      /\ module' \in [body : [Globals -> Version], decl : [Globals -> Version]]
  BY <1>1, EditingIs
<1>3. Controls'
  BY <1>1, <1>2 DEF Controls
<1>4. stateless = {} /\ frozen = {} => Matched(analyses)
  BY DEF Inv
<1> QED
  BY <1>1, <1>3, <1>4 DEF Inv

(* One function's edit, told, after which nothing but what is stateless is *)
(* held.                                                                   *)
LEMMA ClearedIsGood ==
  ASSUME Controls, NEW a, NEW c, NEW mod2, Good(module, a), Keeps(a, c),
         DOMAIN c.results \subseteq stateless, ToldOf(mod2, c)
  PROVE  Good(mod2, c) /\ (stateless = {} => Matched(c))
<1>1. Consistent(c)
  BY KeepingIsConsistent DEF Good
<1>2. TrueOf(mod2, c, Kinds \ frozen)
  BY KindsDiffer DEF TrueOf, Controls
<1>3. stateless = {} => Matched(c)
  BY DEF Matched
<1> QED
  BY <1>1, <1>2, <1>3 DEF Good

LEMMA SpliceInv ==
  ASSUME Inv, NEW f \in Functions, NEW what \in Edits, Splice(f, what)
  PROVE  Inv' /\ ~quiet'
<1> DEFINE a == IF "place" \in what THEN Invalidate(analyses, {}) ELSE analyses
           t == Told(a, {f})
           c == InvalidateBodies(t, {})
           mod == Edited(f, what)
<1>1. /\ Controls /\ phase = "module" /\ unsaid = {} /\ Editing(f, what)
      /\ analyses' = c /\ quiet' = FALSE
      /\ UNCHANGED <<stateless, frozen, phase, unsaid, next, kept>>
  BY DEF Splice, Inv
<1>2. Good(module, analyses) /\ Shaped(analyses)
  BY <1>1, GoodIs
<1>3. f \in Globals
  BY GlobalsAre
<1>4. /\ edits' \in Nat /\ module' = mod
      /\ module' \in [body : [Globals -> Version], decl : [Globals -> Version]]
      /\ "place" \notin what => \A h \in Globals \ {f} : mod.decl[h] = module.decl[h]
  BY <1>1, <1>3, EditingIs, EditedIs
<1> HIDE DEF mod
<1>5. /\ KeepsAll(analyses, a) /\ Shaped(a)
      /\ "place" \in what => AllOpen(a)
      /\ "place" \notin what => a = analyses
  <2>1. KeepsAll(analyses, analyses)
    BY <1>2, MarkingKeeps DEF Shaped
  <2>2. KeepsAll(analyses, Invalidate(analyses, {})) /\ AllOpen(Invalidate(analyses, {}))
    BY <1>2, InvalidateIs
  <2>3. KeepsAll(analyses, a)
    BY <2>1, <2>2
  <2> QED
    BY <2>2, <2>3 DEF KeepsAll, Keeps, Shaped
<1> HIDE DEF a
<1>6. /\ KeepsAll(a, t) /\ t.open = a.open /\ t.edited = a.edited \cup {f}
      /\ \A n \in t.made : \E m \in a.made :
           n = [m EXCEPT !.logged = m.logged \cup ({f} \cap Functions)]
  BY <1>3, <1>5, ToldIs
<1> HIDE DEF t
<1>7. /\ KeepsAll(t, c) /\ c.made = t.made /\ c.edited = t.edited /\ c.open = t.open
      /\ DOMAIN c.results \subseteq stateless
  <2>1. Shaped(t)
    BY <1>6 DEF KeepsAll, Keeps, Shaped
  <2> QED
    BY <2>1, InvalidateBodiesIs
<1> HIDE DEF c
<1>8. KeepsAll(analyses, c) /\ KeepsAll(a, c)
  BY <1>5, <1>6, <1>7, KeepingAllOnKeepingAll
<1>9. ToldOf(mod, c)
  <2>1. CASE "place" \in what
    <3>1. \A n \in c.made : n.resets
      <4> TAKE n \in c.made
      <4>1. PICK m \in a.made : n = [m EXCEPT !.logged = m.logged \cup ({f} \cap Functions)]
        BY <1>6, <1>7
      <4>2. m \in Note /\ m.resets
        BY <1>5, <2>1 DEF AllOpen, Shaped, State
      <4> QED
        BY <4>1, <4>2 DEF Note
    <3>2. c.open
      BY <1>5, <1>6, <1>7, <2>1 DEF AllOpen
    <3> QED
      BY <3>1, <3>2, AllOpenIsTold DEF AllOpen
  <2>2. CASE "place" \notin what
    <3>1. a = analyses /\ \A h \in Globals \ {f} : mod.decl[h] = module.decl[h]
      BY <1>4, <1>5, <2>2
    <3>2. c.open \/ (~a.open /\ c.edited = a.edited \cup {f})
      BY <1>2, <1>6, <1>7, <3>1 DEF Shaped, State
    <3> QED
      BY <1>1, <1>2, <1>6, <1>7, <1>8, <3>1, <3>2, ToldAfterEdit
  <2> QED
    BY <2>1, <2>2
<1>10. Good(mod, c) /\ (stateless = {} => Matched(c))
  BY <1>1, <1>2, <1>7, <1>8, <1>9, ClearedIsGood DEF KeepsAll
<1>11. Good(module, analyses)'
  BY <1>1, <1>4, <1>10, NextGood
<1>12. Controls' /\ Consistent(analyses')
  BY <1>1, <1>4, <1>10 DEF Controls, Good
<1> QED
  BY <1>1, <1>10, <1>11, <1>12 DEF Inv

LEMMA StateAttributesInv ==
  ASSUME Inv, NEW f \in Functions, StateAttributes(f)
  PROVE  Inv' /\ ~quiet'
<1> DEFINE t == Told(analyses, {f})
           c == InvalidateLogged(t, {})
           mod == Edited(f, {"decl"})
<1>1. /\ Controls /\ phase = "module" /\ unsaid = {} /\ Editing(f, {"decl"})
      /\ analyses' = c /\ quiet' = FALSE
      /\ UNCHANGED <<stateless, frozen, phase, unsaid, next, kept>>
  BY DEF StateAttributes, Inv
<1>2. Good(module, analyses) /\ Shaped(analyses)
  BY <1>1, GoodIs
<1>3. f \in Globals
  BY GlobalsAre
<1>4. /\ edits' \in Nat /\ module' = mod
      /\ module' \in [body : [Globals -> Version], decl : [Globals -> Version]]
      /\ \A h \in Globals \ {f} : mod.decl[h] = module.decl[h]
  BY <1>1, <1>3, EditingIs, EditedIs
<1> HIDE DEF mod
<1>5. /\ KeepsAll(analyses, t)
      /\ \A n \in t.made : \E m \in analyses.made :
           n = [m EXCEPT !.logged = m.logged \cup ({f} \cap Functions)]
  BY <1>2, <1>3, ToldIs
<1> HIDE DEF t
<1>6. KeepsAll(t, c) /\ c.made = t.made /\ c.open /\ DOMAIN c.results \subseteq stateless
  <2>1. Shaped(t)
    BY <1>5 DEF KeepsAll, Keeps, Shaped
  <2> QED
    BY <2>1, InvalidateLoggedIs
<1> HIDE DEF c
<1>7. KeepsAll(analyses, c)
  BY <1>5, <1>6, KeepingAllOnKeepingAll
<1>8. ToldOf(mod, c)
  BY <1>1, <1>2, <1>4, <1>5, <1>6, <1>7, ToldAfterEdit
<1>9. Good(mod, c) /\ (stateless = {} => Matched(c))
  BY <1>1, <1>2, <1>6, <1>7, <1>8, ClearedIsGood DEF KeepsAll
<1>10. Good(module, analyses)'
  BY <1>1, <1>4, <1>9, NextGood
<1>11. Controls' /\ Consistent(analyses')
  BY <1>1, <1>4, <1>9 DEF Controls, Good
<1> QED
  BY <1>1, <1>9, <1>10, <1>11 DEF Inv

LEMMA RerunInv ==
  ASSUME Inv, NEW f \in Functions, NEW what \in Edits, NEW tables \in BOOLEAN,
         Rerun(f, what, tables)
  PROVE  Inv' /\ (quiet /\ quiet' /\ stateless = {} /\ frozen = {}
                    => analyses'.outer = analyses.outer)
<1> DEFINE o == WithOuter(analyses)
           t == Told(o, {f})
           mod == Edited(f, what)
<1>1. /\ Controls /\ phase = "module" /\ unsaid = {} /\ Editing(f, what)
      /\ tables => "place" \in what
      /\ quiet' \in BOOLEAN /\ (quiet' => what = {})
      /\ UNCHANGED <<stateless, frozen, phase, unsaid, next, kept>>
  BY DEF Rerun, Inv
<1>2. PICK preserved \in Honest(what) :
        LET a == InvalidateBodies(t, preserved)
            b == IF tables THEN AbandonStateless(a) ELSE a
        IN  analyses' = IF "place" \in what THEN Invalidate(b, {}) ELSE b
  BY DEF Rerun
<1> DEFINE a == InvalidateBodies(t, preserved)
           b == IF tables THEN Dropped(a, stateless) ELSE a
           c == IF "place" \in what THEN Invalidate(b, {}) ELSE b
<1>3. analyses' = c
  BY <1>2 DEF AbandonStateless
<1>4. /\ Good(module, analyses)
      /\ stateless = {} /\ frozen = {} => Matched(analyses)
      /\ stateless = {} /\ frozen = {} /\ quiet => Repeats(module, analyses)
  BY <1>1, GoodIs
<1>5. f \in Globals
  BY GlobalsAre
<1>6. /\ edits' \in Nat /\ module' = mod
      /\ module' \in [body : [Globals -> Version], decl : [Globals -> Version]]
      /\ "body" \notin what => AccessesIn(mod) = AccessesIn(module)
      /\ "place" \notin what => \A h \in Globals \ {f} : mod.decl[h] = module.decl[h]
      /\ what \cap {"decl", "place"} = {} => mod.decl = module.decl
  BY <1>1, <1>5, EditingIs, EditedIs
<1> HIDE DEF mod
<1>7. /\ Good(module, o) /\ Shaped(o)
      /\ stateless = {} /\ frozen = {} =>
           /\ Matched(o) /\ Repeats(module, o)
           /\ Repeats(module, analyses) => o.outer = analyses.outer
  BY <1>1, <1>4, WithOuterIs DEF Good, Consistent
<1> HIDE DEF o
<1>8. /\ KeepsAll(o, t) /\ t.results = o.results
      /\ t.open = o.open /\ t.edited = o.edited \cup {f}
      /\ \A n \in t.made : \E m \in o.made :
           n = [m EXCEPT !.logged = m.logged \cup ({f} \cap Functions)]
  BY <1>5, <1>7, ToldIs
<1> HIDE DEF t
<1>9. /\ KeepsAll(t, a) /\ a.made = t.made /\ a.edited = t.edited /\ a.open = t.open
      /\ DOMAIN a.results = DOMAIN t.results \cap (preserved \cup stateless)
  <2>1. Shaped(t)
    BY <1>8 DEF KeepsAll, Keeps, Shaped
  <2> QED
    BY <2>1, InvalidateBodiesIs
<1> HIDE DEF a
<1>10. KeepsAll(o, a) /\ Shaped(a)
  BY <1>8, <1>9, KeepingAllOnKeepingAll DEF KeepsAll, Keeps, Shaped
<1>11. /\ Declarations \in preserved => mod.decl = module.decl
       /\ Found \in preserved => AccessesIn(mod) = AccessesIn(module)
       /\ Summaries \in preserved =>
            preserved = Kinds /\ mod.decl = module.decl /\ AccessesIn(mod) = AccessesIn(module)
  BY <1>6, HonestIs
<1>12. KeepsAll(o, c) /\ Good(mod, c) /\ (stateless = {} /\ frozen = {} => Matched(c))
  <2>1. CASE "place" \in what
    <3>1. KeepsAll(o, b) /\ Shaped(b)
      <4>1. KeepsAll(a, Dropped(a, stateless))
        BY <1>10, DroppedIs
      <4>2. KeepsAll(o, Dropped(a, stateless))
        BY <1>10, <4>1, KeepingAllOnKeepingAll
      <4>3. KeepsAll(o, b)
        BY <1>10, <4>2
      <4> HIDE DEF b
      <4> QED
        BY <4>3 DEF KeepsAll, Keeps, Shaped
    <3> HIDE DEF b
    <3>2. c = Invalidate(b, {})
      BY <2>1
    <3>3. KeepsAll(b, c) /\ AllOpen(c) /\ DOMAIN c.results \subseteq stateless
      BY <3>1, <3>2, InvalidateIs
    <3> HIDE DEF c
    <3>4. KeepsAll(o, c) /\ Keeps(o, c)
      BY <3>1, <3>3, KeepingAllOnKeepingAll DEF KeepsAll
    <3>5. ToldOf(mod, c)
      BY <3>3, AllOpenIsTold
    <3> QED
      BY <1>1, <1>7, <3>3, <3>4, <3>5, ClearedIsGood
  <2>2. CASE "place" \notin what
    <3>1. c = a
      BY <1>1, <2>2
    <3>2. Keeps(o, a) /\ Consistent(a)
      BY <1>7, <1>10, KeepingIsConsistent DEF KeepsAll, Good
    <3>3. TrueOf(mod, a, Kinds \ frozen)
      <4> DEFINE T == Kinds \ frozen
      <4>1. /\ TrueOf(module, o, T)
            /\ DOMAIN o.results \cap stateless \subseteq DOMAIN a.results
            /\ \A k \in DOMAIN a.results : k \in preserved \/ k \in stateless
        BY <1>7, <1>8, <1>9 DEF Good
      <4>2. Declarations \notin stateless /\ Summaries \notin stateless
        BY <1>1, KindsDiffer DEF Controls
      <4> HIDE DEF T
      <4> QED
        BY <1>11, <3>2, <4>1, <4>2, TrueAfter DEF T
    <3>4. ToldOf(mod, a)
      <4>1. a.open \/ (~o.open /\ a.edited = o.edited \cup {f})
        BY <1>7, <1>8, <1>9 DEF Shaped, State
      <4> QED
        BY <1>1, <1>6, <1>7, <1>8, <1>9, <1>10, <2>2, <4>1, ToldAfterEdit
    <3>5. stateless = {} /\ frozen = {} => Matched(a)
      <4> SUFFICES ASSUME stateless = {}, frozen = {} PROVE Matched(a)
        OBVIOUS
      <4>1. Summaries \in DOMAIN a.results =>
              DOMAIN o.results \cap {Declarations, Found} \subseteq DOMAIN a.results
        BY <1>8, <1>9, <1>11, KindsDiffer
      <4> QED
        BY <1>7, <3>2, <4>1, MatchedAfter
    <3> QED
      BY <1>10, <3>1, <3>2, <3>3, <3>4, <3>5 DEF Good
  <2> QED
    BY <2>1, <2>2
<1> HIDE DEF c
<1>13. c.outer = o.outer
  BY <1>12 DEF KeepsAll
<1>14. ASSUME stateless = {}, frozen = {}, quiet' PROVE Repeats(mod, c)
  <2>1. Repeats(module, c)
    BY <1>7, <1>12, <1>14, KeepingAllRepeats
  <2>2. mod.decl = module.decl /\ AccessesIn(mod) = AccessesIn(module)
    BY <1>1, <1>6, <1>14
  <2> QED
    BY <2>1, <2>2 DEF Repeats
<1>15. Good(module, analyses)'
  BY <1>1, <1>3, <1>6, <1>12, NextGood
<1>16. Controls' /\ Consistent(analyses')
  BY <1>1, <1>3, <1>6, <1>12 DEF Controls, Good
<1>17. Inv'
  BY <1>1, <1>3, <1>6, <1>12, <1>14, <1>15, <1>16 DEF Inv
<1> QED
  BY <1>3, <1>4, <1>7, <1>13, <1>17

LEMMA ModulePassEndsInv ==
  ASSUME Inv, NEW adds \in BOOLEAN, ModulePassEnds(adds)
  PROVE  Inv' /\ (quiet /\ stateless = {} /\ frozen = {} => analyses'.outer = analyses.outer)
<1> DEFINE held == IF adds THEN {} ELSE frozen
           i == Invalidate(analyses, held)
           c == Told(i, unsaid)
<1>1. /\ Controls /\ Consistent(analyses) /\ Shaped(analyses) /\ phase = "module"
      /\ phase' = "pipeline" /\ unsaid' = {}
      /\ analyses' = IF unsaid = {} THEN analyses ELSE c
      /\ UNCHANGED <<module, edits, stateless, frozen, next, kept, quiet>>
  BY DEF ModulePassEnds, Inv, Consistent
<1>2. Controls'
  BY <1>1 DEF Controls
<1>3. CASE unsaid = {}
  <2>1. Good(module, analyses)
    BY <1>1, <1>3, GoodIs
  <2>2. Good(module, analyses)'
    BY <1>1, <1>3, <2>1, NextGood
  <2> QED
    BY <1>1, <1>2, <1>3, <2>2 DEF Inv
<1>4. CASE unsaid # {}
  <2>1. /\ KeepsAll(analyses, i) /\ AllOpen(i)
        /\ DOMAIN i.results = DOMAIN analyses.results \cap (held \cup stateless)
    BY <1>1, InvalidateIs
  <2>2. held \subseteq frozen
    OBVIOUS
  <2> HIDE DEF i, held
  <2>3. Shaped(i) /\ unsaid \in SUBSET Globals
    BY <1>1, <2>1 DEF KeepsAll, Keeps, Shaped, Controls
  <2>4. /\ KeepsAll(i, c) /\ c.results = i.results /\ c.open = i.open
        /\ \A n \in c.made : \E m \in i.made :
             n = [m EXCEPT !.logged = m.logged \cup (unsaid \cap Functions)]
    BY <2>3, ToldIs
  <2> HIDE DEF c
  <2>5. Keeps(analyses, c)
    BY <2>1, <2>4, KeepingAllOnKeepingAll DEF KeepsAll
  <2>6. Consistent(c)
    BY <1>1, <2>5, KeepingIsConsistent
  <2>7. ToldOf(module, c)
    <3>1. \A n \in c.made : n.resets
      <4> TAKE n \in c.made
      <4>1. PICK m \in i.made : n = [m EXCEPT !.logged = m.logged \cup (unsaid \cap Functions)]
        BY <2>4
      <4>2. m \in Note /\ m.resets
        BY <2>1, <2>3 DEF AllOpen, Shaped, State
      <4> QED
        BY <4>1, <4>2 DEF Note
    <3> QED
      BY <2>1, <2>4, <3>1, AllOpenIsTold DEF AllOpen
  <2>8. TrueOf(module, c, Kinds \ frozen)
    BY <1>1, <2>1, <2>2, <2>4, KindsDiffer DEF TrueOf, Controls
  <2>9. Good(module, c)
    BY <2>6, <2>7, <2>8 DEF Good
  <2>10. stateless = {} /\ frozen = {} => Matched(c)
    BY <2>1, <2>2, <2>4 DEF Matched
  <2>11. stateless = {} /\ frozen = {} => ~quiet
    BY <1>4 DEF Inv
  <2>12. analyses' = c
    BY <1>1, <1>4
  <2>13. Good(module, analyses)'
    BY <1>1, <2>9, <2>12, NextGood
  <2> QED
    BY <1>1, <1>2, <2>6, <2>10, <2>11, <2>12, <2>13 DEF Inv
<1> QED
  BY <1>3, <1>4

LEMMA ComputeInv ==
  ASSUME Inv, NEW again \in BOOLEAN, Compute(again)
  PROVE  Inv' /\ stateless # {}
<1> DEFINE a == IF again THEN Dropped(analyses, {Found}) ELSE analyses
           w == WithFound(a)
           c == InvalidateBodies(w, {})
<1>1. /\ Controls /\ phase = "pipeline" /\ unsaid = {} /\ Found \in stateless
      /\ analyses' = IF Found \in DOMAIN a.results THEN a ELSE c
      /\ UNCHANGED <<module, edits, stateless, frozen, phase, unsaid, next, kept, quiet>>
  BY DEF Compute, Inv, Controls
<1>2. Good(module, analyses) /\ Shaped(analyses)
  BY <1>1, GoodIs
<1>3. /\ KeepsAll(analyses, a) /\ a.made = analyses.made
      /\ a.edited = analyses.edited /\ a.open = analyses.open
      /\ again => Found \notin DOMAIN a.results
      /\ ~again => a = analyses
  <2>1. KeepsAll(analyses, analyses)
    BY <1>2, MarkingKeeps DEF Shaped
  <2> DEFINE d == Dropped(analyses, {Found})
  <2>2. /\ KeepsAll(analyses, d) /\ DOMAIN d.results = DOMAIN analyses.results \ {Found}
        /\ d.made = analyses.made /\ d.edited = analyses.edited /\ d.open = analyses.open
    BY <1>2, DroppedIs
  <2>3. a = IF again THEN d ELSE analyses
    OBVIOUS
  <2> HIDE DEF a, d
  <2> QED
    BY <2>1, <2>2, <2>3
<1> HIDE DEF a
<1>4. Controls' /\ stateless # {}
  BY <1>1 DEF Controls
<1>5. CASE Found \in DOMAIN a.results
  <2>1. analyses' = analyses
    BY <1>1, <1>3, <1>5
  <2>2. Good(module, analyses)'
    BY <1>1, <1>2, <2>1, NextGood
  <2> QED
    BY <1>1, <1>4, <2>1, <2>2 DEF Inv
<1>6. CASE Found \notin DOMAIN a.results
  <2>1. Shaped(a) /\ OneEach(a) /\ AsNoted(a)
    BY <1>2, <1>3, KeepingIsConsistent DEF KeepsAll, Consistent, Good
  <2>2. w = Computed(a, Found, AccessesIn(module)) /\ AccessesIn(module) \in Value(Found)
    BY <1>1, <1>6, ModuleTyped DEF WithFound
  <2> HIDE DEF w
  <2>3. Gives(a, w, Found) /\ w.open = a.open /\ w.edited = a.edited
    BY <2>1, <2>2, KindsDiffer, ComputedGives
  <2>4. Consistent(w)
    BY <2>1, <2>3, KindsDiffer, GivingIsConsistent, GivingKeepsNoted DEF Consistent
  <2>5. /\ KeepsAll(w, c) /\ c.made = w.made /\ c.edited = w.edited /\ c.open = w.open
        /\ DOMAIN c.results \subseteq stateless
    BY <2>4, InvalidateBodiesIs DEF Consistent
  <2> HIDE DEF c
  <2>6. Consistent(c) /\ Keeps(w, c)
    BY <2>4, <2>5, KeepingIsConsistent DEF KeepsAll
  <2>7. TrueOf(module, c, Kinds \ frozen)
    BY <1>1, <2>5, KindsDiffer DEF TrueOf, Controls
  <2>8. ToldOf(module, c)
    <3>1. ASSUME Declarations \in DOMAIN c.dropped, ~c.open
          PROVE  Agrees(c.dropped[Declarations].value, module, c.edited)
      <4>1. \/ /\ Declarations \in DOMAIN w.results
               /\ c.dropped[Declarations] = w.results[Declarations]
            \/ /\ Declarations \in DOMAIN w.dropped
               /\ c.dropped[Declarations] = w.dropped[Declarations]
        BY <2>6, <3>1 DEF Keeps
      <4>2. \/ /\ Declarations \in DOMAIN a.results
               /\ c.dropped[Declarations] = a.results[Declarations]
            \/ /\ Declarations \in DOMAIN a.dropped
               /\ c.dropped[Declarations] = a.dropped[Declarations]
        BY <2>3, <4>1, KindsDiffer DEF Gives
      <4>3. \/ /\ Declarations \in DOMAIN analyses.results
               /\ c.dropped[Declarations] = analyses.results[Declarations]
            \/ /\ Declarations \in DOMAIN analyses.dropped
               /\ c.dropped[Declarations] = analyses.dropped[Declarations]
        BY <1>3, <4>2 DEF KeepsAll, Keeps
      <4>4. /\ ~analyses.open /\ c.edited = analyses.edited
        BY <1>3, <2>3, <2>5, <3>1
      <4>5. Declarations \in DOMAIN analyses.results
              => analyses.results[Declarations].value = module.decl
        BY <1>1, <1>2, KindsDiffer DEF Good, TrueOf, Controls
      <4> QED
        BY <1>2, <4>3, <4>4, <4>5 DEF Agrees, Good, ToldOf
    <3>2. c.made = analyses.made
      BY <1>3, <2>3, <2>5 DEF Gives
    <3> QED
      BY <1>2, <3>1, <3>2 DEF Good, ToldOf
  <2>9. analyses' = c /\ Good(module, c)
    BY <1>1, <1>6, <2>6, <2>7, <2>8 DEF Good
  <2>10. Good(module, analyses)'
    BY <1>1, <2>9, NextGood
  <2> QED
    BY <1>1, <1>4, <2>6, <2>9, <2>10 DEF Inv
<1> QED
  BY <1>4, <1>5, <1>6

LEMMA FreezeInv ==
  ASSUME Inv, Freeze
  PROVE  Inv' /\ analyses' = analyses
<1>1. /\ Controls /\ phase = "pipeline" /\ unsaid = {} /\ frozen' = {Summaries}
      /\ UNCHANGED <<module, edits, analyses, stateless, phase, unsaid, next, kept, quiet>>
  BY DEF Freeze, Inv, Controls
<1>2. Good(module, analyses)
  BY <1>1, GoodIs
<1>3. TrueOf(module, analyses, Kinds \ {Summaries})
  BY <1>1, <1>2, KindsDiffer DEF Good, TrueOf, Controls
<1>4. Good(module, analyses)'
  BY <1>1, <1>2, <1>3 DEF Good, TrueOf, FoundNow
<1>5. Controls'
  BY <1>1 DEF Controls
<1> QED
  BY <1>1, <1>2, <1>4, <1>5 DEF Inv, Good

LEMMA CarryInv ==
  ASSUME Inv, NEW f \in Functions, NEW what \in Edits, NEW abandon \in BOOLEAN,
         Carry(f, what, abandon)
  PROVE  Inv' /\ ~quiet'
<1> DEFINE a == IF abandon THEN Abandoned(analyses, stateless) ELSE analyses
           c == Carried(a)
<1>1. /\ Controls /\ phase = "pipeline" /\ unsaid = {} /\ Editing(f, what)
      /\ analyses' = c /\ frozen' = {} /\ quiet' = FALSE
      /\ UNCHANGED <<stateless, phase, unsaid, next, kept>>
  BY DEF Carry, Inv, Controls
<1>2. Good(module, analyses) /\ Shaped(analyses) /\ Consistent(analyses)
  BY <1>1, GoodIs
<1>3. f \in Globals
  BY GlobalsAre
<1>4. /\ edits' \in Nat
      /\ module' \in [body : [Globals -> Version], decl : [Globals -> Version]]
  BY <1>1, <1>3, EditingIs
<1>5. Keeps(analyses, a)
  <2>1. KeepsAll(analyses, analyses)
    BY <1>2, MarkingKeeps DEF Shaped
  <2>2. Keeps(analyses, Abandoned(analyses, stateless))
    BY <1>2, AbandonedIs
  <2> QED
    BY <2>1, <2>2 DEF KeepsAll
<1> HIDE DEF a
<1>6. /\ Keeps(a, c) /\ DOMAIN c.results \subseteq stateless
      /\ c.open /\ \A m \in c.made : ~m.sameLog
  <2>1. Shaped(a)
    BY <1>5 DEF Keeps, Shaped
  <2> QED
    BY <2>1, CarriedIs
<1> HIDE DEF c
<1>7. Consistent(c)
  BY <1>2, <1>5, <1>6, KeepingOnKeeping, KeepingIsConsistent
<1>8. TrueOf(module, analyses, Kinds \ frozen)' /\ ToldOf(module, analyses)'
  BY <1>1, <1>6, KindsDiffer DEF TrueOf, ToldOf, Controls
<1>9. Good(module, analyses)'
  BY <1>1, <1>7, <1>8 DEF Good
<1>10. stateless = {} => Matched(c)
  BY <1>6 DEF Matched
<1>11. Controls'
  BY <1>1, <1>4 DEF Controls
<1> QED
  BY <1>1, <1>7, <1>9, <1>10, <1>11 DEF Inv
-----------------------------------------------------------------------------
LEMMA NextInv ==
  ASSUME Inv, Next
  PROVE  Inv' /\ (quiet /\ quiet' /\ stateless = {} /\ frozen = {}
                    => analyses'.outer = analyses.outer)
<1>1. CASE FunctionPass
  BY <1>1, FunctionPassInv
<1>2. CASE ModulePass
  BY <1>2, ModulePassInv
<1>3. CASE Freeze
  BY <1>3, FreezeInv
<1>4. CASE \E what \in Edits, tables \in BOOLEAN : FunctionRun(what, tables)
  BY <1>4, FunctionRunInv
<1>5. CASE \E adds \in BOOLEAN : FunctionPassEnds(adds) \/ ModulePassEnds(adds)
  BY <1>5, FunctionPassEndsInv, ModulePassEndsInv
<1>6. CASE \E k \in Kinds : Ask(k)
  BY <1>6, AskInv
<1>7. CASE \E g \in Globals, what \in Edits : Edit(g, what)
  BY <1>7, EditInv
<1>8. CASE \E f \in Functions : StateAttributes(f)
  BY <1>8, StateAttributesInv
<1>9. CASE \E f \in Functions, what \in Edits :
             Splice(f, what) \/ \E tables \in BOOLEAN : Rerun(f, what, tables)
  BY <1>9, SpliceInv, RerunInv
<1>10. CASE \E again \in BOOLEAN : Compute(again)
  BY <1>10, ComputeInv
<1>11. CASE \E f \in Functions, what \in Edits, abandon \in BOOLEAN : Carry(f, what, abandon)
  BY <1>11, CarryInv
<1> QED
  BY <1>1, <1>2, <1>3, <1>4, <1>5, <1>6, <1>7, <1>8, <1>9, <1>10, <1>11 DEF Next

LEMMA StutterInv ==
  ASSUME Inv, UNCHANGED vars
  PROVE  Inv'
<1>1. UNCHANGED <<module, analyses, stateless, frozen, phase, unsaid, next, kept, quiet, edits>>
  BY DEF vars
<1>2. TrueOf(module, analyses, kept \ frozen)' <=> TrueOf(module, analyses, kept \ frozen)
  BY <1>1 DEF TrueOf, FoundNow
<1>3. Good(module, analyses)' <=> Good(module, analyses)
  BY <1>1 DEF Good, TrueOf, FoundNow
<1>4. Controls' <=> Controls
  BY <1>1 DEF Controls
<1> QED
  BY <1>1, <1>2, <1>3, <1>4 DEF Inv

(* What is kept of earlier results is as good as `Inv` says, whatever the  *)
(* passes edit, tell of and give up (passes.rs, `ModuleAnalyses`).         *)
THEOREM ModuleFactsInvariant == Spec => []Inv
<1>1. Init => Inv
  BY InitInv
<1>2. Inv /\ [Next]_vars => Inv'
  BY NextInv, StutterInv
<1> QED
  BY <1>1, <1>2, PTL DEF Spec

LEMMA InvTypeOK ==
  ASSUME Inv
  PROVE  TypeOK
<1>1. /\ Controls /\ Shaped(analyses) /\ analyses \in State
  BY DEF Inv, Consistent, Shaped
<1>2. /\ Values(Declarations) = Value(Declarations) /\ Values(Found) = Value(Found)
      /\ Values(Summaries) = Value(Summaries)
  BY Zenon DEF Values, Value, Versions, Version, Summary, Declarations, Found, Summaries
<1>3. ASSUME NEW held \in {analyses.results, analyses.dropped}, NEW k \in DOMAIN held
      PROVE  k \in Kinds /\ held[k].value \in Values(k)
  <2>1. held \in Holding
    BY <1>1 DEF State
  <2>2. k \in Kinds /\ held[k] \in Object(k)
    BY <1>3, <2>1, HoldingIs
  <2>3. held[k].value \in Value(k)
    BY <2>2 DEF Object
  <2> QED
    BY <1>2, <2>2, <2>3, KindsDiffer
<1>4. Cardinality(analyses.made) <= 1
  <2>1. CASE analyses.made = {}
    BY <2>1, FS_EmptySet
  <2>2. CASE analyses.made # {}
    <3>1. PICK m \in analyses.made : analyses.made = {m}
      BY <1>1, <2>2 DEF Shaped
    <3>2. Cardinality({m}) = 1
      BY FS_Singleton
    <3> QED
      BY <3>1, <3>2
  <2> QED
    BY <2>1, <2>2
<1>5. module \in [body : Versions(Globals), decl : Versions(Globals)]
  BY <1>1 DEF Controls, Versions, Version
<1>6. DOMAIN analyses.results \cap DOMAIN analyses.dropped = {}
  BY <1>1 DEF Shaped
<1>7. unsaid \subseteq Globals /\ kept \subseteq Kinds /\ next \in 1 .. Count + 1
  BY <1>1 DEF Controls
<1> QED
  BY <1>3, <1>4, <1>5, <1>6, <1>7 DEF TypeOK

(* Each result is of its kind, and is held or given up and not both.       *)
THEOREM ModuleFactsTyped == Spec => []TypeOK
BY ModuleFactsInvariant, InvTypeOK, PTL

LEMMA FreshIs ==
  ASSUME Controls, NEW a
  PROVE  /\ Fresh(a, Declarations) = module.decl
         /\ Fresh(a, Found) = AccessesIn(module)
         /\ Fresh(a, Summaries) = SummariesOf(module.decl, FoundNow(module, a))
<1> DEFINE found == IF Found \in DOMAIN a.results \cap stateless
                    THEN a.results[Found].value ELSE Accesses
<1>1. found = FoundNow(module, a)
  BY ModuleTyped DEF FoundNow
<1>2. Fresh(a, Summaries) = [f \in Functions |-> SummaryOf(f, module.decl, found)]
  BY Zenon DEF Fresh, Declarations, Found, Summaries
<1>3. Fresh(a, Declarations) = module.decl /\ Fresh(a, Found) = Accesses
  BY Zenon DEF Fresh, Declarations, Found, Summaries
<1> QED
  BY <1>1, <1>2, <1>3, ModuleTyped DEF SummariesOf

(* Between passes what is held is what working it out afresh gives         *)
(* (passes.rs:3208).                                                       *)
THEOREM ModuleFactsResultsAreTrue == Spec => []ResultsAreTrue
<1>1. Inv => ResultsAreTrue
  <2> SUFFICES ASSUME Inv, phase = "pipeline",
                      NEW k \in DOMAIN analyses.results \ (stateless \cup frozen)
               PROVE  analyses.results[k].value = Fresh(analyses, k)
    BY DEF ResultsAreTrue
  <2>1. Controls /\ Good(module, analyses)
    BY GoodIs DEF Inv, Controls
  <2>2. k \in {Declarations, Found, Summaries}
    BY <2>1, HoldingIs, KindsDiffer DEF Good, Consistent, Shaped, State
  <2>3. CASE k = Declarations
    BY <2>1, <2>3, FreshIs, KindsDiffer DEF Good, TrueOf
  <2>4. CASE k = Found
    BY <2>1, <2>4, FreshIs, KindsDiffer DEF Good, TrueOf
  <2>5. CASE k = Summaries
    BY <2>1, <2>5, FreshIs, HeldSummariesAre
  <2> QED
    BY <2>2, <2>3, <2>4, <2>5
<1> QED
  BY <1>1, ModuleFactsInvariant, PTL

(* What is given out again or brought up to date is what working it out    *)
(* afresh gives (passes.rs:2435 and 2450).                                 *)
THEOREM ModuleFactsAnswersAreFresh == Spec => []AnswersAreFresh
<1>1. Inv => AnswersAreFresh
  <2> SUFFICES ASSUME Inv, phase \in {"pipeline", "module"}, unsaid = {},
                      NEW k \in Kinds \ (DOMAIN analyses.results \cap (stateless \cup frozen))
               PROVE  With(analyses, k).results[k].value = Fresh(With(analyses, k), k)
    BY DEF AnswersAreFresh
  <2> QED
    BY GoodIs, AskedIs
<1> QED
  BY <1>1, ModuleFactsInvariant, PTL

(* A proxy made where nothing was edited since the last is the same one    *)
(* (passes.rs:2619).                                                       *)
THEOREM ModuleFactsProxyIsKept == Spec => ProxyIsKept
<1>1. Inv /\ [Next]_vars =>
        [quiet /\ quiet' /\ stateless = {} /\ frozen = {}
           => analyses'.outer = analyses.outer]_vars
  BY NextInv
<1> QED
  BY <1>1, ModuleFactsInvariant, PTL DEF Spec, ProxyIsKept
=============================================================================
