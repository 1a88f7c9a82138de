----------------------------- MODULE StringSpace -----------------------------
(***************************************************************************)
(* The dynamic memory of a compiled BASIC program (runtime/qb): string     *)
(* space at the bottom (nhstutil.c) and the local heap at the top          *)
(* (nheap.c), which trade room at the boundary between them, and what the  *)
(* program does with both: strings, temporaries (stcore.c), dynamic string *)
(* arrays (array.c), files (file.c) and FRE (fre.c).                       *)
(*                                                                         *)
(* Memory is counted in words, each with an address.  Both regions are     *)
(* functions from the addresses of their entries.  A string entry is a     *)
(* header word and the string, here of one character to a word.  The       *)
(* header of one in use is the address of the descriptor that owns it,     *)
(* which says how long it is: `size` is what was taken, and that the two   *)
(* agree is a property below.  A variable's descriptor has the variable    *)
(* for address; an array's elements are descriptors in the heap, which     *)
(* moves them when compacted, here a word each.                            *)
(***************************************************************************)
EXTENDS Integers, Sequences, FiniteSets, SequencesExt, FiniteSetsExt

CONSTANTS
  Vars,         (* The string variables.                                   *)
  Temps,        (* `temps`, in the order they are looked through.          *)
  Characters,
  None,
  TOP,          (* The size of the region.                                 *)
  HEADER,       (* Of a heap entry.                                        *)
  FOOTER,
  FDB,          (* The size of a file's data.                              *)
  MaxFiles,     (* Bound: the files open at once.                          *)
  MaxElements,  (* Bound: the elements of the array.                       *)
  MaxLength     (* Bound: the length of a string.                          *)

(* What has a descriptor: the variables, the temporaries, and the array's  *)
(* elements by their number.                                               *)
Statics == Vars \cup ToSet(Temps)
Names == Statics \cup 1 .. MaxElements
Strings == UNION {[1 .. n -> Characters] : n \in 0 .. MaxLength}

ASSUME SpaceAssumption ==
  /\ IsFiniteSet(Vars) /\ Temps \in Seq(ToSet(Temps)) /\ Vars \cap ToSet(Temps) = {}
  /\ Statics \cap Int = {} /\ None \notin Statics \cup Int \cup {"ARRAY", "FILE"}
  /\ Characters \cap (Statics \cup Int) = {}
  /\ {TOP, HEADER, FOOTER, FDB, MaxFiles, MaxElements, MaxLength} \subseteq Nat \ {0}

VARIABLES
  memory,   (* The two regions and the descriptors: see Start.             *)
  text,     (* What the program gave each string last.                     *)
  raised    (* If Out of string space was raised just now, the words that  *)
            (* were asked for and those held then, else 0.                 *)

vars == <<memory, text, raised>>

Nul == [len |-> 0, ptr |-> 0]

(* An entry, of either region: what it holds is the address of the owner   *)
(* of a string, or an array or a file.                                     *)
FreeEntry(size) == [holds |-> None, size |-> size, data |-> <<>>]
IsFree(e) == e.holds = None

(* `space` and `heap`: the entries of each; `low`: the boundary, `str_end` *)
(* and `heap_low`; `hint`: `str_free`; `sd`: the descriptors there are, by *)
(* their addresses; `live`: the temporaries in use; `ad`: the array's      *)
(* descriptor.                                                             *)
Start ==
  [space |-> [a \in {0} |-> FreeEntry(TOP)], hint |-> 0, low |-> TOP,
   heap |-> [a \in {} |-> FreeEntry(0)],
   sd |-> [d \in Statics |-> Nul],
   live |-> {},
   ad |-> [at |-> 0, count |-> 0]]

Init ==
  /\ memory = Start
  /\ text = [d \in Names |-> <<>>]
  /\ raised = 0

-----------------------------------------------------------------------------
(* Entries by their addresses.                                             *)

End(f, a) == f[a].size + a
Words(f, S) == UNION {a .. End(f, a) - 1 : a \in S}

Without(f, S) == [a \in DOMAIN f \ S |-> f[a]]
With(f, a, e) == [x \in DOMAIN f \cup {a} |-> IF x = a THEN e ELSE f[x]]

(* The free entries in a row from a on, and f with them joined.            *)
Run(f, a) ==
  {b \in DOMAIN f : b >= a /\ \A c \in DOMAIN f \cap (a .. b) : IsFree(f[c])}
Joined(f, a) ==
  IF Run(f, a) = {} THEN f
  ELSE With(Without(f, Run(f, a)), a, FreeEntry(End(f, Max(Run(f, a))) - a))

(* First fit from an address up to `limit`, joining free neighbours on the *)
(* way: `scan` and `first_fit`.                                            *)
Nowhere == -1

Fitted(f, a, size) ==
  IF IsFree(f[a]) /\ f[a].size >= size
  THEN [entries |-> f, at |-> a, found |-> a]
  ELSE [entries |-> f, at |-> End(f, a), found |-> Nowhere]
FitTurn(x, limit, size) ==
  IF x.found # Nowhere \/ x.at \notin DOMAIN x.entries \/ x.at > limit THEN x
  ELSE Fitted(Joined(x.entries, x.at), x.at, size)

FirstFit(f, from, limit, size) ==
  LET after[n \in 0 .. TOP] ==
        IF n = 0 THEN [entries |-> f, at |-> from, found |-> Nowhere]
        ELSE FitTurn(after[n - 1], limit, size)
  IN  after[TOP]

(* Entries at other addresses: `to` says where each goes.                  *)
Placed(f, to) ==
  [x \in {to[a] : a \in DOMAIN to} |-> f[CHOOSE a \in DOMAIN to : to[a] = x]]

-----------------------------------------------------------------------------
(* String space.                                                           *)

InSpace(m, sd) == sd.len > 0 /\ sd.ptr < m.low
EntryOf(sd) == sd.ptr - 1

(* `set_hint`: the hint is kept only if it names the free tail.            *)
HintSet(m) ==
  IF m.hint \in DOMAIN m.space /\ IsFree(m.space[m.hint]) /\ End(m.space, m.hint) = m.low
  THEN m ELSE [m EXCEPT !.hint = m.low]

(* `take`.                                                                 *)
Taken(m, a, n, owner) ==
  LET taken == With(m.space, a, [holds |-> owner, size |-> n, data |-> <<>>])
      rest == m.space[a].size - n
  IN  [m EXCEPT !.space = IF rest > 0 THEN With(taken, a + n, FreeEntry(rest)) ELSE taken,
                !.hint = a + n]

(* `scan`; a hint that was joined to the entry below moves to it.          *)
Scanned(m, fit) ==
  [memory |-> [m EXCEPT
     !.space = fit.entries,
     !.hint = IF @ = m.low \/ @ \in DOMAIN fit.entries THEN @
              ELSE Max({a \in DOMAIN fit.entries : a < @})],
   found |-> fit.found]
Scan(m, from, limit, n) == Scanned(m, FirstFit(m.space, from, limit, n))

(* From the hint, and if nothing was found from the start to the hint.     *)
FitBefore(after, n) ==
  IF after.found # Nowhere THEN after
  ELSE Scan(after.memory, 0, after.memory.hint, n)
Fit(m, n) == FitBefore(Scan(m, m.hint, m.low, n), n)

(* `str_compact`: the entries in use, each down to those below it, their   *)
(* owners told, then the free room.                                        *)
Used(f) == {a \in DOMAIN f : ~IsFree(f[a])}
Downs(f) ==
  [a \in Used(f) |-> Cardinality(Words(f, {b \in Used(f) : b < a}))]
Told(m, to) ==
  [a \in DOMAIN m.sd |->
     LET its == {e \in DOMAIN to : m.space[e].holds = a}
     IN  IF its = {} THEN m.sd[a] ELSE [m.sd[a] EXCEPT !.ptr = to[Max(its)] + 1]]

(* Mutant: the hint stays where it was.                                    *)
WithTailUnhinted(m, to) ==
  [m EXCEPT !.space = IF to < m.low THEN With(@, to, FreeEntry(m.low - to)) ELSE @]

WithTail(m, to) ==
  [m EXCEPT !.space = IF to < m.low THEN With(@, to, FreeEntry(m.low - to)) ELSE @,
            !.hint = to]

StrCompact(m) ==
  WithTail([m EXCEPT !.space = Placed(@, Downs(@)), !.sd = Told(m, Downs(m.space))],
           Cardinality(Words(m.space, Used(m.space))))

(* `str_take`: the heap's free room becomes the end of string space.       *)
TailGrown(m, room) ==
  LET size == IF m.hint = m.low THEN room ELSE m.space[m.hint].size + room
  IN  [m EXCEPT !.space = With(@, m.hint, FreeEntry(size)), !.low = @ + room]
StrTake(m, room) == TailGrown(HintSet(m), room)

-----------------------------------------------------------------------------
(* The heap.                                                               *)

Smallest == HEADER + FOOTER
Holding(m, type) == {a \in DOMAIN m.heap : m.heap[a].holds = type}

(* The addresses of the data of an entry: of an array's, descriptors.      *)
Data(m, a) == a + HEADER .. End(m.heap, a) - FOOTER - 1

(* `lh_give_free_to_strings`: the free entries at the boundary, which join *)
(* string space one after another.                                         *)
LhGive(m) ==
  LET run == Run(m.heap, m.low)
  IN  IF run = {} THEN m
      ELSE [StrTake(m, End(m.heap, Max(run)) - m.low) EXCEPT !.heap = Without(@, run)]

(* `lh_take_from_strings`: string space's free tail becomes free heap.     *)
TailGiven(m) ==
  LET room == m.low - m.hint
      joins == m.low \in DOMAIN m.heap /\ IsFree(m.heap[m.low])
      size == IF joins THEN room + m.heap[m.low].size ELSE room
  IN  IF room < Smallest THEN m
      ELSE [m EXCEPT !.space = Without(@, {m.hint}), !.low = m.hint,
                     !.heap = With(IF joins THEN Without(@, {m.low}) ELSE @,
                                   m.hint, FreeEntry(size))]
LhTake(m) == TailGiven(HintSet(m))

(* `carve`: from the top of a free entry; what is left has to be an entry. *)
Entry(type, size) == [holds |-> type, size |-> size, data |-> <<>>]
Carved(f, a, type, size) ==
  LET rest == f[a].size - size
  IN  IF rest < Smallest
      THEN [heap |-> With(f, a, Entry(type, f[a].size)), at |-> a]
      ELSE [heap |-> With(With(f, a, FreeEntry(rest)), a + rest, Entry(type, size)),
            at |-> a + rest]

(* `first_fit`, and zero data: an array's elements are null descriptors.   *)
Zeroed(m, a) ==
  LET elements == IF m.heap[a].holds = "ARRAY" THEN Data(m, a) ELSE {}
  IN  [m EXCEPT !.sd = [x \in DOMAIN @ \cup elements |->
                          IF x \in elements THEN Nul ELSE @[x]]]
MadeOf(m, carved) ==
  [memory |-> Zeroed([m EXCEPT !.heap = carved.heap], carved.at), found |-> carved.at]
MadeIn(m, fit, type, size) ==
  IF fit.found = Nowhere
  THEN [memory |-> [m EXCEPT !.heap = fit.entries], found |-> Nowhere]
  ELSE MadeOf(m, Carved(fit.entries, fit.found, type, size))
Made(m, type, size) == MadeIn(m, FirstFit(m.heap, m.low, TOP, size), type, size)

(* `lh_alloc`: the free room, then room from string space, then room from  *)
(* string space compacted.                                                 *)
MadeTaking(before, type, size) ==
  IF before.found # Nowhere THEN before ELSE Made(LhTake(before.memory), type, size)
MadeCompacting(before, type, size) ==
  IF before.found # Nowhere THEN before
  ELSE Made(LhTake(StrCompact(before.memory)), type, size)
LhAlloc(m, words, type) ==
  LET size == Smallest + words
  IN  MadeCompacting(MadeTaking(Made(m, type, size), type, size), type, size)

(* `lh_free`.                                                              *)
LhFree(m, a) ==
  [m EXCEPT !.heap = With(@, a, FreeEntry(m.heap[a].size)),
            !.sd = Without(@, IF m.heap[a].holds = "ARRAY" THEN Data(m, a) ELSE {})]

(* `str_owner_moved` of the descriptors of S, moved by `delta`.            *)
OwnersMoved(m, S, delta) ==
  LET theirs == {EntryOf(m.sd[a]) : a \in {b \in S : InSpace(m, m.sd[b])}}
      moved(e) == [m.space[e] EXCEPT !.holds = @ + delta]
  IN  [m EXCEPT !.space = [e \in DOMAIN @ |-> IF e \in theirs THEN moved(e) ELSE @[e]]]

(* `moved`: the array's descriptors move, their strings and its own follow.*)
Moved(m, a, delta) ==
  LET data == Data(m, a)
      from(x) == IF x \in Statics THEN x ELSE x - delta
  IN  [OwnersMoved(m, data, delta) EXCEPT
         !.sd = [x \in Statics \cup {y + delta : y \in data} |-> m.sd[from(x)]],
         !.ad.at = @ + delta]

(* `lh_compact`: every entry slides to the top.                            *)
Ups(f) ==
  [a \in Used(f) |-> TOP - Cardinality(Words(f, {b \in Used(f) : b >= a}))]
LhCompact(m) ==
  LET to == Ups(m.heap)
      arrays == Holding(m, "ARRAY")
      moved == IF arrays = {} THEN m
               ELSE Moved(m, Max(arrays), to[Max(arrays)] - Max(arrays))
      room == TOP - Cardinality(Words(m.heap, Used(m.heap))) - m.low
      slid == Placed(m.heap, to)
  IN  [moved EXCEPT !.heap = IF room > 0 THEN With(slid, m.low, FreeEntry(room)) ELSE slid]

NhCompact(m) == LhGive(LhCompact(StrCompact(m)))

-----------------------------------------------------------------------------
(* Strings.                                                                *)

(* `str_release` of each of the descriptors of S, which are left as they   *)
(* were.                                                                   *)
Released(m, S) ==
  LET owners(e) == {a \in S : InSpace(m, m.sd[a]) /\ EntryOf(m.sd[a]) = e}
  IN  [m EXCEPT !.space =
         [e \in DOMAIN @ |-> IF owners(e) = {} THEN @[e]
                             ELSE FreeEntry(1 + m.sd[CHOOSE a \in owners(e) : TRUE].len)]]

(* The usual case: the hint is a free entry with room.                     *)
Hinted(m, n) ==
  /\ m.hint \in DOMAIN m.space
  /\ IsFree(m.space[m.hint]) /\ m.space[m.hint].size >= n

(* Mutant: the heap is not asked for its free room.                        *)
AttemptUngiven(m, attempt) == IF attempt = 3 THEN StrCompact(m) ELSE m

(* What is done for room: nothing, then the heap's free room is taken,     *)
(* then string space is packed.                                            *)
Attempt(m, attempt) ==
  CASE attempt = 1 -> m
    [] attempt = 2 -> LhGive(m)
    [] attempt = 3 -> StrCompact(m)

FitAfter(before, attempt, n) ==
  IF before.found # Nowhere THEN before ELSE Fit(Attempt(before.memory, attempt), n)
RoomFor(m, n) ==
  IF Hinted(m, n) THEN [memory |-> m, found |-> m.hint]
  ELSE FitAfter(FitAfter(Fit(Attempt(m, 1), n), 2, n), 3, n)

(* `str_alloc`; no room leaves the owner without a string.                 *)
Allotted(room, a, len) ==
  IF room.found = Nowhere
  THEN [room EXCEPT !.memory.sd[a] = Nul]
  ELSE [room EXCEPT !.memory = [Taken(@, room.found, len + 1, a) EXCEPT
                                  !.sd[a] = [len |-> len, ptr |-> room.found + 1]]]
StrAlloc(m, a, len) == Allotted(RoomFor([m EXCEPT !.sd[a].len = len], len + 1), a, len)

(* The string is written: from what it is copied from, as it is by then.   *)
Written(done, string) ==
  [done.memory EXCEPT !.space[done.found].data = string]

(* What a descriptor leads to.                                             *)
Read(m, a) == IF m.sd[a].len = 0 THEN <<>> ELSE m.space[EntryOf(m.sd[a])].data

(* `str_tmp_free` of those of S that are temporaries; a descriptor that is *)
(* free again is not looked at.                                            *)
TmpFreed(m, S) ==
  LET freed == S \cap m.live
  IN  [Released(m, freed) EXCEPT
         !.live = @ \ freed,
         !.sd = [a \in DOMAIN @ |-> IF a \in freed THEN Nul ELSE @[a]]]

(* Where the free temporaries are; the first is taken.                     *)
FreeTemps(m) == {i \in DOMAIN Temps : Temps[i] \notin m.live}

(* What a statement may read: a string it has a descriptor of, or a        *)
(* constant of one character, which is outside string space.               *)
AddressOf(m, name) == IF name \in Statics THEN name ELSE m.ad.at + name - 1
Known(m) == Vars \cup m.live \cup 1 .. m.ad.count
Operands(m) == Known(m) \cup Characters
TextOf(m, s) == IF s \in Characters THEN <<s>> ELSE Read(m, AddressOf(m, s))
Length(m, s) == IF s \in Characters THEN 1 ELSE m.sd[AddressOf(m, s)].len
Given(s) == IF s \in Characters THEN <<s>> ELSE text[s]

(* The descriptors that have a string, and the words their entries take.   *)
Owned(m) == {a \in {AddressOf(m, d) : d \in Known(m)} : m.sd[a].len > 0}
Taking(m) == UNION {EntryOf(m.sd[a]) .. EntryOf(m.sd[a]) + m.sd[a].len : a \in Owned(m)}

(* `qb_error`, and the program's handler.                                  *)
RaiseError(m) ==
  /\ memory' = TmpFreed(m, m.live)
  /\ raised' = 0
RaiseNoRoom(m, n) ==
  /\ memory' = TmpFreed(m, m.live)
  /\ raised' = n + Cardinality(Taking(m))

(* The texts once a statement gave some strings new ones; a temporary that *)
(* is free has none.                                                       *)
Texts(new) ==
  [d \in Names |->
     IF d \in ToSet(Temps) \ memory'.live THEN <<>>
     ELSE IF d \in DOMAIN new THEN new[d] ELSE text[d]]

(* B$SASS of a temporary: the variable takes its string over (`str_adopt`).*)
Adopt(t, d) ==
  LET to == AddressOf(memory, d)
      released == Released(memory, {to})
      sd == released.sd[t]
  IN  /\ t \in memory.live /\ d \in Known(memory) \ memory.live
      /\ memory' = [released EXCEPT !.space[EntryOf(sd)].holds = to,
                                    !.sd[to] = sd, !.sd[t] = Nul, !.live = @ \ {t}]
      /\ raised' = 0
      /\ text' = Texts([x \in {d} |-> text[t]])

(* B$SASS of any other string: copied, once the variable gave up its own.  *)
Assign(s, d) ==
  LET to == AddressOf(memory, d)
      len == Length(memory, s)
      released == Released(memory, {to})
      done == StrAlloc(released, to, len)
  IN  /\ d \in Known(memory) \ memory.live /\ s \notin memory.live \cup {d}
      /\ IF len = 0
         THEN /\ memory' = [released EXCEPT !.sd[to] = Nul]
              /\ raised' = 0
              /\ text' = Texts([x \in {d} |-> <<>>])
         ELSE IF done.found = Nowhere
         THEN /\ RaiseNoRoom(done.memory, len + 1)
              /\ text' = Texts([x \in {d} |-> <<>>])
         ELSE /\ memory' = Written(done, TextOf(done.memory, s))
              /\ raised' = 0
              /\ text' = Texts([x \in {d} |-> Given(s)])

(* B$SCAT: two strings joined in a temporary, and their temporaries freed. *)
(* No temporary left is String formula too complex.                        *)
Join(l, r) ==
  LET len == Length(memory, l) + Length(memory, r)
      t == Temps[Min(FreeTemps(memory))]
      done == StrAlloc(memory, t, len)
      joined == TextOf(done.memory, l) \o TextOf(done.memory, r)
  IN  /\ l # r \/ l \notin memory.live
      /\ len \in 1 .. MaxLength
      /\ IF FreeTemps(memory) = {}
         THEN RaiseError(memory) /\ text' = Texts(<<>>)
         ELSE IF done.found = Nowhere
         THEN RaiseNoRoom(done.memory, len + 1) /\ text' = Texts(<<>>)
         ELSE /\ memory' = [TmpFreed(Written(done, joined), {l, r}) EXCEPT
                              !.live = @ \cup {t}]
              /\ raised' = 0
              /\ text' = Texts([x \in {t} |-> Given(l) \o Given(r)])

(* A temporary that was only looked at (LEN, PRINT).                       *)
Consume(t) ==
  /\ t \in memory.live
  /\ memory' = TmpFreed(memory, {t})
  /\ raised' = 0
  /\ text' = Texts(<<>>)

(* B$STDL.                                                                 *)
Delete(v) ==
  /\ memory' = [Released(memory, {v}) EXCEPT !.sd[v] = Nul]
  /\ raised' = 0
  /\ text' = Texts([x \in {v} |-> <<>>])

-----------------------------------------------------------------------------
(* The array, files and FRE.                                               *)

Elements(at, count) == at .. at + count - 1

(* DIM of the array: no room is Out of memory.                             *)
Dim(n) ==
  LET done == LhAlloc(memory, n, "ARRAY")
  IN  /\ memory.ad.count = 0
      /\ IF done.found = Nowhere THEN RaiseError(done.memory)
         ELSE /\ memory' = [done.memory EXCEPT
                              !.ad = [at |-> done.found + HEADER, count |-> n]]
              /\ raised' = 0
      /\ text' = Texts(<<>>)

(* B$ERAS of elements at `at`, with `release_strings`.                     *)
Erased(m, at, count) == LhFree(Released(m, Elements(at, count)), at - HEADER)

Erase ==
  /\ memory.ad.count > 0
  /\ memory' = [Erased(memory, memory.ad.at, memory.ad.count)
                  EXCEPT !.ad = [at |-> 0, count |-> 0]]
  /\ raised' = 0
  /\ text' = Texts([i \in 1 .. MaxElements |-> <<>>])

(* The elements kept go to the new array, and the old are cleared.         *)
Copied(m, from, to, kept) ==
  [m EXCEPT !.sd = [a \in DOMAIN @ |->
     IF a \in Elements(to, kept) THEN @[a - to + from]
     ELSE IF a \in Elements(from, kept) THEN Nul ELSE @[a]]]

(* Mutant: the strings kept do not follow their descriptors.               *)
CarriedNot(m, from, to, kept) == Copied(m, from, to, kept)

(* The strings kept follow.                                                *)
Carried(m, from, to, kept) ==
  Copied(OwnersMoved(m, Elements(from, kept), to - from), from, to, kept)

(* REDIM PRESERVE (`preserve`).                                            *)
Preserve(n) ==
  LET old == memory.ad
      done == LhAlloc(memory, n, "ARRAY")
      to == done.found + HEADER
      kept == IF n < old.count THEN n ELSE old.count
  IN  /\ old.count > 0
      /\ IF done.found = Nowhere
         THEN RaiseError(done.memory) /\ text' = Texts(<<>>)
         ELSE /\ memory' = [Erased(Carried(done.memory, old.at, to, kept), old.at, old.count)
                              EXCEPT !.ad = [at |-> to, count |-> n]]
              /\ raised' = 0
              /\ text' = Texts([i \in n + 1 .. MaxElements |-> <<>>])

(* B$OPEN.                                                                 *)
Open ==
  LET done == LhAlloc(memory, FDB, "FILE")
  IN  /\ Cardinality(Holding(memory, "FILE")) < MaxFiles
      /\ IF done.found = Nowhere THEN RaiseError(done.memory)
         ELSE memory' = done.memory /\ raised' = 0
      /\ text' = Texts(<<>>)

(* `close_fdb`.                                                            *)
Close(a) ==
  /\ memory' = LhCompact(LhFree(memory, a))
  /\ raised' = 0
  /\ UNCHANGED text

(* FRE of a string or of 0.                                                *)
Fre ==
  /\ memory' = StrCompact(NhCompact(memory))
  /\ raised' = 0
  /\ UNCHANGED text

Next ==
  \/ \E t \in memory.live, d \in Known(memory) : Adopt(t, d)
  \/ \E s \in Operands(memory), d \in Known(memory) : Assign(s, d)
  \/ \E l, r \in Operands(memory) : Join(l, r)
  \/ \E t \in memory.live : Consume(t)
  \/ \E v \in Vars : Delete(v)
  \/ \E n \in 1 .. MaxElements : Dim(n) \/ Preserve(n)
  \/ Erase \/ Open \/ Fre
  \/ \E a \in Holding(memory, "FILE") : Close(a)

Spec == Init /\ [][Next]_vars

-----------------------------------------------------------------------------
(* Entries are next to one another from one address to another.            *)
Tiles(f, from, to) ==
  /\ DOMAIN f \subseteq from .. to - 1 /\ from \in DOMAIN f \cup {to}
  /\ \A a \in DOMAIN f :
       /\ f[a].size > 0 /\ End(f, a) \in DOMAIN f \cup {to}
       /\ \A b \in DOMAIN f : b > a => b >= End(f, a)

(* The entries tile the region, and the hint is at one of them or the end. *)
TypeOK ==
  /\ Tiles(memory.space, 0, memory.low) /\ Tiles(memory.heap, memory.low, TOP)
  /\ memory.hint \in DOMAIN memory.space \cup {memory.low}
  /\ memory.live \subseteq ToSet(Temps)
  /\ text \in [Names -> Strings] /\ raised \in 0 .. TOP + MaxLength + 1

(* CHECK_OWNER, and what the program relies on: each string it has is the  *)
(* one it was given last, whatever was moved or joined since, an entry in  *)
(* use is that of the descriptor that leads to it, and no other is in use. *)
StringsAreKept ==
  /\ \A d \in Known(memory) : Read(memory, AddressOf(memory, d)) = text[d]
  /\ \A a \in Owned(memory) : memory.space[EntryOf(memory.sd[a])].holds = a
  /\ \A e \in Used(memory.space) :
       /\ memory.space[e].holds \in Owned(memory)
       /\ memory.space[e].size = 1 + memory.sd[memory.space[e].holds].len

(* Out of string space is raised when there is no room, "if there is still *)
(* none" (nhstutil.c): what the program held and what it asked for are     *)
(* more than string space with the heap's free room at the boundary.       *)
RoomIsFound ==
  raised > 0 =>
    /\ Run(memory.heap, memory.low) = {}
    /\ raised > memory.low

=============================================================================
