-------------------------- MODULE StringSpaceProofs --------------------------
(***************************************************************************)
(* What string space and the local heap promise for any variables, sizes   *)
(* and bounds.                                                             *)
(*                                                                         *)
(* Good(m, X) says of a memory that its entries tile both regions and that *)
(* descriptors and entries in use lead to each other, but for the          *)
(* descriptors of X, which are between two strings.  Every operation on a  *)
(* memory has a lemma of what it makes of a good one: Kept where addresses *)
(* stay, Shown where the array may move, Gives where the program gets a    *)
(* string.  The inductive invariant IInv adds that the array is where its  *)
(* descriptor says, that the temporaries in use are those with a string,   *)
(* and that the strings are those the program was given.                   *)
(***************************************************************************)
EXTENDS StringSpace, FiniteSetTheorems, SequenceTheorems, WellFoundedInduction, TLAPS

(* Every nonempty set of naturals has a least element.                     *)
LEMMA LeastOf ==
  ASSUME NEW S \in SUBSET Nat, S # {}
  PROVE  \E x \in S : \A y \in S : x <= y
<1>1. PICK x \in S : \A y \in S : ~(<<y, x>> \in OpToRel(<, Nat))
  BY NatLessThanWellFounded, WFMin, Zenon
<1>2. ASSUME NEW y \in S PROVE x <= y
  <2>1. <<y, x>> \in Nat \X Nat /\ <<y, x>>[1] = y /\ <<y, x>>[2] = x
    OBVIOUS
  <2>2. y < x => <<y, x>> \in OpToRel(<, Nat)
    BY <2>1 DEF OpToRel
  <2>3. ~(y < x)
    BY <1>1, <2>2, Zenon
  <2>4. x \in Nat /\ y \in Nat
    OBVIOUS
  <2> QED
    BY <2>3, <2>4, SMT
<1> QED
  BY <1>2

(* What holds of 0, and of n where it holds of n - 1, holds of every n of  *)
(* an interval: what it holds of is a set.                                 *)
LEMMA AllOf ==
  ASSUME NEW N \in Nat, NEW S, 0 \in S, \A i \in 1 .. N : i - 1 \in S => i \in S
  PROVE  \A i \in 0 .. N : i \in S
<1> DEFINE Bad == {i \in 0 .. N : i \notin S}
<1> SUFFICES ASSUME Bad # {} PROVE FALSE
  OBVIOUS
<1>1. Bad \in SUBSET Nat
  OBVIOUS
<1>2. PICK n \in Bad : \A m \in Bad : n <= m
  <2> HIDE DEF Bad
  <2> QED
    BY <1>1, LeastOf, Zenon
<1>3. n \in 0 .. N /\ n \notin S /\ n # 0
  OBVIOUS
<1>4. n - 1 \in 0 .. N /\ n \in 1 .. N /\ ~(n <= n - 1)
  BY <1>3
<1>5. n - 1 \notin Bad
  BY <1>2, <1>4
<1> QED
  BY <1>3, <1>4, <1>5

(* A function longer by one.                                               *)
Longer(f, n, x) == [i \in 0 .. n |-> IF i = n THEN x ELSE f[i]]

(* It agrees with f up to its new end.                                     *)
LEMMA LongerIs ==
  ASSUME NEW n \in Nat \ {0}, NEW f, NEW x
  PROVE  /\ \A i \in 0 .. n - 1 : Longer(f, n, x)[i] = f[i]
         /\ Longer(f, n, x)[n] = x
         /\ \A i \in 0 .. n : i # 0 => i - 1 \in 0 .. n - 1
         /\ \A i \in 0 .. n : i # n => i \in 0 .. n - 1
BY DEF Longer

(* A nonempty set of naturals up to N has a greatest element.              *)
LEMMA MaxIs ==
  ASSUME NEW N \in Nat, NEW S \in SUBSET (0 .. N), S # {}
  PROVE  Max(S) \in S /\ \A y \in S : y <= Max(S)
<1> DEFINE Above == {n \in Nat : \A y \in S : y <= n}
<1>1. N \in Above /\ Above \in SUBSET Nat
  OBVIOUS
<1>2. PICK n \in Above : \A x \in Above : n <= x
  <2> HIDE DEF Above
  <2> QED
    BY <1>1, LeastOf, Zenon
<1>3. n \in S
  <2> SUFFICES ASSUME n \notin S PROVE FALSE
    OBVIOUS
  <2>1. n \in Nat /\ \A y \in S : y <= n /\ y # n /\ y \in Nat
    OBVIOUS
  <2>2. PICK y \in S : TRUE
    OBVIOUS
  <2>3. n - 1 \in Above
    BY <2>1, <2>2
  <2>4. n <= n - 1
    <3> HIDE DEF Above
    <3> QED
      BY <1>2, <2>3
  <2> QED
    BY <2>1, <2>4
<1>4. \E x \in S : \A y \in S : x >= y
  BY <1>3
<1>5. Max(S) \in S /\ \A y \in S : Max(S) >= y
  BY <1>4, Zenon DEF Max
<1> QED
  BY <1>5

(* The greatest element of a singleton.                                    *)
LEMMA MaxOfOne ==
  ASSUME NEW x \in Int
  PROVE  Max({x}) = x
<1>1. \E y \in {x} : \A z \in {x} : y >= z
  OBVIOUS
<1> QED
  BY <1>1 DEF Max

-----------------------------------------------------------------------------
(* Entries from one address to another: what `Tiles` says, of sizes that   *)
(* are numbers.                                                            *)
Tiling(f, from, to) ==
  /\ from \in Nat /\ to \in Nat /\ from <= to
  /\ \A a \in DOMAIN f : f[a].size \in Nat
  /\ Tiles(f, from, to)

(* What tiling is, entry by entry.                                         *)
LEMMA TilingIs ==
  ASSUME NEW f, NEW from, NEW to, Tiling(f, from, to)
  PROVE  /\ from \in Nat /\ to \in Nat /\ from <= to
         /\ from \in DOMAIN f \cup {to}
         /\ \A a \in DOMAIN f :
              /\ a \in Nat /\ from <= a /\ a < to
              /\ f[a].size \in Nat /\ f[a].size > 0 /\ End(f, a) = f[a].size + a
              /\ End(f, a) \in Nat /\ a < End(f, a) /\ End(f, a) <= to
              /\ End(f, a) \in DOMAIN f \cup {to}
              /\ \A b \in DOMAIN f : b > a => b >= End(f, a)
<1>1. /\ from \in Nat /\ to \in Nat /\ from <= to
      /\ \A a \in DOMAIN f : f[a].size \in Nat
      /\ Tiles(f, from, to)
  BY DEF Tiling
<1>2. /\ DOMAIN f \subseteq from .. to - 1 /\ from \in DOMAIN f \cup {to}
      /\ \A a \in DOMAIN f :
           /\ f[a].size > 0 /\ End(f, a) \in DOMAIN f \cup {to}
           /\ \A b \in DOMAIN f : b > a => b >= End(f, a)
  BY <1>1 DEF Tiles
<1>3. ASSUME NEW a \in DOMAIN f
      PROVE  /\ a \in Nat /\ from <= a /\ a < to
             /\ f[a].size \in Nat /\ f[a].size > 0 /\ End(f, a) = f[a].size + a
             /\ End(f, a) \in Nat /\ a < End(f, a) /\ End(f, a) <= to
             /\ End(f, a) \in DOMAIN f \cup {to}
             /\ \A b \in DOMAIN f : b > a => b >= End(f, a)
  <2>1. a \in from .. to - 1 /\ f[a].size \in Nat /\ End(f, a) \in DOMAIN f \cup {to}
    BY <1>1, <1>2
  <2>2. a \in Nat /\ from <= a /\ a < to
    BY <1>1, <2>1
  <2>3. End(f, a) = f[a].size + a
    BY DEF End
  <2>4. End(f, a) <= to
    BY <1>1, <1>2, <2>1
  <2> QED
    BY <1>1, <1>2, <2>1, <2>2, <2>3, <2>4
<1> QED
  BY <1>1, <1>2, <1>3

(* What makes a tiling.                                                    *)
LEMMA TilingFrom ==
  ASSUME NEW f, NEW from \in Nat, NEW to \in Nat, from <= to,
         from \in DOMAIN f \cup {to},
         \A a \in DOMAIN f :
           /\ a \in Nat /\ from <= a /\ a < to
           /\ f[a].size \in Nat /\ f[a].size > 0
           /\ f[a].size + a \in DOMAIN f \cup {to}
           /\ \A b \in DOMAIN f : b > a => b >= f[a].size + a
  PROVE  Tiling(f, from, to)
BY DEF Tiling, Tiles, End

(* Entries that are given others of the same sizes.                        *)
LEMMA SameSizes ==
  ASSUME NEW f, NEW g, NEW from, NEW to, Tiling(f, from, to), DOMAIN g = DOMAIN f,
         \A a \in DOMAIN f : g[a].size = f[a].size
  PROVE  Tiling(g, from, to)
BY DEF Tiling, Tiles, End

(* What a free entry is.                                                   *)
LEMMA FreeEntryIs ==
  ASSUME NEW n
  PROVE  /\ FreeEntry(n).holds = None
         /\ FreeEntry(n).size = n
         /\ FreeEntry(n).data = <<>>
         /\ IsFree(FreeEntry(n))
BY DEF FreeEntry, IsFree

(* g is f with free entries joined.                                        *)
Merges(f, g) ==
  /\ DOMAIN g \subseteq DOMAIN f
  /\ \A x \in DOMAIN f : ~IsFree(f[x]) => x \in DOMAIN g
  /\ \A x \in DOMAIN g :
       \/ g[x] = f[x]
       \/ /\ IsFree(f[x]) /\ g[x] = FreeEntry(g[x].size)
          /\ g[x].size \in Nat /\ g[x].size >= f[x].size

(* What is joined and joined again is joined.                              *)
LEMMA MergesMerge ==
  ASSUME NEW f, NEW g, NEW h, Merges(f, g), Merges(g, h),
         \A x \in DOMAIN f : f[x].size \in Nat
  PROVE  Merges(f, h)
<1> SUFFICES /\ DOMAIN h \subseteq DOMAIN f
             /\ \A x \in DOMAIN f : ~IsFree(f[x]) => x \in DOMAIN h
             /\ \A x \in DOMAIN h :
                  \/ h[x] = f[x]
                  \/ /\ IsFree(f[x]) /\ h[x] = FreeEntry(h[x].size)
                     /\ h[x].size \in Nat /\ h[x].size >= f[x].size
  BY DEF Merges
<1>1. DOMAIN h \subseteq DOMAIN f /\ DOMAIN h \subseteq DOMAIN g
  BY DEF Merges
<1>2. ASSUME NEW x \in DOMAIN f, ~IsFree(f[x]) PROVE x \in DOMAIN h
  <2>1. x \in DOMAIN g
    BY <1>2 DEF Merges
  <2>2. g[x] = f[x]
    BY <1>2, <2>1 DEF Merges
  <2> QED
    BY <1>2, <2>1, <2>2 DEF Merges
<1>3. ASSUME NEW x \in DOMAIN h
      PROVE  \/ h[x] = f[x]
             \/ /\ IsFree(f[x]) /\ h[x] = FreeEntry(h[x].size)
                /\ h[x].size \in Nat /\ h[x].size >= f[x].size
  <2>1. x \in DOMAIN g /\ x \in DOMAIN f /\ f[x].size \in Nat
    BY <1>1
  <2>2. \/ g[x] = f[x]
        \/ /\ IsFree(f[x]) /\ g[x] = FreeEntry(g[x].size)
           /\ g[x].size \in Nat /\ g[x].size >= f[x].size
    BY <2>1 DEF Merges
  <2>3. \/ h[x] = g[x]
        \/ /\ IsFree(g[x]) /\ h[x] = FreeEntry(h[x].size)
           /\ h[x].size \in Nat /\ h[x].size >= g[x].size
    BY DEF Merges
  <2> QED
    BY <2>1, <2>2, <2>3
<1> QED
  BY <1>1, <1>2, <1>3

(* The entries in a row from a free one on: they end at one address, and   *)
(* every other entry is before the first or from there on.                 *)
LEMMA RunIs ==
  ASSUME NEW f, NEW from, NEW to, Tiling(f, from, to),
         NEW a \in DOMAIN f, IsFree(f[a])
  PROVE  /\ a \in Run(f, a) /\ Max(Run(f, a)) \in Run(f, a) /\ Max(Run(f, a)) \in DOMAIN f
         /\ Run(f, a) \subseteq DOMAIN f
         /\ \A x \in DOMAIN f :
              IF x \in Run(f, a) THEN a <= x /\ IsFree(f[x]) /\ x < End(f, Max(Run(f, a)))
              ELSE x < a \/ x >= End(f, Max(Run(f, a)))
         /\ End(f, Max(Run(f, a))) \in Nat
         /\ End(f, Max(Run(f, a))) \in DOMAIN f => ~IsFree(f[End(f, Max(Run(f, a)))])
         /\ End(f, Max(Run(f, a))) >= End(f, a)
<1> DEFINE R == Run(f, a)
           M == Max(R)
<1>1. /\ from \in Nat /\ to \in Nat
      /\ \A x \in DOMAIN f :
           /\ x \in Nat /\ x < to
           /\ End(f, x) \in Nat /\ x < End(f, x)
           /\ \A b \in DOMAIN f : b > x => b >= End(f, x)
  BY TilingIs
<1>2. R \subseteq DOMAIN f /\ \A x \in R : x >= a /\ \A c \in DOMAIN f \cap (a .. x) : IsFree(f[c])
  BY DEF Run
<1>3. a \in R
  <2>1. \A c \in DOMAIN f \cap (a .. a) : c = a
    BY <1>1
  <2>2. a >= a
    BY <1>1
  <2> QED
    BY <2>1, <2>2 DEF Run
<1>4. M \in R /\ \A y \in R : y <= M
  <2>1. R \in SUBSET (0 .. to)
    <3> HIDE DEF R
    <3> QED
      BY <1>1, <1>2
  <2> HIDE DEF R
  <2> QED
    BY <1>1, <1>3, <2>1, MaxIs
<1>5. ASSUME NEW x \in DOMAIN f, x \notin R PROVE x < a \/ x >= End(f, M)
  <2> SUFFICES ASSUME ~(x < a) PROVE x >= End(f, M)
    OBVIOUS
  <2>1. x >= a
    BY <1>1
  <2>2. PICK c \in DOMAIN f \cap (a .. x) : ~IsFree(f[c])
    BY <1>5, <2>1 DEF Run
  <2>3. M \in DOMAIN f /\ \A d \in DOMAIN f \cap (a .. M) : IsFree(f[d])
    <3> HIDE DEF R, M
    <3> QED
      BY <1>2, <1>4
  <2>4. ~(c <= M)
    <3> HIDE DEF M
    <3> QED
      BY <1>1, <2>2, <2>3
  <2> HIDE DEF M
  <2> QED
    BY <1>1, <2>2, <2>3, <2>4
<1>6. ASSUME NEW x \in R PROVE a <= x /\ IsFree(f[x]) /\ x < End(f, M)
  <2>1. x \in DOMAIN f /\ x >= a /\ x <= M /\ M \in DOMAIN f /\ IsFree(f[x])
    <3> HIDE DEF R, M
    <3>1. x \in DOMAIN f /\ x >= a /\ x <= M /\ M \in DOMAIN f
      BY <1>2, <1>4
    <3>2. x \in DOMAIN f \cap (a .. x)
      BY <1>1, <3>1
    <3> QED
      BY <1>2, <3>1, <3>2
  <2> HIDE DEF M
  <2> QED
    BY <1>1, <2>1
<1>7. End(f, M) \in DOMAIN f => ~IsFree(f[End(f, M)])
  <2> SUFFICES ASSUME End(f, M) \in DOMAIN f, IsFree(f[End(f, M)]) PROVE FALSE
    OBVIOUS
  <2> DEFINE e == End(f, M)
  <2>1. e \in DOMAIN f /\ IsFree(f[e]) /\ M \in DOMAIN f /\ e > M /\ M >= a
    <3> HIDE DEF R, M
    <3> QED
      BY <1>1, <1>2, <1>4
  <2>2. ASSUME NEW c \in DOMAIN f \cap (a .. e) PROVE IsFree(f[c])
    <3>1. c > M => c = e
      <4> SUFFICES ASSUME c > M PROVE c = e
        OBVIOUS
      <4>1. c >= e
        <5> HIDE DEF M
        <5> QED
          BY <1>1, <2>1
      <4> HIDE DEF e
      <4> QED
        BY <1>1, <2>1, <4>1
    <3>2. ~(c > M) => c \in DOMAIN f \cap (a .. M)
      <4> HIDE DEF M, e
      <4> QED
        BY <1>1, <2>1
    <3> HIDE DEF M, R, e
    <3> QED
      BY <1>2, <1>4, <2>1, <3>1, <3>2
  <2>3. e \in R
    <3>1. e >= a
      <4> HIDE DEF M, e
      <4> QED
        BY <1>1, <2>1
    <3> HIDE DEF e
    <3> QED
      BY <2>1, <2>2, <3>1 DEF Run
  <2> HIDE DEF R, M, e
  <2> QED
    BY <1>1, <1>4, <2>1, <2>3
<1>8. End(f, M) \in Nat /\ End(f, M) >= End(f, a) /\ M \in DOMAIN f
  <2> HIDE DEF R, M
  <2>1. M \in DOMAIN f /\ a <= M
    BY <1>2, <1>3, <1>4
  <2>2. a = M \/ M > a
    BY <1>1, <2>1
  <2> QED
    BY <1>1, <2>1, <2>2
<1> HIDE DEF M
<1>9. /\ a \in R /\ M \in R /\ M \in DOMAIN f
      /\ R \subseteq DOMAIN f
      /\ \A x \in DOMAIN f : IF x \in R THEN a <= x /\ IsFree(f[x]) /\ x < End(f, M)
                             ELSE x < a \/ x >= End(f, M)
      /\ End(f, M) \in Nat /\ End(f, M) >= End(f, a)
      /\ End(f, M) \in DOMAIN f => ~IsFree(f[End(f, M)])
  <2> HIDE DEF R
  <2> QED
    BY <1>2, <1>3, <1>4, <1>5, <1>6, <1>7, <1>8
<1> QED
  BY <1>9 DEF M

(* Joining the free entries from one on keeps the tiling.                  *)
LEMMA JoinedIs ==
  ASSUME NEW f, NEW from, NEW to, Tiling(f, from, to), NEW a \in DOMAIN f
  PROVE  /\ Tiling(Joined(f, a), from, to) /\ Merges(f, Joined(f, a))
         /\ a \in DOMAIN Joined(f, a)
<1>1. CASE ~IsFree(f[a])
  <2>1. Run(f, a) = {}
    <3> SUFFICES ASSUME NEW b \in DOMAIN f, b >= a,
                        \A c \in DOMAIN f \cap (a .. b) : IsFree(f[c])
                 PROVE  FALSE
      BY DEF Run
    <3>1. a \in Nat /\ b \in Nat
      BY TilingIs
    <3>2. a \in DOMAIN f \cap (a .. b)
      BY <3>1
    <3> QED
      BY <1>1, <3>2
  <2>2. Joined(f, a) = f
    BY <2>1, Zenon DEF Joined
  <2> QED
    BY <2>2 DEF Merges
<1>2. CASE IsFree(f[a])
  <2> DEFINE R == Run(f, a)
             M == Max(R)
             e == End(f, M)
             g == Joined(f, a)
  <2>1. /\ a \in R /\ M \in R /\ M \in DOMAIN f
        /\ R \subseteq DOMAIN f
        /\ \A x \in DOMAIN f : IF x \in R THEN a <= x /\ IsFree(f[x]) /\ x < e
                               ELSE x < a \/ x >= e
        /\ e \in Nat /\ e >= End(f, a)
    BY <1>2, RunIs, Zenon
  <2>2. /\ from \in Nat /\ to \in Nat /\ from <= to
        /\ from \in DOMAIN f \cup {to}
        /\ \A x \in DOMAIN f :
             /\ x \in Nat /\ from <= x /\ x < to
             /\ f[x].size \in Nat /\ f[x].size > 0 /\ End(f, x) = f[x].size + x
             /\ End(f, x) \in Nat /\ x < End(f, x) /\ End(f, x) <= to
             /\ End(f, x) \in DOMAIN f \cup {to}
             /\ \A b \in DOMAIN f : b > x => b >= End(f, x)
    BY TilingIs
  <2>3. g = With(Without(f, R), a, FreeEntry(e - a))
    <3>1. R # {}
      BY <2>1
    <3> QED
      BY <3>1, Zenon DEF Joined
  <2>4. /\ DOMAIN g = (DOMAIN f \ R) \cup {a} /\ g[a] = FreeEntry(e - a)
        /\ \A x \in DOMAIN f \ R : g[x] = f[x]
    <3>e. a \in R
      BY <2>1
    <3> HIDE DEF g, R, e
    <3>1. DOMAIN g = DOMAIN Without(f, R) \cup {a} /\ g[a] = FreeEntry(e - a)
      BY <2>3 DEF With
    <3>2. DOMAIN Without(f, R) = DOMAIN f \ R
      BY DEF Without
    <3>3. ASSUME NEW x \in DOMAIN f \ R PROVE g[x] = f[x]
      <4>1. x # a /\ x \in DOMAIN Without(f, R)
        BY <3>e, <3>2
      <4>2. g[x] = Without(f, R)[x]
        BY <2>3, <4>1 DEF With
      <4> QED
        BY <4>2 DEF Without
    <3> QED
      BY <3>1, <3>2, <3>3
  <2>e. e \in Nat /\ e > a /\ e \in DOMAIN f \cup {to} /\ e <= to /\ e \notin R
    <3> HIDE DEF R
    <3>1. e \in Nat /\ e >= End(f, a) /\ e \in DOMAIN f \cup {to} /\ e <= to
      <4> HIDE DEF M
      <4> QED
        BY <2>1, <2>2
    <3> HIDE DEF e
    <3> QED
      BY <2>1, <2>2, <3>1
  <2> HIDE DEF g, e, M, R
  <2>5. g[a].size = e - a /\ IsFree(g[a]) /\ e - a \in Nat /\ e - a > 0
    <3>1. g[a].size = e - a /\ IsFree(g[a])
      BY <2>4, FreeEntryIs, Zenon
    <3> QED
      BY <2>1, <2>2, <2>e, <3>1
  <2>6. from \in DOMAIN g \cup {to}
    BY <2>1, <2>2, <2>4
  <2>7. ASSUME NEW x \in DOMAIN g
        PROVE  /\ x \in Nat /\ from <= x /\ x < to
               /\ g[x].size \in Nat /\ g[x].size > 0
               /\ g[x].size + x \in DOMAIN g \cup {to}
               /\ \A b \in DOMAIN g : b > x => b >= g[x].size + x
    <3>1. x \in DOMAIN f
      BY <2>1, <2>4
    <3>2. CASE x = a
      <4>1. g[x].size + x = e
        BY <2>2, <2>5, <2>e, <3>2
      <4>2. \A b \in DOMAIN g : b > x => b >= e
        BY <2>1, <2>2, <2>4, <3>2
      <4> QED
        BY <2>2, <2>4, <2>5, <2>e, <3>1, <3>2, <4>1, <4>2
    <3>3. CASE x # a
      <4>1. x \in DOMAIN f \ R /\ g[x] = f[x] /\ (x < a \/ x >= e)
        BY <2>1, <2>4, <3>3
      <4> DEFINE n == End(f, x)
      <4>2. n = g[x].size + x /\ n \in Nat /\ n \in DOMAIN f \cup {to} /\ x < n
        BY <2>2, <4>1
      <4>3. \A b \in DOMAIN f : b > x => b >= n
        BY <2>2, <4>1
      <4>4. a > x => a >= n
        BY <4>3
      <4> HIDE DEF n
      <4>5. n \in R => n = a
        BY <2>1, <2>2, <2>e, <4>1, <4>2, <4>4
      <4>6. n \in DOMAIN g \cup {to}
        BY <2>4, <4>2, <4>5
      <4>7. \A b \in DOMAIN g : b > x => b >= n
        BY <2>4, <4>3
      <4> QED
        BY <2>2, <4>1, <4>2, <4>6, <4>7
    <3> QED
      BY <3>2, <3>3
  <2>8. Tiling(g, from, to)
    BY <2>2, <2>6, <2>7, TilingFrom
  <2>9. Merges(f, g)
    <3>1. DOMAIN g \subseteq DOMAIN f
      BY <2>1, <2>4
    <3>2. \A x \in DOMAIN f : ~IsFree(f[x]) => x \in DOMAIN g
      BY <2>1, <2>4
    <3>3. g[a] = FreeEntry(g[a].size) /\ g[a].size \in Nat /\ g[a].size >= f[a].size
      BY <2>1, <2>2, <2>4, <2>5, <2>e
    <3>4. \A x \in DOMAIN g : x # a => g[x] = f[x]
      BY <2>4
    <3> QED
      BY <1>2, <3>1, <3>2, <3>3, <3>4 DEF Merges
  <2> QED
    BY <2>4, <2>8, <2>9 DEF g
<1> QED
  BY <1>1, <1>2

(* An entry split in two.                                                  *)
Splits(f, a, n, d, e, g) ==
  /\ DOMAIN g = DOMAIN f \cup {a + n}
  /\ g[a] = d /\ g[a + n] = e
  /\ \A x \in DOMAIN f : x # a => g[x] = f[x]

(* The two tile what the one did.                                          *)
LEMMA SplitIs ==
  ASSUME NEW f, NEW from, NEW to, Tiling(f, from, to), NEW a \in DOMAIN f,
         NEW n \in Nat, 0 < n, n < f[a].size, NEW d, NEW e,
         d.size = n, e.size = f[a].size - n
  PROVE  /\ Tiling(With(With(f, a, d), a + n, e), from, to) /\ a + n \notin DOMAIN f
         /\ Splits(f, a, n, d, e, With(With(f, a, d), a + n, e))
<1> DEFINE g == With(With(f, a, d), a + n, e)
<1>1. /\ from \in Nat /\ to \in Nat /\ from <= to
      /\ from \in DOMAIN f \cup {to}
      /\ \A x \in DOMAIN f :
           /\ x \in Nat /\ from <= x /\ x < to
           /\ f[x].size \in Nat /\ f[x].size > 0 /\ End(f, x) = f[x].size + x
           /\ End(f, x) \in Nat /\ x < End(f, x) /\ End(f, x) <= to
           /\ End(f, x) \in DOMAIN f \cup {to}
           /\ \A b \in DOMAIN f : b > x => b >= End(f, x)
  BY TilingIs
<1>2. a + n \notin DOMAIN f /\ a + n # a /\ a + n \in Nat /\ a + n > a /\ a + n < End(f, a)
  BY <1>1
<1>3. /\ DOMAIN g = DOMAIN f \cup {a + n}
      /\ g[a] = d /\ g[a + n] = e
      /\ \A x \in DOMAIN f : x # a => g[x] = f[x]
  <2>1. /\ DOMAIN With(f, a, d) = DOMAIN f \cup {a} /\ With(f, a, d)[a] = d
        /\ \A x \in DOMAIN f : x # a => With(f, a, d)[x] = f[x]
    BY DEF With
  <2>2. /\ DOMAIN g = DOMAIN With(f, a, d) \cup {a + n} /\ g[a + n] = e
        /\ \A x \in DOMAIN With(f, a, d) : x # a + n => g[x] = With(f, a, d)[x]
    BY DEF With
  <2> HIDE DEF g
  <2> QED
    BY <1>2, <2>1, <2>2
<1> HIDE DEF g
<1>4. ASSUME NEW x \in DOMAIN g
      PROVE  /\ x \in Nat /\ from <= x /\ x < to
             /\ g[x].size \in Nat /\ g[x].size > 0
             /\ g[x].size + x \in DOMAIN g \cup {to}
             /\ \A b \in DOMAIN g : b > x => b >= g[x].size + x
  <2>1. CASE x = a
    BY <1>1, <1>2, <1>3, <2>1
  <2>2. CASE x = a + n
    <3>1. g[x].size + x = End(f, a)
      BY <1>1, <1>2, <1>3, <2>2
    <3>2. \A b \in DOMAIN f : b > x => b > a
      BY <1>1, <1>2, <2>2
    <3> QED
      BY <1>1, <1>2, <1>3, <2>2, <3>1, <3>2
  <2>3. CASE x \in DOMAIN f /\ x # a
    <3>1. g[x] = f[x] /\ f[x].size + x = End(f, x)
      BY <1>1, <1>3, <2>3
    <3>2. a > x => a >= End(f, x)
      BY <1>1, <2>3
    <3>3. ~(a > x) => End(f, x) > a + n /\ x > a + n
      BY <1>1, <1>2, <2>3
    <3>4. \A b \in DOMAIN g : b > x => b >= End(f, x)
      BY <1>1, <1>2, <1>3, <2>3, <3>2, <3>3
    <3> QED
      BY <1>1, <1>3, <2>3, <3>1, <3>4
  <2> QED
    BY <1>3, <2>1, <2>2, <2>3
<1>5. Tiling(g, from, to)
  BY <1>1, <1>3, <1>4, TilingFrom
<1> QED
  BY <1>2, <1>3, <1>5 DEF g, Splits

(* An entry replaced by one of its size.                                   *)
LEMMA ReplacedIs ==
  ASSUME NEW f, NEW from, NEW to, Tiling(f, from, to), NEW a \in DOMAIN f,
         NEW e, e.size = f[a].size
  PROVE  Tiling(With(f, a, e), from, to)
<1>1. /\ DOMAIN With(f, a, e) = DOMAIN f \cup {a} /\ With(f, a, e)[a] = e
      /\ \A x \in DOMAIN f : x # a => With(f, a, e)[x] = f[x]
  BY DEF With
<1> QED
  BY <1>1, SameSizes

(* Room after the end: a new entry, or the last one grows.                 *)
LEMMA GrownIs ==
  ASSUME NEW f, NEW from, NEW to, Tiling(f, from, to), NEW room \in Nat, room > 0,
         NEW e, NEW a,
         \/ a = to /\ e.size = room
         \/ a \in DOMAIN f /\ End(f, a) = to /\ e.size = f[a].size + room
  PROVE  Tiling(With(f, a, e), from, to + room)
<1> DEFINE g == With(f, a, e)
<1>1. /\ from \in Nat /\ to \in Nat /\ from <= to
      /\ from \in DOMAIN f \cup {to}
      /\ \A x \in DOMAIN f :
           /\ x \in Nat /\ from <= x /\ x < to
           /\ f[x].size \in Nat /\ f[x].size > 0 /\ End(f, x) = f[x].size + x
           /\ End(f, x) \in Nat /\ x < End(f, x) /\ End(f, x) <= to
           /\ End(f, x) \in DOMAIN f \cup {to}
           /\ \A b \in DOMAIN f : b > x => b >= End(f, x)
  BY TilingIs
<1>2. /\ DOMAIN g = DOMAIN f \cup {a} /\ g[a] = e
      /\ \A x \in DOMAIN f : x # a => g[x] = f[x]
  BY DEF With
<1> HIDE DEF g
<1>3. a \in Nat /\ e.size \in Nat /\ e.size > 0 /\ e.size + a = to + room /\ from <= a
  BY <1>1
<1>4. \A x \in DOMAIN f : x # a => x < a /\ End(f, x) <= a /\ End(f, x) # to + room
  <2> TAKE x \in DOMAIN f
  <2>1. CASE a = to
    BY <1>1, <2>1
  <2>2. CASE a \in DOMAIN f /\ End(f, a) = to
    BY <1>1, <2>2
  <2> QED
    BY <2>1, <2>2
<1>5. ASSUME NEW x \in DOMAIN g
      PROVE  /\ x \in Nat /\ from <= x /\ x < to + room
             /\ g[x].size \in Nat /\ g[x].size > 0
             /\ g[x].size + x \in DOMAIN g \cup {to + room}
             /\ \A b \in DOMAIN g : b > x => b >= g[x].size + x
  <2>1. CASE x = a
    BY <1>1, <1>2, <1>3, <1>4, <2>1
  <2>2. CASE x # a
    <3>1. x \in DOMAIN f /\ g[x] = f[x] /\ f[x].size + x = End(f, x) /\ x < a /\ End(f, x) <= a
      BY <1>1, <1>2, <1>4, <2>2
    <3>2. End(f, x) = to => a = to
      BY <1>1, <1>3, <3>1
    <3>3. End(f, x) \in DOMAIN g
      BY <1>1, <1>2, <3>1, <3>2
    <3>4. \A b \in DOMAIN g : b > x => b >= End(f, x)
      BY <1>1, <1>2, <3>1
    <3> QED
      BY <1>1, <1>2, <3>1, <3>3, <3>4
  <2> QED
    BY <2>1, <2>2
<1>6. from \in DOMAIN g \cup {to + room} /\ to + room \in Nat /\ from <= to + room
  BY <1>1, <1>2
<1>7. Tiling(g, from, to + room)
  BY <1>1, <1>5, <1>6, TilingFrom
<1> QED
  BY <1>7 DEF g

-----------------------------------------------------------------------------
(* What the constants are.                                                 *)
LEMMA ConstantsAre ==
  /\ TOP \in Nat /\ TOP > 0
  /\ HEADER \in Nat /\ HEADER > 0
  /\ FOOTER \in Nat /\ FOOTER > 0
  /\ FDB \in Nat /\ FDB > 0
  /\ MaxElements \in Nat /\ MaxElements > 0
  /\ MaxLength \in Nat /\ MaxLength > 0
BY SpaceAssumption

(* What a scan has made of f and where it is: at an entry or the end, with *)
(* what it has found, if anything.                                         *)
Scanning(f, from, to, size, x) ==
  /\ Tiling(x.entries, from, to) /\ Merges(f, x.entries)
  /\ x.at \in DOMAIN x.entries \cup {to}
  /\ \/ x.found = Nowhere
     \/ /\ x.found \in DOMAIN x.entries /\ IsFree(x.entries[x.found])
        /\ x.entries[x.found].size >= size

(* An entry looked at.                                                     *)
LEMMA FittedIs ==
  ASSUME NEW f, NEW from, NEW to, NEW size \in Nat,
         NEW g, Tiling(g, from, to), Merges(f, g), NEW a \in DOMAIN g
  PROVE  Scanning(f, from, to, size, Fitted(g, a, size))
<1>1. /\ End(g, a) \in DOMAIN g \cup {to}
  BY TilingIs
<1>2. CASE IsFree(g[a]) /\ g[a].size >= size
  <2>1. Fitted(g, a, size) = [entries |-> g, at |-> a, found |-> a]
    BY <1>2, Zenon DEF Fitted
  <2> QED
    BY <1>2, <2>1 DEF Scanning
<1>3. CASE ~(IsFree(g[a]) /\ g[a].size >= size)
  <2>1. Fitted(g, a, size) = [entries |-> g, at |-> End(g, a), found |-> Nowhere]
    BY <1>3, Zenon DEF Fitted
  <2> QED
    BY <1>1, <2>1 DEF Scanning
<1> QED
  BY <1>2, <1>3

(* A turn of a scan.                                                       *)
LEMMA FitTurnIs ==
  ASSUME NEW f, NEW from, NEW to, NEW size \in Nat, NEW limit,
         \A a \in DOMAIN f : f[a].size \in Nat,
         NEW x, Scanning(f, from, to, size, x)
  PROVE  Scanning(f, from, to, size, FitTurn(x, limit, size))
<1>1. CASE x.found # Nowhere \/ x.at \notin DOMAIN x.entries \/ x.at > limit
  <2>1. FitTurn(x, limit, size) = x
    BY <1>1, Zenon DEF FitTurn
  <2> QED
    BY <2>1
<1>2. CASE ~(x.found # Nowhere \/ x.at \notin DOMAIN x.entries \/ x.at > limit)
  <2> DEFINE g == Joined(x.entries, x.at)
  <2>1. FitTurn(x, limit, size) = Fitted(g, x.at, size)
    BY <1>2, Zenon DEF FitTurn
  <2>2. x.at \in DOMAIN x.entries /\ Tiling(x.entries, from, to) /\ Merges(f, x.entries)
    BY <1>2 DEF Scanning
  <2>3. Tiling(g, from, to) /\ Merges(x.entries, g) /\ x.at \in DOMAIN g
    BY <2>2, JoinedIs, Zenon
  <2> HIDE DEF g
  <2>4. Merges(f, g)
    BY <2>2, <2>3, MergesMerge, Zenon
  <2> QED
    BY <2>1, <2>3, <2>4, FittedIs, Zenon
<1> QED
  BY <1>1, <1>2

(* First fit joins entries and finds one with room, at once if it starts   *)
(* at one.                                                                 *)
LEMMA FirstFitIs ==
  ASSUME NEW f, NEW from, NEW to, Tiling(f, from, to), NEW start \in DOMAIN f \cup {to},
         NEW limit \in Int, NEW size \in Nat
  PROVE  /\ Scanning(f, from, to, size, FirstFit(f, start, limit, size))
         /\ (/\ start \in DOMAIN f /\ start <= limit
             /\ IsFree(f[start]) /\ f[start].size >= size)
              => FirstFit(f, start, limit, size).found # Nowhere
<1> DEFINE N == TOP
           first == [entries |-> f, at |-> start, found |-> Nowhere]
           Turn(i, x) == FitTurn(x, limit, size)
           IsRun(h, n) == h = [i \in 0 .. n |-> IF i = 0 THEN first ELSE Turn(i, h[i - 1])]
           run == CHOOSE h : IsRun(h, N)
           Ran == {n \in Nat : \E h : IsRun(h, n)}
           Fits == /\ start \in DOMAIN f /\ start <= limit
                   /\ IsFree(f[start]) /\ f[start].size >= size
           Fine == {n \in 0 .. N : /\ Scanning(f, from, to, size, run[n])
                                   /\ Fits /\ n > 0 => run[n].found # Nowhere}
<1>0. N \in Nat /\ N \in 0 .. N /\ 0 \in Nat /\ N > 0
  BY ConstantsAre
<1>t. \A a \in DOMAIN f : f[a].size \in Nat /\ a \in Nat
  BY TilingIs
<1>c. Scanning(f, from, to, size, first)
  BY DEF Scanning, Merges
<1>d. first.entries = f /\ first.at = start /\ first.found = Nowhere
  OBVIOUS
<1> HIDE DEF first, N
<1>1. 0 \in Ran
  <2> DEFINE h == [i \in 0 .. 0 |-> first]
  <2>1. \A i \in 0 .. 0 : i = 0
    OBVIOUS
  <2>2. IsRun(h, 0)
    <3> HIDE DEF Turn
    <3> QED
      BY <2>1
  <2> QED
    BY <1>0, <2>2, Zenon
<1>2. ASSUME NEW n \in 1 .. N, n - 1 \in Ran PROVE n \in Ran
  <2>1. PICK h : IsRun(h, n - 1)
    BY <1>2
  <2> DEFINE x == Turn(n, h[n - 1])
             g == Longer(h, n, x)
  <2>2. n \in Nat \ {0} /\ n - 1 \in 0 .. n - 1
    BY <1>0
  <2>3. /\ \A i \in 0 .. n - 1 : g[i] = h[i]
        /\ g[n] = x
        /\ \A i \in 0 .. n : i # 0 => i - 1 \in 0 .. n - 1
        /\ \A i \in 0 .. n : i # n => i \in 0 .. n - 1
    <3> HIDE DEF x
    <3> QED
      BY <2>2, LongerIs
  <2>4. g = [i \in 0 .. n |-> g[i]]
    BY DEF Longer
  <2>5. ASSUME NEW i \in 0 .. n
        PROVE  g[i] = IF i = 0 THEN first ELSE Turn(i, g[i - 1])
    <3> HIDE DEF g, Turn
    <3> QED
      BY <2>1, <2>2, <2>3
  <2>6. IsRun(g, n)
    <3> HIDE DEF g, Turn
    <3> QED
      BY <2>4, <2>5
  <2> HIDE DEF IsRun, g
  <2> QED
    BY <2>2, <2>6
<1>3. IsRun(run, N)
  <2>1. N \in Ran
    <3> HIDE DEF Ran
    <3> QED
      BY <1>0, <1>1, <1>2, AllOf, Zenon
  <2> HIDE DEF IsRun
  <2> QED
    BY <2>1
<1>4. run[0] = first /\ \A i \in 1 .. N : run[i] = Turn(i, run[i - 1])
  <2> HIDE DEF run, Turn
  <2> QED
    BY <1>0, <1>3
<1>5. ASSUME NEW n \in 1 .. N, n - 1 \in Fine PROVE n \in Fine
  <2> DEFINE x == run[n - 1]
  <2>1. run[n] = FitTurn(x, limit, size) /\ n \in 0 .. N
    <3>1. run[n] = Turn(n, run[n - 1])
      <4> HIDE DEF run, Turn
      <4> QED
        BY <1>4
    <3> QED
      BY <1>0, <3>1
  <2>2. Scanning(f, from, to, size, x) /\ (Fits /\ n - 1 > 0 => x.found # Nowhere)
    BY <1>5
  <2>3. n - 1 = 0 => x = first
    <3> HIDE DEF run
    <3> QED
      BY <1>4
  <2> HIDE DEF x, run
  <2>4. Scanning(f, from, to, size, FitTurn(x, limit, size))
    BY <1>t, <2>2, FitTurnIs
  <2>5. x.found # Nowhere => FitTurn(x, limit, size) = x
    BY DEF FitTurn
  <2>6. Fits /\ x = first => FitTurn(x, limit, size).found # Nowhere
    <3> SUFFICES ASSUME Fits, x = first PROVE FitTurn(x, limit, size).found # Nowhere
      OBVIOUS
    <3> DEFINE g == Joined(f, start)
    <3>1. start \in Nat /\ start \in DOMAIN f /\ ~(start > limit)
      BY <1>t
    <3>2. FitTurn(x, limit, size) = Fitted(g, start, size)
      <4> HIDE DEF g
      <4>1. ~(x.found # Nowhere \/ x.at \notin DOMAIN x.entries \/ x.at > limit)
        BY <1>d, <3>1
      <4> QED
        BY <1>d, <4>1, Zenon DEF FitTurn, g
    <3>3. Merges(f, g) /\ start \in DOMAIN g /\ Tiling(g, from, to)
      BY <3>1, JoinedIs, Zenon
    <3> HIDE DEF g
    <3>4. IsFree(g[start]) /\ g[start].size >= size
      <4>1. \/ g[start] = f[start]
            \/ /\ g[start] = FreeEntry(g[start].size)
               /\ g[start].size \in Nat /\ g[start].size >= f[start].size
        BY <3>3, Zenon DEF Merges
      <4>2. IsFree(FreeEntry(g[start].size))
        BY FreeEntryIs
      <4> QED
        BY <1>t, <3>1, <4>1, <4>2
    <3>5. Fitted(g, start, size) = [entries |-> g, at |-> start, found |-> start]
      BY <3>4, Zenon DEF Fitted
    <3> QED
      BY <3>1, <3>2, <3>5 DEF Nowhere
  <2>7. Fits => FitTurn(x, limit, size).found # Nowhere
    <3> HIDE DEF Fits
    <3> QED
      BY <1>0, <2>2, <2>3, <2>5, <2>6
  <2> HIDE DEF Fits
  <2> QED
    BY <2>1, <2>4, <2>7
<1>6. Scanning(f, from, to, size, run[N]) /\ (Fits => run[N].found # Nowhere)
  <2>1. 0 \in Fine
    <3>1. 0 \in 0 .. N
      BY <1>0
    <3> HIDE DEF run, Fits
    <3> QED
      BY <1>4, <1>c, <3>1
  <2>2. N \in Fine
    <3> HIDE DEF Fine
    <3> QED
      BY <1>0, <1>5, <2>1, AllOf, Zenon
  <2> HIDE DEF Fits, run
  <2> QED
    BY <1>0, <2>2
<1>7. FirstFit(f, start, limit, size) = run[N]
  BY DEF FirstFit, N, first
<1> HIDE DEF run
<1> QED
  BY <1>6, <1>7, Zenon

-----------------------------------------------------------------------------
(* The entries from an address on, without those below it.                 *)
LEMMA CutBelowIs ==
  ASSUME NEW f, NEW from, NEW to, Tiling(f, from, to), NEW R, NEW e \in DOMAIN f \cup {to},
         \A x \in DOMAIN f : x \in R <=> x < e
  PROVE  Tiling(Without(f, R), e, to)
<1> DEFINE g == Without(f, R)
<1>1. /\ from \in Nat /\ to \in Nat /\ from <= to
      /\ \A x \in DOMAIN f :
           /\ x \in Nat /\ from <= x /\ x < to
           /\ f[x].size \in Nat /\ f[x].size > 0 /\ End(f, x) = f[x].size + x
           /\ End(f, x) \in Nat /\ x < End(f, x) /\ End(f, x) <= to
           /\ End(f, x) \in DOMAIN f \cup {to}
           /\ \A b \in DOMAIN f : b > x => b >= End(f, x)
  BY TilingIs
<1>2. DOMAIN g = DOMAIN f \ R /\ \A x \in DOMAIN f \ R : g[x] = f[x]
  BY DEF Without
<1> HIDE DEF g
<1>3. e \in Nat /\ e <= to /\ e \in DOMAIN g \cup {to}
  BY <1>1, <1>2
<1>4. ASSUME NEW x \in DOMAIN g
      PROVE  /\ x \in Nat /\ e <= x /\ x < to
             /\ g[x].size \in Nat /\ g[x].size > 0
             /\ g[x].size + x \in DOMAIN g \cup {to}
             /\ \A b \in DOMAIN g : b > x => b >= g[x].size + x
  <2>1. x \in DOMAIN f /\ ~(x < e) /\ g[x] = f[x] /\ f[x].size + x = End(f, x)
    BY <1>1, <1>2
  <2>2. ~(End(f, x) < e) /\ End(f, x) \in DOMAIN f \cup {to}
    BY <1>1, <1>3, <2>1
  <2>3. End(f, x) \in DOMAIN g \cup {to}
    BY <1>2, <2>2
  <2>4. \A b \in DOMAIN g : b > x => b >= End(f, x)
    BY <1>1, <1>2, <2>1
  <2> QED
    BY <1>1, <1>3, <2>1, <2>3, <2>4
<1>5. Tiling(g, e, to)
  BY <1>1, <1>3, <1>4, TilingFrom
<1> QED
  BY <1>5 DEF g

(* The entries below the last one.                                         *)
LEMMA TailCutIs ==
  ASSUME NEW f, NEW from, NEW to, Tiling(f, from, to), NEW a \in DOMAIN f, End(f, a) = to
  PROVE  Tiling(Without(f, {a}), from, a)
<1> DEFINE g == Without(f, {a})
<1>1. /\ from \in Nat /\ to \in Nat /\ from <= to
      /\ from \in DOMAIN f \cup {to}
      /\ \A x \in DOMAIN f :
           /\ x \in Nat /\ from <= x /\ x < to
           /\ f[x].size \in Nat /\ f[x].size > 0 /\ End(f, x) = f[x].size + x
           /\ End(f, x) \in Nat /\ x < End(f, x) /\ End(f, x) <= to
           /\ End(f, x) \in DOMAIN f \cup {to}
           /\ \A b \in DOMAIN f : b > x => b >= End(f, x)
  BY TilingIs
<1>2. DOMAIN g = DOMAIN f \ {a} /\ \A x \in DOMAIN f \ {a} : g[x] = f[x]
  BY DEF Without
<1> HIDE DEF g
<1>3. a \in Nat /\ from <= a /\ from \in DOMAIN g \cup {a}
  BY <1>1, <1>2
<1>4. ASSUME NEW x \in DOMAIN g
      PROVE  /\ x \in Nat /\ from <= x /\ x < a
             /\ g[x].size \in Nat /\ g[x].size > 0
             /\ g[x].size + x \in DOMAIN g \cup {a}
             /\ \A b \in DOMAIN g : b > x => b >= g[x].size + x
  <2>1. x \in DOMAIN f /\ x # a /\ g[x] = f[x] /\ f[x].size + x = End(f, x) /\ x \in Nat
    BY <1>1, <1>2
  <2>2. x < a
    BY <1>1, <2>1
  <2>3. End(f, x) <= a /\ End(f, x) # to
    BY <1>1, <2>1, <2>2
  <2>4. End(f, x) \in DOMAIN g \cup {a}
    BY <1>1, <1>2, <2>1, <2>3
  <2>5. \A b \in DOMAIN g : b > x => b >= End(f, x)
    BY <1>1, <1>2, <2>1
  <2> QED
    BY <1>1, <2>1, <2>2, <2>4, <2>5
<1>5. Tiling(g, from, a)
  BY <1>1, <1>3, <1>4, TilingFrom
<1> QED
  BY <1>5 DEF g

(* A new entry in front.                                                   *)
LEMMA HeadGrownIs ==
  ASSUME NEW f, NEW from, NEW to, Tiling(f, from, to), NEW a \in Nat, a < from,
         NEW e, e.size = from - a
  PROVE  Tiling(With(f, a, e), a, to) /\ a \notin DOMAIN f
<1> DEFINE g == With(f, a, e)
<1>1. /\ from \in Nat /\ to \in Nat /\ from <= to
      /\ from \in DOMAIN f \cup {to}
      /\ \A x \in DOMAIN f :
           /\ x \in Nat /\ from <= x /\ x < to
           /\ f[x].size \in Nat /\ f[x].size > 0 /\ End(f, x) = f[x].size + x
           /\ End(f, x) \in Nat /\ x < End(f, x) /\ End(f, x) <= to
           /\ End(f, x) \in DOMAIN f \cup {to}
           /\ \A b \in DOMAIN f : b > x => b >= End(f, x)
  BY TilingIs
<1>2. /\ DOMAIN g = DOMAIN f \cup {a} /\ g[a] = e
      /\ \A x \in DOMAIN f : x # a => g[x] = f[x]
  BY DEF With
<1> HIDE DEF g
<1>3. a \notin DOMAIN f /\ e.size \in Nat /\ e.size > 0 /\ e.size + a = from
  BY <1>1
<1>4. ASSUME NEW x \in DOMAIN g
      PROVE  /\ x \in Nat /\ a <= x /\ x < to
             /\ g[x].size \in Nat /\ g[x].size > 0
             /\ g[x].size + x \in DOMAIN g \cup {to}
             /\ \A b \in DOMAIN g : b > x => b >= g[x].size + x
  <2>1. CASE x = a
    BY <1>1, <1>2, <1>3, <2>1
  <2>2. CASE x # a
    <3>1. x \in DOMAIN f /\ g[x] = f[x] /\ f[x].size + x = End(f, x) /\ x > a
      BY <1>1, <1>2, <2>2
    <3>2. \A b \in DOMAIN g : b > x => b >= End(f, x)
      BY <1>1, <1>2, <3>1
    <3> QED
      BY <1>1, <1>2, <3>1, <3>2
  <2> QED
    BY <2>1, <2>2
<1>5. a \in DOMAIN g \cup {to} /\ a <= to
  BY <1>1, <1>2
<1>6. Tiling(g, a, to)
  BY <1>1, <1>4, <1>5, TilingFrom
<1> QED
  BY <1>3, <1>6 DEF g

(* Room in front joined to a first entry.                                  *)
LEMMA HeadJoinedIs ==
  ASSUME NEW f, NEW from, NEW to, Tiling(f, from, to), from \in DOMAIN f,
         NEW a \in Nat, a < from, NEW e, e.size = from - a + f[from].size
  PROVE  Tiling(With(Without(f, {from}), a, e), a, to) /\ a \notin DOMAIN f
<1>1. /\ from \in Nat
      /\ \A x \in DOMAIN f :
           /\ x \in Nat /\ from <= x /\ f[x].size \in Nat /\ f[x].size > 0
           /\ End(f, x) = f[x].size + x /\ End(f, x) \in DOMAIN f \cup {to}
           /\ \A b \in DOMAIN f : b > x => b >= End(f, x)
  BY TilingIs
<1>2. \A x \in DOMAIN f : x \in {from} <=> x < End(f, from)
  BY <1>1
<1>3. End(f, from) \in DOMAIN f \cup {to}
  BY <1>1
<1>4. Tiling(Without(f, {from}), End(f, from), to)
  BY <1>2, <1>3, CutBelowIs
<1>5. a < End(f, from) /\ e.size = End(f, from) - a
  BY <1>1
<1>6. Tiling(With(Without(f, {from}), a, e), a, to)
  BY <1>4, <1>5, HeadGrownIs
<1>7. a \notin DOMAIN f
  <2>1. \A x \in DOMAIN f : x \in Nat /\ from <= x
    BY <1>1
  <2>2. \A x \in DOMAIN f : x # a
    BY <1>1, <2>1
  <2> QED
    BY <2>2
<1> QED
  BY <1>6, <1>7, Zenon

(* The free entries in front cut off: none is left there.                  *)
LEMMA RunOffIs ==
  ASSUME NEW f, NEW from, NEW to, Tiling(f, from, to), Run(f, from) # {}
  PROVE  /\ Max(Run(f, from)) \in DOMAIN f /\ Run(f, from) \subseteq DOMAIN f
         /\ End(f, Max(Run(f, from))) \in Nat
         /\ End(f, Max(Run(f, from))) > from /\ End(f, Max(Run(f, from))) <= to
         /\ Tiling(Without(f, Run(f, from)), End(f, Max(Run(f, from))), to)
         /\ Run(Without(f, Run(f, from)), End(f, Max(Run(f, from)))) = {}
         /\ \A x \in Run(f, from) : IsFree(f[x])
<1> DEFINE R == Run(f, from)
           M == Max(R)
           e == End(f, M)
           g == Without(f, R)
<1>1. /\ from \in Nat /\ to \in Nat /\ from \in DOMAIN f \cup {to}
      /\ \A x \in DOMAIN f :
           /\ x \in Nat /\ from <= x /\ x < to
           /\ End(f, x) \in Nat /\ x < End(f, x) /\ End(f, x) <= to
           /\ End(f, x) \in DOMAIN f \cup {to}
  BY TilingIs
<1>2. from \in DOMAIN f /\ IsFree(f[from])
  <2>1. PICK b \in DOMAIN f : b >= from /\ \A c \in DOMAIN f \cap (from .. b) : IsFree(f[c])
    BY DEF Run
  <2>2. from \in DOMAIN f /\ from \in from .. b
    BY <1>1, <2>1
  <2> QED
    BY <2>1, <2>2
<1>3. /\ from \in R /\ M \in R /\ M \in DOMAIN f
      /\ R \subseteq DOMAIN f
      /\ \A x \in DOMAIN f : IF x \in R THEN from <= x /\ IsFree(f[x]) /\ x < e
                             ELSE x < from \/ x >= e
      /\ e \in Nat
      /\ e \in DOMAIN f => ~IsFree(f[e])
      /\ e >= End(f, from)
  BY <1>2, RunIs, Zenon
<1>4. e \in DOMAIN f \cup {to} /\ e <= to /\ e > from
  <2> HIDE DEF M, R
  <2>1. e \in DOMAIN f \cup {to} /\ e <= to
    BY <1>1, <1>3
  <2> HIDE DEF e
  <2> QED
    BY <1>1, <1>2, <1>3, <2>1
<1> HIDE DEF M, R, e
<1>5. \A x \in DOMAIN f : x \in R <=> x < e
  BY <1>1, <1>3
<1>6. Tiling(g, e, to)
  BY <1>4, <1>5, CutBelowIs
<1>7. Run(g, e) = {}
  <2>1. DOMAIN g = DOMAIN f \ R /\ \A x \in DOMAIN f \ R : g[x] = f[x]
    BY DEF Without
  <2>2. \A x \in DOMAIN g : x \in Nat /\ x < to
    BY <1>1, <2>1
  <2>3. e \in DOMAIN g \cup {to}
    BY <1>6, TilingIs
  <2> HIDE DEF g
  <2> SUFFICES ASSUME NEW b \in DOMAIN g, b >= e,
                      \A c \in DOMAIN g \cap (e .. b) : IsFree(g[c])
               PROVE  FALSE
    BY DEF Run
  <2>4. e \in DOMAIN g /\ e \in e .. b
    BY <1>1, <1>3, <2>2, <2>3
  <2>5. g[e] = f[e] /\ e \in DOMAIN f
    BY <2>1, <2>4
  <2> QED
    BY <1>3, <2>4, <2>5
<1>8. \A x \in R : IsFree(f[x])
  BY <1>3
<1> QED
  BY <1>3, <1>4, <1>6, <1>7, <1>8 DEF e, M, R, g

-----------------------------------------------------------------------------
(* The words of a set of entries are counted.                              *)
LEMMA WordsAre ==
  ASSUME NEW f, NEW from, NEW to, Tiling(f, from, to), NEW S \in SUBSET DOMAIN f
  PROVE  /\ Words(f, S) \subseteq from .. to - 1
         /\ IsFiniteSet(Words(f, S)) /\ Cardinality(Words(f, S)) \in Nat
         /\ Cardinality(Words(f, S)) <= to - from
         /\ \A R \in SUBSET S : Cardinality(Words(f, R)) <= Cardinality(Words(f, S))
<1>1. /\ from \in Nat /\ to \in Nat /\ from <= to
      /\ \A x \in DOMAIN f :
           x \in Nat /\ from <= x /\ End(f, x) \in Nat /\ End(f, x) <= to
  BY TilingIs
<1>2. Words(f, S) \subseteq from .. to - 1
  <2> SUFFICES ASSUME NEW a \in S, NEW w \in a .. End(f, a) - 1 PROVE w \in from .. to - 1
    BY DEF Words
  <2> QED
    BY <1>1
<1>3. IsFiniteSet(from .. to - 1) /\ Cardinality(from .. to - 1) = to - from
  <2>1. from \in Int /\ to - 1 \in Int
    BY <1>1
  <2>2. /\ IsFiniteSet(from .. to - 1)
        /\ Cardinality(from .. to - 1) = IF from > to - 1 THEN 0 ELSE (to - 1) - from + 1
    BY <2>1, FS_Interval, Zenon
  <2> QED
    BY <1>1, <2>2
<1>4. IsFiniteSet(Words(f, S)) /\ Cardinality(Words(f, S)) <= to - from
  <2>1. IsFiniteSet(Words(f, S)) /\ Cardinality(Words(f, S)) <= Cardinality(from .. to - 1)
    BY <1>2, <1>3, FS_Subset, Zenon
  <2> QED
    BY <1>3, <2>1
<1>5. ASSUME NEW R \in SUBSET S PROVE Cardinality(Words(f, R)) <= Cardinality(Words(f, S))
  <2>1. Words(f, R) \subseteq Words(f, S)
    BY DEF Words
  <2> QED
    BY <1>4, <2>1, FS_Subset, Zenon
<1>6. Cardinality(Words(f, S)) \in Nat
  BY <1>4, FS_CardinalityType, Zenon
<1> QED
  BY <1>2, <1>4, <1>5, <1>6

(* One more entry takes as many more words as its size.                    *)
LEMMA WordsWith ==
  ASSUME NEW f, NEW from, NEW to, Tiling(f, from, to), NEW S \in SUBSET DOMAIN f,
         NEW a \in DOMAIN f, a \notin S
  PROVE  Cardinality(Words(f, S \cup {a})) = Cardinality(Words(f, S)) + f[a].size
<1> DEFINE A == a .. End(f, a) - 1
           W == Words(f, S)
<1>1. \A x \in DOMAIN f :
        /\ x \in Nat /\ f[x].size \in Nat /\ f[x].size > 0 /\ End(f, x) = f[x].size + x
        /\ End(f, x) \in Nat /\ x < End(f, x)
        /\ \A b \in DOMAIN f : b > x => b >= End(f, x)
  BY TilingIs
<1>2. Words(f, S \cup {a}) = W \cup A
  BY DEF Words
<1>3. W \cap A = {}
  <2> SUFFICES ASSUME NEW b \in S, NEW w \in b .. End(f, b) - 1, w \in A PROVE FALSE
    BY DEF Words
  <2>1. b \in DOMAIN f /\ b # a /\ b \in Nat /\ a \in Nat
    BY <1>1
  <2>2. b < a => End(f, b) <= a
    BY <1>1, <2>1
  <2>3. a < b => End(f, a) <= b
    BY <1>1, <2>1
  <2>4. w \in Int /\ b <= w /\ w < End(f, b) /\ a <= w /\ w < End(f, a)
    BY <1>1, <2>1
  <2>5. End(f, a) \in Nat /\ End(f, b) \in Nat
    BY <1>1, <2>1
  <2> QED
    BY <2>1, <2>2, <2>3, <2>4, <2>5
<1>4. IsFiniteSet(A) /\ Cardinality(A) = f[a].size
  <2>1. a \in Int /\ End(f, a) - 1 \in Int
    BY <1>1
  <2>2. /\ IsFiniteSet(A)
        /\ Cardinality(A) = IF a > End(f, a) - 1 THEN 0 ELSE (End(f, a) - 1) - a + 1
    BY <2>1, FS_Interval, Zenon
  <2> QED
    BY <1>1, <2>2
<1>5. IsFiniteSet(W) /\ Cardinality(W) \in Nat
  BY WordsAre, Zenon
<1>6. Cardinality(W \cup A) = Cardinality(W) + Cardinality(A) - Cardinality(W \cap A)
  BY <1>4, <1>5, FS_Union, Zenon
<1>7. Cardinality(W \cap A) = 0
  BY <1>3, FS_EmptySet
<1> DEFINE k == Cardinality(W)
           n == f[a].size
<1>8. n \in Nat /\ k \in Nat
  BY <1>1, <1>5
<1>9. Cardinality(W \cup A) = k + n - 0
  BY <1>4, <1>6, <1>7, Zenon
<1>10. k + n - 0 = k + n
  <2> HIDE DEF k, n
  <2> QED
    BY <1>8
<1> QED
  BY <1>2, <1>9, <1>10, Zenon

(* The words of all entries are those of the region.                       *)
LEMMA AllWords ==
  ASSUME NEW f, NEW from, NEW to, Tiling(f, from, to)
  PROVE  Cardinality(Words(f, DOMAIN f)) = to - from
<1>1. /\ from \in Nat /\ to \in Nat /\ from <= to /\ from \in DOMAIN f \cup {to}
      /\ \A x \in DOMAIN f :
           /\ x \in Nat /\ from <= x /\ x < to /\ End(f, x) \in Nat /\ x < End(f, x)
           /\ End(f, x) \in DOMAIN f \cup {to}
  BY TilingIs
<1>2. Words(f, DOMAIN f) \subseteq from .. to - 1
  BY WordsAre
<1>3. ASSUME NEW w \in from .. to - 1 PROVE w \in Words(f, DOMAIN f)
  <2> DEFINE B == {x \in DOMAIN f : x <= w}
  <2>1. from \in B /\ B \in SUBSET (0 .. to)
    BY <1>1
  <2>2. Max(B) \in B /\ \A y \in B : y <= Max(B)
    <3> HIDE DEF B
    <3> QED
      BY <1>1, <2>1, MaxIs
  <2>3. PICK x \in B : \A y \in B : y <= x
    <3> HIDE DEF B
    <3> QED
      BY <2>2
  <2>4. x \in DOMAIN f /\ x <= w
    OBVIOUS
  <2>5. ~(End(f, x) <= w)
    <3> SUFFICES ASSUME End(f, x) <= w PROVE FALSE
      OBVIOUS
    <3>1. End(f, x) \in DOMAIN f
      BY <1>1, <2>4
    <3>2. End(f, x) \in B
      BY <3>1
    <3>3. End(f, x) <= x
      <4> HIDE DEF B
      <4> QED
        BY <2>3, <3>2
    <3> QED
      BY <1>1, <2>4, <3>3
  <2>6. w \in x .. End(f, x) - 1
    BY <1>1, <2>4, <2>5
  <2> QED
    BY <2>4, <2>6 DEF Words
<1>4. Words(f, DOMAIN f) = from .. to - 1
  BY <1>2, <1>3
<1>5. Cardinality(from .. to - 1) = IF from > to - 1 THEN 0 ELSE (to - 1) - from + 1
  <2>1. from \in Int /\ to - 1 \in Int
    BY <1>1
  <2> QED
    BY <2>1, FS_Interval, Zenon
<1> QED
  BY <1>1, <1>4, <1>5

-----------------------------------------------------------------------------
(* Entries at other addresses.                                             *)
LEMMA PlacedIs ==
  ASSUME NEW f, NEW at, \A a, b \in DOMAIN at : at[a] = at[b] => a = b
  PROVE  /\ DOMAIN Placed(f, at) = {at[a] : a \in DOMAIN at}
         /\ \A a \in DOMAIN at : Placed(f, at)[at[a]] = f[a]
<1>1. DOMAIN Placed(f, at) = {at[a] : a \in DOMAIN at}
  BY DEF Placed
<1>2. ASSUME NEW a \in DOMAIN at PROVE Placed(f, at)[at[a]] = f[a]
  <2> DEFINE b == CHOOSE b \in DOMAIN at : at[b] = at[a]
  <2>1. b \in DOMAIN at /\ at[b] = at[a]
    OBVIOUS
  <2>2. b = a
    <3> HIDE DEF b
    <3> QED
      BY <2>1
  <2>3. Placed(f, at)[at[a]] = f[b]
    BY DEF Placed
  <2> QED
    BY <2>2, <2>3, Zenon
<1> QED
  BY <1>1, <1>2

(* `at` puts the entries of f one after another from lo to hi.             *)
InARow(f, at, lo, hi) ==
  /\ lo \in Nat /\ hi \in Nat /\ lo <= hi
  /\ lo \in {at[a] : a \in DOMAIN at} \cup {hi}
  /\ \A a \in DOMAIN at :
       /\ a \in Nat /\ f[a].size \in Nat /\ f[a].size > 0
       /\ at[a] \in Nat /\ lo <= at[a] /\ at[a] < hi
       /\ at[a] + f[a].size \in {at[b] : b \in DOMAIN at} \cup {hi}
       /\ \A b \in DOMAIN at : a < b => at[a] + f[a].size <= at[b]

(* They are a tiling there.                                                *)
LEMMA PlacedInARow ==
  ASSUME NEW f, NEW at, NEW lo, NEW hi, InARow(f, at, lo, hi)
  PROVE  /\ Tiling(Placed(f, at), lo, hi)
         /\ DOMAIN Placed(f, at) = {at[a] : a \in DOMAIN at}
         /\ \A a \in DOMAIN at : Placed(f, at)[at[a]] = f[a]
         /\ \A a, b \in DOMAIN at : at[a] = at[b] => a = b
<1> DEFINE g == Placed(f, at)
<1>1. /\ lo \in Nat /\ hi \in Nat /\ lo <= hi
      /\ lo \in {at[a] : a \in DOMAIN at} \cup {hi}
      /\ \A a \in DOMAIN at :
           /\ a \in Nat /\ f[a].size \in Nat /\ f[a].size > 0
           /\ at[a] \in Nat /\ lo <= at[a] /\ at[a] < hi
           /\ at[a] + f[a].size \in {at[b] : b \in DOMAIN at} \cup {hi}
           /\ \A b \in DOMAIN at : a < b => at[a] + f[a].size <= at[b]
  BY DEF InARow
<1>2. \A a, b \in DOMAIN at : a < b => at[a] < at[b]
  BY <1>1
<1>3. ASSUME NEW a \in DOMAIN at, NEW b \in DOMAIN at, at[a] = at[b] PROVE a = b
  <2>1. ~(a < b) /\ ~(b < a)
    BY <1>1, <1>2, <1>3
  <2> QED
    BY <1>1, <2>1
<1>4. /\ DOMAIN g = {at[a] : a \in DOMAIN at}
      /\ \A a \in DOMAIN at : g[at[a]] = f[a]
  BY <1>3, PlacedIs
<1> HIDE DEF g
<1>5. ASSUME NEW x \in DOMAIN g
      PROVE  /\ x \in Nat /\ lo <= x /\ x < hi
             /\ g[x].size \in Nat /\ g[x].size > 0
             /\ g[x].size + x \in DOMAIN g \cup {hi}
             /\ \A y \in DOMAIN g : y > x => y >= g[x].size + x
  <2>1. PICK a \in DOMAIN at : x = at[a]
    BY <1>4
  <2>2. g[x] = f[a]
    BY <1>4, <2>1
  <2>3. /\ x \in Nat /\ lo <= x /\ x < hi /\ f[a].size \in Nat /\ f[a].size > 0
        /\ x + f[a].size \in DOMAIN g \cup {hi}
    BY <1>1, <1>4, <2>1
  <2>4. ASSUME NEW y \in DOMAIN g, y > x PROVE y >= f[a].size + x
    <3>1. PICK b \in DOMAIN at : y = at[b]
      BY <1>4
    <3>2. a < b
      <4>1. ~(b < a) /\ a # b
        BY <1>1, <1>2, <2>1, <2>4, <3>1
      <4> QED
        BY <1>1, <4>1
    <3> QED
      BY <1>1, <2>1, <3>1, <3>2
  <2>5. x + f[a].size = f[a].size + x
    BY <2>3
  <2> QED
    BY <2>2, <2>3, <2>4, <2>5
<1>6. lo \in DOMAIN g \cup {hi}
  BY <1>1, <1>4
<1>7. Tiling(g, lo, hi)
  BY <1>1, <1>5, <1>6, TilingFrom
<1> QED
  BY <1>3, <1>4, <1>7 DEF g

(* The next entry of a set, if there is one.                               *)
LEMMA NextOf ==
  ASSUME NEW S \in SUBSET Nat, NEW a \in S
  PROVE  \/ \A c \in S : c <= a
         \/ \E b \in S : a < b /\ \A c \in S : c > a => c >= b
<1> DEFINE R == {b \in S : a < b}
<1>1. CASE R = {}
  <2>1. \A c \in S : ~(a < c) /\ c \in Nat /\ a \in Nat
    BY <1>1
  <2> QED
    BY <2>1
<1>2. CASE R # {}
  <2>1. PICK b \in R : \A c \in R : b <= c
    <3>1. R \in SUBSET Nat
      OBVIOUS
    <3> HIDE DEF R
    <3> QED
      BY <1>2, <3>1, LeastOf
  <2>2. b \in S /\ a < b /\ \A c \in S : c > a => c \in R /\ b <= c
    BY <2>1
  <2>3. \A c \in S : c \in Nat /\ b \in Nat
    BY <2>2
  <2> QED
    BY <2>2, <2>3
<1> QED
  BY <1>1, <1>2

(* Packing puts the entries in use one after another from 0 on.            *)
LEMMA DownsAre ==
  ASSUME NEW f, NEW to, Tiling(f, 0, to)
  PROVE  /\ DOMAIN Downs(f) = Used(f)
         /\ InARow(f, Downs(f), 0, Cardinality(Words(f, Used(f))))
         /\ Cardinality(Words(f, Used(f))) <= to
<1> DEFINE U == Used(f)
           B(a) == {b \in U : b < a}
           C(S) == Cardinality(Words(f, S))
           T == C(U)
           at == Downs(f)
<1>1. /\ to \in Nat
      /\ \A x \in DOMAIN f : x \in Nat /\ f[x].size \in Nat /\ f[x].size > 0
  BY TilingIs
<1>2. U \subseteq DOMAIN f /\ U \in SUBSET Nat
  BY <1>1 DEF Used
<1>3. DOMAIN at = U /\ \A a \in U : at[a] = C(B(a))
  BY DEF Downs
<1>4. \A S \in SUBSET U : C(S) \in Nat /\ C(S) <= to - 0 /\ \A R \in SUBSET S : C(R) <= C(S)
  <2> HIDE DEF U
  <2> QED
    BY <1>2, WordsAre
<1>5. ASSUME NEW S \in SUBSET U, NEW a \in U, a \notin S
      PROVE  C(S \cup {a}) = C(S) + f[a].size
  <2> HIDE DEF U
  <2> QED
    BY <1>2, <1>5, WordsWith, Zenon
<1>6. \A a \in U : B(a) \in SUBSET U /\ a \notin B(a)
  BY <1>2
<1> HIDE DEF U, C, at
<1>7. ASSUME NEW a \in U
      PROVE  /\ at[a] \in Nat /\ 0 <= at[a] /\ at[a] < T
             /\ at[a] + f[a].size = C(B(a) \cup {a})
             /\ at[a] + f[a].size <= T
             /\ f[a].size \in Nat /\ f[a].size > 0
  <2>1. at[a] \in Nat /\ at[a] = C(B(a)) /\ C(B(a) \cup {a}) = C(B(a)) + f[a].size
    BY <1>3, <1>4, <1>5, <1>6
  <2>2. B(a) \cup {a} \in SUBSET U /\ U \in SUBSET U
    BY <1>6
  <2>3. C(B(a) \cup {a}) <= T /\ T \in Nat
    BY <1>4, <2>2
  <2>4. f[a].size \in Nat /\ f[a].size > 0
    BY <1>1, <1>2
  <2> HIDE DEF T, B
  <2> QED
    BY <2>1, <2>3, <2>4
<1>8. ASSUME NEW a \in U, NEW b \in U, a < b PROVE at[a] + f[a].size <= at[b]
  <2>1. B(a) \cup {a} \in SUBSET B(b)
    BY <1>2, <1>8
  <2>2. C(B(a) \cup {a}) <= C(B(b))
    BY <1>4, <1>6, <2>1
  <2> HIDE DEF B
  <2> QED
    BY <1>3, <1>7, <2>2
<1>9. ASSUME NEW a \in U
      PROVE  at[a] + f[a].size \in {at[b] : b \in DOMAIN at} \cup {T}
  <2>1. CASE \A c \in U : c <= a
    <3>1. B(a) \cup {a} = U
      BY <1>2, <2>1
    <3> QED
      BY <1>7, <3>1
  <2>2. CASE \E b \in U : a < b /\ \A c \in U : c > a => c >= b
    <3>1. PICK b \in U : a < b /\ \A c \in U : c > a => c >= b
      BY <2>2
    <3>2. B(a) \cup {a} = B(b)
      BY <1>2, <3>1
    <3>3. at[a] + f[a].size = at[b]
      <4> HIDE DEF B
      <4> QED
        BY <1>3, <1>7, <3>2
    <3> QED
      BY <1>3, <3>3
  <2> QED
    BY <1>2, <2>1, <2>2, NextOf
<1>10. 0 \in {at[b] : b \in DOMAIN at} \cup {T}
  <2>0. C({}) = 0
    <3>1. Words(f, {}) = {}
      BY DEF Words
    <3> QED
      BY <3>1, FS_EmptySet, Zenon DEF C
  <2>1. CASE U = {}
    BY <2>0, <2>1
  <2>2. CASE U # {}
    <3>1. PICK a \in U : \A b \in U : a <= b
      BY <1>2, <2>2, LeastOf
    <3>2. B(a) = {}
      BY <1>2, <3>1
    <3>3. at[a] = 0
      <4> HIDE DEF B
      <4> QED
        BY <1>3, <2>0, <3>2
    <3> QED
      BY <1>3, <3>3
  <2> QED
    BY <2>1, <2>2
<1>11. T \in Nat /\ T <= to
  <2>1. U \in SUBSET U
    OBVIOUS
  <2>2. T \in Nat /\ T <= to - 0
    BY <1>4, <2>1
  <2> HIDE DEF T
  <2> QED
    BY <1>1, <2>2
<1> HIDE DEF T
<1>12. InARow(f, at, 0, T)
  <2>1. 0 \in Nat /\ T \in Nat /\ 0 <= T
    BY <1>11
  <2>2. \A a \in DOMAIN at :
          /\ a \in Nat /\ f[a].size \in Nat /\ f[a].size > 0
          /\ at[a] \in Nat /\ 0 <= at[a] /\ at[a] < T
    BY <1>2, <1>3, <1>7
  <2>3. \A a \in DOMAIN at : \A b \in DOMAIN at : a < b => at[a] + f[a].size <= at[b]
    BY <1>3, <1>8
  <2>4. \A a \in DOMAIN at : at[a] + f[a].size \in {at[b] : b \in DOMAIN at} \cup {T}
    BY <1>3, <1>9
  <2> QED
    BY <1>10, <2>1, <2>2, <2>3, <2>4, Zenon DEF InARow
<1> QED
  BY <1>3, <1>11, <1>12 DEF at, T, C, U

(* Compacting the heap puts its entries one after another up to TOP.       *)
LEMMA UpsAre ==
  ASSUME NEW f, NEW from, Tiling(f, from, TOP)
  PROVE  /\ DOMAIN Ups(f) = Used(f)
         /\ InARow(f, Ups(f), TOP - Cardinality(Words(f, Used(f))), TOP)
         /\ TOP - Cardinality(Words(f, Used(f))) >= from
<1> DEFINE U == Used(f)
           A(a) == {b \in U : b >= a}
           C(S) == Cardinality(Words(f, S))
           T == C(U)
           lo == TOP - T
           at == Ups(f)
<1>1. /\ from \in Nat /\ TOP \in Nat /\ from <= TOP
      /\ \A x \in DOMAIN f : x \in Nat /\ f[x].size \in Nat /\ f[x].size > 0
  BY TilingIs
<1>2. U \subseteq DOMAIN f /\ U \in SUBSET Nat
  BY <1>1 DEF Used
<1>3. DOMAIN at = U /\ \A a \in U : at[a] = TOP - C(A(a))
  BY DEF Ups
<1>4. \A S \in SUBSET U : C(S) \in Nat /\ C(S) <= TOP - from /\ \A R \in SUBSET S : C(R) <= C(S)
  <2> HIDE DEF U
  <2> QED
    BY <1>2, WordsAre
<1>5. ASSUME NEW S \in SUBSET U, NEW a \in U, a \notin S
      PROVE  C(S \cup {a}) = C(S) + f[a].size
  <2> HIDE DEF U
  <2> QED
    BY <1>2, <1>5, WordsWith, Zenon
<1>6. \A a \in U : A(a) \in SUBSET U /\ A(a) \ {a} \in SUBSET U
  BY <1>2
<1>7. ASSUME NEW a \in U PROVE C(A(a)) = C(A(a) \ {a}) + f[a].size
  <2>1. A(a) = (A(a) \ {a}) \cup {a} /\ A(a) \ {a} \in SUBSET U /\ a \notin A(a) \ {a}
    BY <1>2, <1>6
  <2>2. C((A(a) \ {a}) \cup {a}) = C(A(a) \ {a}) + f[a].size
    <3> HIDE DEF A, C, U
    <3> QED
      BY <1>5, <2>1
  <2> HIDE DEF A, C
  <2> QED
    BY <2>1, <2>2
<1>11. T \in Nat /\ T <= TOP - from
  <2>1. U \in SUBSET U
    OBVIOUS
  <2> QED
    BY <1>4, <2>1
<1> HIDE DEF U, C, at
<1>8. ASSUME NEW a \in U
      PROVE  /\ at[a] \in Nat /\ lo <= at[a] /\ at[a] < TOP
             /\ at[a] + f[a].size = TOP - C(A(a) \ {a})
             /\ f[a].size \in Nat /\ f[a].size > 0
  <2>1. A(a) \in SUBSET U /\ A(a) \ {a} \in SUBSET U /\ U \in SUBSET U
    BY <1>6
  <2>2. C(A(a)) \in Nat /\ C(A(a) \ {a}) \in Nat /\ C(A(a)) <= T /\ C(A(a)) <= TOP - from
    BY <1>4, <2>1
  <2>4. f[a].size \in Nat /\ f[a].size > 0
    BY <1>1, <1>2
  <2>5. at[a] = TOP - C(A(a)) /\ C(A(a)) = C(A(a) \ {a}) + f[a].size
    BY <1>3, <1>7
  <2> DEFINE k == C(A(a))
             l == C(A(a) \ {a})
             n == f[a].size
  <2>6. /\ k \in Nat /\ l \in Nat /\ k <= T /\ k <= TOP - from
        /\ n \in Nat /\ n > 0 /\ at[a] = TOP - k /\ k = l + n
    BY <2>2, <2>4, <2>5, Zenon
  <2> HIDE DEF T, k, l, n
  <2>7. /\ at[a] \in Nat /\ TOP - T <= at[a] /\ at[a] < TOP
        /\ at[a] + n = TOP - l
    BY <1>1, <1>11, <2>6
  <2> QED
    BY <2>6, <2>7 DEF n, l
<1>9. ASSUME NEW a \in U, NEW b \in U, a < b PROVE at[a] + f[a].size <= at[b]
  <2>1. A(b) \in SUBSET (A(a) \ {a})
    BY <1>2, <1>9
  <2>2. C(A(b)) <= C(A(a) \ {a})
    BY <1>4, <1>6, <2>1
  <2>3. C(A(b)) \in Nat /\ C(A(a) \ {a}) \in Nat
    BY <1>4, <1>6
  <2>4. at[b] = TOP - C(A(b)) /\ at[a] + f[a].size = TOP - C(A(a) \ {a})
    BY <1>3, <1>8
  <2> HIDE DEF A
  <2> QED
    BY <1>1, <2>2, <2>3, <2>4
<1>0. C({}) = 0
  <2>1. Words(f, {}) = {}
    BY DEF Words
  <2> QED
    BY <2>1, FS_EmptySet, Zenon DEF C
<1>12. ASSUME NEW a \in U
       PROVE  at[a] + f[a].size \in {at[b] : b \in DOMAIN at} \cup {TOP}
  <2>1. CASE \A c \in U : c <= a
    <3>1. A(a) \ {a} = {}
      BY <1>2, <2>1
    <3>2. at[a] + f[a].size = TOP - 0
      <4> HIDE DEF A
      <4> QED
        BY <1>0, <1>8, <3>1
    <3> QED
      BY <1>1, <3>2
  <2>2. CASE \E b \in U : a < b /\ \A c \in U : c > a => c >= b
    <3>1. PICK b \in U : a < b /\ \A c \in U : c > a => c >= b
      BY <2>2
    <3>2. A(a) \ {a} = A(b)
      BY <1>2, <3>1
    <3>3. at[a] + f[a].size = at[b]
      <4> HIDE DEF A
      <4> QED
        BY <1>3, <1>8, <3>2
    <3> QED
      BY <1>3, <3>3
  <2> QED
    BY <1>2, <2>1, <2>2, NextOf
<1>10. lo \in {at[b] : b \in DOMAIN at} \cup {TOP}
  <2>1. CASE U = {}
    <3>1. T = 0
      BY <1>0, <2>1
    <3> HIDE DEF T
    <3> QED
      BY <1>1, <3>1
  <2>2. CASE U # {}
    <3>1. PICK a \in U : \A b \in U : a <= b
      BY <1>2, <2>2, LeastOf
    <3>2. A(a) = U
      BY <1>2, <3>1
    <3>3. at[a] = lo
      <4> HIDE DEF A
      <4> QED
        BY <1>3, <3>2
    <3> QED
      BY <1>3, <3>3
  <2> QED
    BY <2>1, <2>2
<1>13. lo \in Nat /\ lo <= TOP /\ lo >= from
  <2> HIDE DEF T
  <2> QED
    BY <1>1, <1>11
<1> HIDE DEF lo
<1>14. InARow(f, at, lo, TOP)
  BY <1>1, <1>2, <1>3, <1>8, <1>9, <1>10, <1>12, <1>13 DEF InARow
<1> QED
  BY <1>3, <1>13, <1>14 DEF at, lo, T, C, U

-----------------------------------------------------------------------------
(* The memory between two steps of the run time.                           *)

SpaceEntries == [holds : Statics \cup Int \cup {None}, size : Nat, data : Strings]
HeapEntries == [holds : {None, "ARRAY", "FILE"}, size : Nat, data : {<<>>}]
Descriptors == [len : 0 .. MaxLength, ptr : Int]

(* The addresses that are descriptors of arrays.                           *)
ArrayWords(m) == UNION {Data(m, a) : a \in Holding(m, "ARRAY")}

Fields == {"space", "hint", "low", "heap", "sd", "live", "ad"}
IsMemory(m) == m = [x \in Fields |-> m[x]]

Regions(m) ==
  /\ Tiling(m.space, 0, m.low) /\ Tiling(m.heap, m.low, TOP)
  /\ \A e \in DOMAIN m.space : m.space[e] \in SpaceEntries
  /\ \A e \in DOMAIN m.heap : m.heap[e] \in HeapEntries /\ m.heap[e].size >= Smallest
  /\ m.hint \in DOMAIN m.space \cup {m.low}

Described(m) == m.sd \in [Statics \cup ArrayWords(m) -> Descriptors]

(* Each descriptor with a string has its entry.                            *)
Owns(m, a) ==
  LET e == EntryOf(m.sd[a])
  IN  /\ e \in DOMAIN m.space /\ m.space[e].holds = a
      /\ m.space[e].size = m.sd[a].len + 1
      /\ Len(m.space[e].data) = m.sd[a].len

(* Each entry in use has its descriptor; those of X are between two        *)
(* strings and have none.                                                  *)
Owning(m, X) ==
  /\ \A a \in DOMAIN m.sd \ X : m.sd[a].len > 0 => Owns(m, a)
  /\ \A e \in Used(m.space) :
       /\ m.space[e].holds \in DOMAIN m.sd \ X
       /\ m.sd[m.space[e].holds].len > 0
       /\ EntryOf(m.sd[m.space[e].holds]) = e

Good(m, X) == IsMemory(m) /\ Regions(m) /\ Described(m) /\ Owning(m, X)

(* The entries in use are the same.                                        *)
SameUsed(f, g) == Used(g) = Used(f) /\ \A e \in Used(f) : g[e] = f[e]

(* From m to n every string is kept, but for those of X.                   *)
Kept(m, n, X) ==
  /\ n.live = m.live /\ n.ad = m.ad
  /\ SameUsed(m.heap, n.heap)
  /\ DOMAIN n.sd = DOMAIN m.sd
  /\ \A a \in DOMAIN m.sd \ X : n.sd[a].len = m.sd[a].len /\ Read(n, a) = Read(m, a)

(* What is kept and kept again is kept.                                    *)
LEMMA KeptOn ==
  ASSUME NEW X, NEW m, NEW n, NEW o, Kept(m, n, X), Kept(n, o, X)
  PROVE  Kept(m, o, X)
<1>1. SameUsed(m.heap, o.heap)
  BY DEF Kept, SameUsed
<1>2. \A a \in DOMAIN m.sd \ X : o.sd[a].len = m.sd[a].len /\ Read(o, a) = Read(m, a)
  BY DEF Kept
<1> QED
  BY <1>1, <1>2 DEF Kept

(* What nothing happens to is kept.                                        *)
LEMMA KeptSame ==
  ASSUME NEW X, NEW m
  PROVE  Kept(m, m, X)
BY DEF Kept, SameUsed

(* Joining free entries leaves those in use.                               *)
LEMMA MergesSame ==
  ASSUME NEW f, NEW g, Merges(f, g)
  PROVE  SameUsed(f, g)
<1>1. ASSUME NEW x \in Used(f) PROVE x \in Used(g) /\ g[x] = f[x]
  <2>1. x \in DOMAIN f /\ ~IsFree(f[x])
    BY DEF Used
  <2>2. x \in DOMAIN g /\ g[x] = f[x]
    BY <2>1 DEF Merges
  <2> QED
    BY <2>1, <2>2 DEF Used
<1>2. ASSUME NEW x \in Used(g) PROVE x \in Used(f)
  <2>1. x \in DOMAIN g /\ ~IsFree(g[x])
    BY DEF Used
  <2>2. g[x] # FreeEntry(g[x].size)
    BY <2>1, FreeEntryIs
  <2>3. x \in DOMAIN f /\ g[x] = f[x]
    BY <2>1, <2>2 DEF Merges
  <2> QED
    BY <2>1, <2>3 DEF Used
<1> QED
  BY <1>1, <1>2 DEF SameUsed

(* The same, and the same again.                                           *)
LEMMA SameUsedOn ==
  ASSUME NEW f, NEW g, NEW h, SameUsed(f, g), SameUsed(g, h)
  PROVE  SameUsed(f, h)
BY DEF SameUsed

(* Free entries are entries of either region.                              *)
LEMMA FreeEntries ==
  ASSUME NEW n \in Nat
  PROVE  FreeEntry(n) \in SpaceEntries /\ FreeEntry(n) \in HeapEntries
<1>1. <<>> \in Strings
  <2>1. <<>> \in [1 .. 0 -> Characters] /\ 0 \in 0 .. MaxLength
    BY ConstantsAre
  <2> QED
    BY <2>1 DEF Strings
<1> QED
  BY <1>1 DEF FreeEntry, SpaceEntries, HeapEntries

(* The arrays are where they were if the heap's entries in use are.        *)
LEMMA SameArrays ==
  ASSUME NEW m, NEW n, SameUsed(m.heap, n.heap)
  PROVE  /\ Holding(n, "ARRAY") = Holding(m, "ARRAY")
         /\ Holding(n, "FILE") = Holding(m, "FILE")
         /\ \A a \in Holding(m, "ARRAY") : Data(n, a) = Data(m, a)
         /\ ArrayWords(n) = ArrayWords(m)
<1>0. None # "ARRAY" /\ None # "FILE"
  BY SpaceAssumption
<1>1. ASSUME NEW k, NEW l, NEW type \in {"ARRAY", "FILE"}, SameUsed(k.heap, l.heap)
      PROVE  Holding(l, type) \subseteq Holding(k, type)
  <2> SUFFICES ASSUME NEW a \in DOMAIN l.heap, l.heap[a].holds = type
               PROVE  a \in DOMAIN k.heap /\ k.heap[a].holds = type
    BY DEF Holding
  <2>1. a \in Used(l.heap)
    BY <1>0 DEF Used, IsFree
  <2> QED
    BY <1>1, <2>1 DEF SameUsed, Used
<1>2. SameUsed(n.heap, m.heap)
  BY DEF SameUsed
<1>3. \A type \in {"ARRAY", "FILE"} : Holding(n, type) = Holding(m, type)
  <2> TAKE type \in {"ARRAY", "FILE"}
  <2>1. Holding(n, type) \subseteq Holding(m, type)
    BY <1>1
  <2>2. Holding(m, type) \subseteq Holding(n, type)
    BY <1>1, <1>2
  <2> QED
    BY <2>1, <2>2
<1>4. ASSUME NEW a \in Holding(m, "ARRAY") PROVE Data(n, a) = Data(m, a)
  <2>1. a \in DOMAIN m.heap /\ m.heap[a].holds = "ARRAY"
    BY DEF Holding
  <2>2. a \in Used(m.heap)
    BY <1>0, <2>1 DEF Used, IsFree
  <2>3. n.heap[a] = m.heap[a]
    BY <2>2 DEF SameUsed
  <2> QED
    BY <2>3 DEF Data, End
<1>5. ArrayWords(n) = ArrayWords(m)
  <2>1. Holding(n, "ARRAY") = Holding(m, "ARRAY")
    BY <1>3
  <2> QED
    BY <1>4, <2>1 DEF ArrayWords
<1> QED
  BY <1>3, <1>4, <1>5

(* Addresses of descriptors are none's.                                    *)
LEMMA DescribedIs ==
  ASSUME NEW m, Described(m)
  PROVE  /\ DOMAIN m.sd = Statics \cup ArrayWords(m)
         /\ ArrayWords(m) \subseteq Int
         /\ Statics \cap ArrayWords(m) = {}
         /\ None \notin DOMAIN m.sd
         /\ \A a \in DOMAIN m.sd : /\ m.sd[a] \in Descriptors
                                   /\ m.sd[a].len \in 0 .. MaxLength /\ m.sd[a].len \in Nat
                                   /\ m.sd[a].ptr \in Int
                                   /\ m.sd[a] = [len |-> m.sd[a].len, ptr |-> m.sd[a].ptr]
<1>1. DOMAIN m.sd = Statics \cup ArrayWords(m) /\ \A a \in DOMAIN m.sd : m.sd[a] \in Descriptors
  BY DEF Described
<1>2. ArrayWords(m) \subseteq Int
  <2>1. \A a : Data(m, a) \subseteq Int
    BY DEF Data
  <2> QED
    BY <2>1 DEF ArrayWords
<1>3. Statics \cap Int = {} /\ None \notin Statics \cup Int
  BY SpaceAssumption
<1>4. ASSUME NEW a \in DOMAIN m.sd
      PROVE  /\ m.sd[a].len \in 0 .. MaxLength /\ m.sd[a].len \in Nat
             /\ m.sd[a].ptr \in Int
             /\ m.sd[a] = [len |-> m.sd[a].len, ptr |-> m.sd[a].ptr]
  <2>1. m.sd[a] \in Descriptors
    BY <1>1
  <2> HIDE DEF Descriptors
  <2> DEFINE d == m.sd[a]
  <2>2. d \in [len : 0 .. MaxLength, ptr : Int]
    BY <2>1 DEF Descriptors
  <2> HIDE DEF d
  <2>3. d.len \in 0 .. MaxLength /\ d.ptr \in Int /\ d = [len |-> d.len, ptr |-> d.ptr]
    BY <2>2
  <2> QED
    BY <2>3, ConstantsAre DEF d
<1> QED
  BY <1>1, <1>2, <1>3, <1>4

(* The memory stays good, and every string is kept, where only free        *)
(* entries change.                                                         *)
LEMMA SameKeeps ==
  ASSUME NEW X, NEW m, NEW n, Good(m, X), IsMemory(n), Regions(n),
         SameUsed(m.space, n.space), SameUsed(m.heap, n.heap),
         n.sd = m.sd, n.live = m.live, n.ad = m.ad
  PROVE  Good(n, X) /\ Kept(m, n, X)
<1>1. Described(m) /\ Owning(m, X)
  BY DEF Good
<1>2. ArrayWords(n) = ArrayWords(m)
  BY SameArrays
<1>3. Described(n)
  BY <1>1, <1>2 DEF Described
<1>4. ASSUME NEW a \in DOMAIN m.sd \ X, m.sd[a].len > 0
      PROVE  Owns(n, a) /\ Read(n, a) = Read(m, a)
  <2> DEFINE e == EntryOf(m.sd[a])
  <2>1. Owns(m, a)
    BY <1>1, <1>4 DEF Owning
  <2>2. /\ e \in DOMAIN m.space /\ m.space[e].holds = a
        /\ m.space[e].size = m.sd[a].len + 1
        /\ Len(m.space[e].data) = m.sd[a].len
    BY <2>1 DEF Owns
  <2>3. a # None
    BY <1>1, DescribedIs
  <2>4. e \in Used(m.space)
    BY <2>2, <2>3 DEF Used, IsFree
  <2> HIDE DEF e
  <2>5. e \in DOMAIN n.space /\ n.space[e] = m.space[e]
    BY <2>4 DEF SameUsed, Used
  <2>6. e = EntryOf(n.sd[a])
    BY DEF e
  <2>7. Owns(n, a)
    BY <2>2, <2>5, <2>6 DEF Owns
  <2>8. Read(n, a) = Read(m, a)
    BY <2>5, <2>6 DEF Read, e
  <2> QED
    BY <2>7, <2>8
<1>5. ASSUME NEW e \in Used(n.space)
      PROVE  /\ n.space[e].holds \in DOMAIN n.sd \ X
             /\ n.sd[n.space[e].holds].len > 0
             /\ EntryOf(n.sd[n.space[e].holds]) = e
  <2>1. e \in Used(m.space) /\ n.space[e] = m.space[e]
    BY DEF SameUsed
  <2> QED
    BY <1>1, <2>1 DEF Owning
<1>6. Owning(n, X)
  BY <1>4, <1>5 DEF Owning
<1>7. \A a \in DOMAIN m.sd \ X : Read(n, a) = Read(m, a)
  <2> TAKE a \in DOMAIN m.sd \ X
  <2>1. m.sd[a].len \in Nat
    BY <1>1, DescribedIs
  <2>2. CASE m.sd[a].len = 0
    BY <2>2 DEF Read
  <2>3. CASE m.sd[a].len > 0
    BY <1>4, <2>3
  <2> QED
    BY <2>1, <2>2, <2>3
<1>8. Kept(m, n, X)
  BY <1>7 DEF Kept
<1> QED
  BY <1>3, <1>6, <1>8 DEF Good

-----------------------------------------------------------------------------
(* String space.                                                           *)

(* The hint and string space alone are changed.                            *)
Elsewhere(m, n) ==
  /\ IsMemory(n) /\ n.low = m.low /\ n.heap = m.heap /\ n.sd = m.sd
  /\ n.live = m.live /\ n.ad = m.ad

Respaced(m, f, h) == [m EXCEPT !.space = f, !.hint = h]

(* The rest is as it was.                                                  *)
LEMMA RespacedIs ==
  ASSUME NEW m, IsMemory(m), NEW f, NEW h
  PROVE  /\ Elsewhere(m, Respaced(m, f, h))
         /\ Respaced(m, f, h).space = f
         /\ Respaced(m, f, h).hint = h
<1> DEFINE k == [m EXCEPT !.space = f, !.hint = h]
<1>1. DOMAIN m = Fields
  BY DEF IsMemory
<1>2. IsMemory(k)
  BY <1>1 DEF IsMemory
<1>3. /\ k.space = f /\ k.hint = h /\ k.low = m.low /\ k.heap = m.heap /\ k.sd = m.sd
      /\ k.live = m.live /\ k.ad = m.ad
  BY <1>1 DEF Fields
<1>4. Elsewhere(m, k) /\ k.space = f /\ k.hint = h
  <2> HIDE DEF k
  <2> QED
    BY <1>2, <1>3 DEF Elsewhere
<1>5. k = Respaced(m, f, h)
  BY DEF Respaced
<1> HIDE DEF k
<1> QED
  BY <1>4, <1>5

(* `set_hint`: the hint is the free tail or the end.                       *)
LEMMA HintSetIs ==
  ASSUME NEW X, NEW m, Good(m, X)
  PROVE  /\ Good(HintSet(m), X) /\ Kept(m, HintSet(m), X)
         /\ Elsewhere(m, HintSet(m)) /\ HintSet(m).space = m.space
         /\ LET h == HintSet(m).hint
            IN  \/ h = m.low
                \/ h \in DOMAIN m.space /\ IsFree(m.space[h]) /\ End(m.space, h) = m.low
<1>1. IsMemory(m) /\ Regions(m)
  BY DEF Good
<1>2. CASE m.hint \in DOMAIN m.space /\ IsFree(m.space[m.hint]) /\ End(m.space, m.hint) = m.low
  <2>1. HintSet(m) = m
    BY <1>2, Zenon DEF HintSet
  <2> QED
    BY <1>1, <1>2, <2>1, KeptSame DEF Elsewhere
<1>3. CASE ~(m.hint \in DOMAIN m.space /\ IsFree(m.space[m.hint]) /\ End(m.space, m.hint) = m.low)
  <2> DEFINE n == [m EXCEPT !.hint = m.low]
  <2>1. HintSet(m) = n
    BY <1>3, Zenon DEF HintSet
  <2>2. IsMemory(n) /\ n.hint = m.low /\ n.space = m.space /\ Elsewhere(m, n)
    <3>1. DOMAIN m = Fields
      BY <1>1 DEF IsMemory
    <3>2. /\ n.space = m.space /\ n.hint = m.low /\ n.low = m.low /\ n.heap = m.heap
          /\ n.sd = m.sd /\ n.live = m.live /\ n.ad = m.ad
      BY <3>1 DEF Fields
    <3>3. IsMemory(n)
      BY <3>1 DEF IsMemory
    <3> HIDE DEF n
    <3> QED
      BY <3>2, <3>3 DEF Elsewhere
  <2> HIDE DEF n
  <2>3. Regions(n)
    BY <1>1, <2>2 DEF Regions, Elsewhere
  <2>4. SameUsed(m.space, n.space) /\ SameUsed(m.heap, n.heap)
    BY <2>2 DEF Elsewhere, SameUsed
  <2>5. Good(n, X) /\ Kept(m, n, X)
    BY <2>2, <2>3, <2>4, SameKeeps DEF Elsewhere
  <2> QED
    BY <2>1, <2>2, <2>5
<1> QED
  BY <1>2, <1>3

(* What was looked for in string space.                                    *)
Finds(r, n) ==
  \/ r.found = Nowhere
  \/ /\ r.found \in DOMAIN r.memory.space /\ IsFree(r.memory.space[r.found])
     /\ r.memory.space[r.found].size >= n

Searches(m, X, n, r) ==
  /\ Good(r.memory, X) /\ Kept(m, r.memory, X) /\ Elsewhere(m, r.memory)
  /\ SameUsed(m.space, r.memory.space)
  /\ r = [memory |-> r.memory, found |-> r.found] /\ Finds(r, n)

(* There is room for n at `from`.                                          *)
RoomAt(m, from, n) ==
  from \in DOMAIN m.space /\ IsFree(m.space[from]) /\ m.space[from].size >= n

(* Entries of string space joined are entries.                             *)
LEMMA MergedEntries ==
  ASSUME NEW f, NEW g, Merges(f, g), NEW E, \A e \in DOMAIN f : f[e] \in E,
         \A n \in Nat : FreeEntry(n) \in E
  PROVE  \A e \in DOMAIN g : g[e] \in E
<1> TAKE e \in DOMAIN g
<1>1. e \in DOMAIN f
  BY DEF Merges
<1>2. g[e] = f[e] \/ (g[e] = FreeEntry(g[e].size) /\ g[e].size \in Nat)
  BY DEF Merges
<1> QED
  BY <1>1, <1>2

(* `scan`.                                                                 *)
LEMMA ScanIs ==
  ASSUME NEW X, NEW m, Good(m, X), NEW from \in DOMAIN m.space \cup {m.low},
         NEW limit \in Int, NEW n \in Nat
  PROVE  /\ Searches(m, X, n, Scan(m, from, limit, n))
         /\ RoomAt(m, from, n) /\ from <= limit => Scan(m, from, limit, n).found # Nowhere
<1> DEFINE fit == FirstFit(m.space, from, limit, n)
           hint == IF m.hint = m.low \/ m.hint \in DOMAIN fit.entries THEN m.hint
                   ELSE Max({a \in DOMAIN fit.entries : a < m.hint})
           k == [m EXCEPT !.space = fit.entries, !.hint = hint]
           r == [memory |-> k, found |-> fit.found]
<1>1. IsMemory(m) /\ Regions(m) /\ Tiling(m.space, 0, m.low)
  BY DEF Good, Regions
<1>2. /\ Scanning(m.space, 0, m.low, n, fit)
      /\ RoomAt(m, from, n) /\ from <= limit => fit.found # Nowhere
  BY <1>1, FirstFitIs DEF RoomAt
<1>3. Scan(m, from, limit, n) = r
  BY DEF Scan, Scanned
<1>4. /\ Tiling(fit.entries, 0, m.low) /\ Merges(m.space, fit.entries)
      /\ \/ fit.found = Nowhere
         \/ /\ fit.found \in DOMAIN fit.entries /\ IsFree(fit.entries[fit.found])
            /\ fit.entries[fit.found].size >= n
  BY <1>2 DEF Scanning
<1> HIDE DEF fit
<1>5. hint \in DOMAIN fit.entries \cup {m.low}
  <2>1. CASE m.hint = m.low \/ m.hint \in DOMAIN fit.entries
    BY <2>1
  <2>2. CASE ~(m.hint = m.low \/ m.hint \in DOMAIN fit.entries)
    <3> DEFINE S == {a \in DOMAIN fit.entries : a < m.hint}
    <3>1. m.hint \in DOMAIN m.space /\ m.hint \in Nat /\ m.low \in Nat /\ m.hint < m.low
      <4>1. m.hint \in DOMAIN m.space
        BY <1>1, <2>2 DEF Regions
      <4> QED
        BY <1>1, <4>1, TilingIs
    <3>2. \A a \in DOMAIN fit.entries : a \in Nat /\ a < m.low
      BY <1>4, TilingIs
    <3>3. 0 \in DOMAIN fit.entries
      <4>1. 0 \in DOMAIN fit.entries \cup {m.low}
        BY <1>4, TilingIs
      <4> QED
        BY <3>1, <4>1
    <3>4. S \in SUBSET (0 .. m.low) /\ 0 \in S
      BY <2>2, <3>1, <3>2, <3>3
    <3>5. Max(S) \in S
      <4> HIDE DEF S
      <4> QED
        BY <3>1, <3>4, MaxIs
    <3> QED
      BY <2>2, <3>5
  <2> QED
    BY <2>1, <2>2
<1> HIDE DEF hint
<1>6. IsMemory(k) /\ Elsewhere(m, k) /\ k.space = fit.entries /\ k.hint = hint
  <2>1. Elsewhere(m, k) /\ k.space = fit.entries /\ k.hint = hint
    <3>1. k = Respaced(m, fit.entries, hint)
      BY DEF Respaced
    <3> HIDE DEF k
    <3> QED
      BY <1>1, <3>1, RespacedIs
  <2> QED
    BY <2>1 DEF Elsewhere
<1> HIDE DEF k
<1>7. \A e \in DOMAIN k.space : k.space[e] \in SpaceEntries
  <2>1. \A e \in DOMAIN m.space : m.space[e] \in SpaceEntries
    BY <1>1 DEF Regions
  <2> HIDE DEF SpaceEntries
  <2> QED
    BY <1>4, <1>6, <2>1, FreeEntries, MergedEntries
<1>8. Regions(k)
  BY <1>1, <1>4, <1>5, <1>6, <1>7 DEF Regions, Elsewhere
<1>9. SameUsed(m.space, k.space) /\ SameUsed(m.heap, k.heap)
  BY <1>4, <1>6, MergesSame DEF Elsewhere, SameUsed
<1>10. Good(k, X) /\ Kept(m, k, X)
  BY <1>6, <1>8, <1>9, SameKeeps DEF Elsewhere
<1>11. r.memory = k /\ r.found = fit.found /\ r = [memory |-> r.memory, found |-> r.found]
  OBVIOUS
<1> HIDE DEF r
<1>12. Searches(m, X, n, r)
  BY <1>4, <1>6, <1>9, <1>10, <1>11 DEF Searches, Finds
<1> QED
  BY <1>2, <1>3, <1>11, <1>12

(* Changed there, and there again.                                         *)
LEMMA ElsewhereOn ==
  ASSUME NEW m, NEW n, NEW o, Elsewhere(m, n), Elsewhere(n, o)
  PROVE  Elsewhere(m, o)
BY DEF Elsewhere

(* A search after a search.                                                *)
LEMMA SearchesOn ==
  ASSUME NEW X, NEW m, NEW n, NEW q, Searches(m, X, n, q), NEW r, Searches(q.memory, X, n, r)
  PROVE  Searches(m, X, n, r)
BY KeptOn, SameUsedOn, ElsewhereOn DEF Searches

(* `fit`: it finds room at once where the hint has it.                     *)
LEMMA FitIs ==
  ASSUME NEW X, NEW m, Good(m, X), NEW n \in Nat
  PROVE  /\ Searches(m, X, n, Fit(m, n))
         /\ RoomAt(m, m.hint, n) => Fit(m, n).found # Nowhere
<1> DEFINE q == Scan(m, m.hint, m.low, n)
<1>1. /\ m.hint \in DOMAIN m.space \cup {m.low} /\ m.low \in Nat
      /\ m.hint \in DOMAIN m.space => m.hint <= m.low
  <2>1. Regions(m) /\ Tiling(m.space, 0, m.low)
    BY DEF Good, Regions
  <2>2. m.low \in Nat /\ \A a \in DOMAIN m.space : a \in Nat /\ a < m.low
    BY <2>1, TilingIs
  <2> QED
    BY <2>1, <2>2 DEF Regions
<1>2. Searches(m, X, n, q) /\ (RoomAt(m, m.hint, n) => q.found # Nowhere)
  <2>1. m.low \in Int
    BY <1>1
  <2>2. /\ Searches(m, X, n, q)
        /\ RoomAt(m, m.hint, n) /\ m.hint <= m.low => q.found # Nowhere
    BY <1>1, <2>1, ScanIs
  <2> QED
    BY <1>1, <2>2 DEF RoomAt
<1>3. Fit(m, n) = FitBefore(q, n)
  BY DEF Fit
<1> HIDE DEF q
<1>4. CASE q.found # Nowhere
  <2>1. Fit(m, n) = q
    BY <1>3, <1>4, Zenon DEF FitBefore
  <2> QED
    BY <1>2, <1>4, <2>1
<1>5. CASE q.found = Nowhere
  <2> DEFINE k == q.memory
             r == Scan(k, 0, k.hint, n)
  <2>1. Fit(m, n) = r
    BY <1>3, <1>5, Zenon DEF FitBefore
  <2>2. Good(k, X)
    BY <1>2 DEF Searches
  <2>3. 0 \in DOMAIN k.space \cup {k.low} /\ k.hint \in Int
    <3>1. Tiling(k.space, 0, k.low) /\ k.hint \in DOMAIN k.space \cup {k.low}
      BY <2>2 DEF Good, Regions
    <3> HIDE DEF k
    <3>2. \A a \in DOMAIN k.space : a \in Nat
      BY <3>1, TilingIs
    <3>3. k.low \in Nat /\ 0 \in DOMAIN k.space \cup {k.low}
      BY <3>1, TilingIs
    <3> QED
      BY <3>1, <3>2, <3>3
  <2>4. Searches(k, X, n, r)
    <3> HIDE DEF k
    <3> QED
      BY <2>2, <2>3, ScanIs
  <2> HIDE DEF r
  <2>5. Searches(m, X, n, r)
    BY <1>2, <2>4, SearchesOn, Zenon
  <2> QED
    BY <1>2, <1>5, <2>1, <2>5
<1> QED
  BY <1>4, <1>5

(* The words in use are those of the entries in use.                       *)
LEMMA SameWords ==
  ASSUME NEW f, NEW g, SameUsed(f, g)
  PROVE  Words(g, Used(g)) = Words(f, Used(f))
<1>1. Used(g) = Used(f) /\ \A e \in Used(f) : End(g, e) = End(f, e)
  BY DEF SameUsed, End
<1> QED
  BY <1>1 DEF Words

(* Whose descriptors are told where their entries went.                    *)
LEMMA ToldIs ==
  ASSUME NEW X, NEW m, Good(m, X), NEW at, DOMAIN at = Used(m.space),
         \A e \in DOMAIN at : at[e] \in Int
  PROVE  /\ Told(m, at) \in [DOMAIN m.sd -> Descriptors]
         /\ \A a \in DOMAIN m.sd : Told(m, at)[a].len = m.sd[a].len
         /\ \A a \in DOMAIN m.sd \ X :
              m.sd[a].len > 0 => /\ EntryOf(m.sd[a]) \in DOMAIN at
                                 /\ Told(m, at)[a].ptr = at[EntryOf(m.sd[a])] + 1
<1>1. /\ Described(m) /\ Owning(m, X)
      /\ \A e \in DOMAIN m.space : e \in Nat
  <2>1. Described(m) /\ Owning(m, X) /\ Tiling(m.space, 0, m.low)
    BY DEF Good, Regions
  <2> QED
    BY <2>1, TilingIs
<1> DEFINE its(a) == {e \in DOMAIN at : m.space[e].holds = a}
           told(a) == IF its(a) = {} THEN m.sd[a]
                      ELSE [m.sd[a] EXCEPT !.ptr = at[Max(its(a))] + 1]
<1>2. Told(m, at) = [a \in DOMAIN m.sd |-> told(a)]
  BY DEF Told
<1>3. ASSUME NEW a \in DOMAIN m.sd
      PROVE  /\ told(a) \in Descriptors /\ told(a).len = m.sd[a].len
             /\ a \notin X /\ m.sd[a].len > 0 =>
                  /\ EntryOf(m.sd[a]) \in DOMAIN at
                  /\ told(a).ptr = at[EntryOf(m.sd[a])] + 1
  <2> DEFINE d == m.sd[a]
             e == EntryOf(d)
  <2>1. d \in Descriptors /\ a # None
    BY <1>1, DescribedIs
  <2>2. a \notin X /\ d.len > 0 => e \in its(a)
    <3> SUFFICES ASSUME a \notin X, d.len > 0 PROVE e \in its(a)
      OBVIOUS
    <3>1. Owns(m, a)
      BY <1>1 DEF Owning
    <3>2. e \in DOMAIN m.space /\ m.space[e].holds = a
      BY <3>1 DEF Owns
    <3> QED
      BY <2>1, <3>2 DEF Used, IsFree
  <2>3. \A x \in its(a) : x = e /\ x \in DOMAIN at /\ x \in Nat
    <3> TAKE x \in its(a)
    <3>1. x \in Used(m.space) /\ m.space[x].holds = a
      OBVIOUS
    <3>2. EntryOf(m.sd[m.space[x].holds]) = x
      BY <1>1, <3>1 DEF Owning
    <3>3. x \in DOMAIN m.space
      BY <3>1 DEF Used
    <3> QED
      BY <1>1, <3>1, <3>2, <3>3
  <2>4. CASE its(a) = {}
    <3>1. told(a) = d
      BY <2>4
    <3> HIDE DEF told, its
    <3> QED
      BY <2>1, <2>2, <2>4, <3>1
  <2>5. CASE its(a) # {}
    <3>1. its(a) = {e} /\ e \in Nat /\ e \in DOMAIN at
      <4> HIDE DEF its, e
      <4> QED
        BY <2>3, <2>5
    <3>2. Max(its(a)) = e
      <4> HIDE DEF its, e
      <4> QED
        BY <3>1, MaxOfOne
    <3>3. told(a) = [d EXCEPT !.ptr = at[e] + 1]
      <4> HIDE DEF its, e, d
      <4> QED
        BY <2>5, <3>2 DEF d
    <3>4. at[e] + 1 \in Int
      BY <3>1
    <3> HIDE DEF told, its, e, d
    <3>5. told(a) \in Descriptors /\ told(a).len = d.len /\ told(a).ptr = at[e] + 1
      BY <2>1, <3>3, <3>4 DEF Descriptors
    <3> QED
      BY <3>1, <3>5 DEF e, d
  <2> QED
    BY <2>4, <2>5
<1> HIDE DEF told
<1> QED
  BY <1>2, <1>3

(* What `str_compact` leaves: the hint is the end of what is in use, and   *)
(* from there to the boundary there is one free entry.                     *)
Packed(m) ==
  LET used == Cardinality(Words(m.space, Used(m.space)))
  IN  /\ used \in Nat /\ used <= m.low /\ m.hint = used
      /\ used < m.low => /\ used \in DOMAIN m.space /\ IsFree(m.space[used])
                         /\ m.space[used].size = m.low - used

(* `str_compact`.                                                          *)
LEMMA StrCompactIs ==
  ASSUME NEW X, NEW m, Good(m, X)
  PROVE  /\ Good(StrCompact(m), X) /\ Kept(m, StrCompact(m), X) /\ Packed(StrCompact(m))
         /\ StrCompact(m).low = m.low /\ StrCompact(m).heap = m.heap
<1> DEFINE f == m.space
           U == Used(f)
           at == Downs(f)
           P == Placed(f, at)
           T == Cardinality(Words(f, U))
           sd == Told(m, at)
           n == StrCompact(m)
           g == IF T < m.low THEN With(P, T, FreeEntry(m.low - T)) ELSE P
<1>1. /\ IsMemory(m) /\ Regions(m) /\ Described(m) /\ Owning(m, X)
      /\ Tiling(f, 0, m.low) /\ m.low \in Nat
  <2>1. IsMemory(m) /\ Regions(m) /\ Described(m) /\ Owning(m, X) /\ Tiling(f, 0, m.low)
    BY DEF Good, Regions
  <2> QED
    BY <2>1, TilingIs
<1>2. DOMAIN at = U /\ InARow(f, at, 0, T) /\ T <= m.low
  <2> HIDE DEF f
  <2> QED
    BY <1>1, DownsAre
<1>3. /\ Tiling(P, 0, T) /\ DOMAIN P = {at[a] : a \in U}
      /\ \A a \in U : P[at[a]] = f[a]
      /\ \A a, b \in U : at[a] = at[b] => a = b
      /\ \A a \in U : at[a] \in Nat
      /\ T \in Nat
  <2>1. /\ Tiling(P, 0, T) /\ DOMAIN P = {at[a] : a \in DOMAIN at}
        /\ \A a \in DOMAIN at : P[at[a]] = f[a]
        /\ \A a, b \in DOMAIN at : at[a] = at[b] => a = b
    <3> HIDE DEF at, f, T
    <3> QED
      BY <1>2, PlacedInARow
  <2>2. \A a \in DOMAIN at : at[a] \in Nat
    BY <1>2, Zenon DEF InARow
  <2>3. T \in Nat
    BY <1>2, Zenon DEF InARow
  <2> QED
    BY <1>2, <2>1, <2>2, <2>3
<1>4. /\ IsMemory(n) /\ n.space = g /\ n.hint = T /\ n.low = m.low /\ n.heap = m.heap
      /\ n.sd = sd /\ n.live = m.live /\ n.ad = m.ad
  <2> DEFINE k == [m EXCEPT !.space = Placed(@, Downs(@)), !.sd = sd]
             o == WithTail(k, T)
  <2>1. DOMAIN m = Fields
    BY <1>1 DEF IsMemory
  <2>2. n = o
    BY DEF StrCompact
  <2>3. /\ k.space = P /\ k.low = m.low /\ k.heap = m.heap /\ k.sd = sd
        /\ k.live = m.live /\ k.ad = m.ad /\ DOMAIN k = Fields
    <3> HIDE DEF sd
    <3> QED
      BY <2>1 DEF Fields
  <2> HIDE DEF k, P, T, sd, n
  <2>4. o = [k EXCEPT !.space = IF T < k.low THEN With(@, T, FreeEntry(k.low - T)) ELSE @,
                      !.hint = T]
    BY DEF WithTail
  <2>5. /\ o.space = (IF T < k.low THEN With(k.space, T, FreeEntry(k.low - T)) ELSE k.space)
        /\ o.hint = T /\ o.low = k.low /\ o.heap = k.heap /\ o.sd = k.sd
        /\ o.live = k.live /\ o.ad = k.ad
    <3> HIDE DEF o
    <3> QED
      BY <2>3, <2>4 DEF Fields
  <2>6. IsMemory(o)
    <3> HIDE DEF o
    <3> QED
      BY <2>3, <2>4 DEF IsMemory
  <2> HIDE DEF o
  <2> QED
    BY <2>2, <2>3, <2>5, <2>6
<1>5. U \subseteq DOMAIN f /\ \A e \in U : ~IsFree(f[e])
  BY DEF Used
<1>s. \A e \in DOMAIN f : f[e] \in SpaceEntries
  BY <1>1 DEF Regions
<1>6. /\ sd \in [DOMAIN m.sd -> Descriptors]
      /\ \A a \in DOMAIN m.sd : sd[a].len = m.sd[a].len
      /\ \A a \in DOMAIN m.sd \ X :
           m.sd[a].len > 0 => EntryOf(m.sd[a]) \in U /\ sd[a].ptr = at[EntryOf(m.sd[a])] + 1
  <2>1. DOMAIN at = Used(m.space) /\ \A e \in DOMAIN at : at[e] \in Int
    BY <1>2, <1>3
  <2> HIDE DEF at
  <2>2. /\ Told(m, at) \in [DOMAIN m.sd -> Descriptors]
        /\ \A a \in DOMAIN m.sd : Told(m, at)[a].len = m.sd[a].len
        /\ \A a \in DOMAIN m.sd \ X :
             m.sd[a].len > 0 => /\ EntryOf(m.sd[a]) \in DOMAIN at
                                /\ Told(m, at)[a].ptr = at[EntryOf(m.sd[a])] + 1
    BY <2>1, ToldIs
  <2> QED
    BY <2>1, <2>2
<1> HIDE DEF sd, at, P, n, U, f, T
<1>7. ASSUME NEW e \in DOMAIN P PROVE e \in DOMAIN g /\ g[e] = P[e]
  <2>1. T \notin DOMAIN P
    BY <1>3, TilingIs
  <2> QED
    BY <2>1 DEF With
<1>8. ASSUME NEW e \in DOMAIN g, e \notin DOMAIN P
      PROVE  e = T /\ T < m.low /\ g[e] = FreeEntry(m.low - T)
  BY <1>8 DEF With
<1>9. Tiling(g, 0, m.low)
  <2>1. CASE T < m.low
    <3>1. m.low - T \in Nat /\ m.low - T > 0 /\ T + (m.low - T) = m.low
      BY <1>1, <1>3, <2>1
    <3>2. FreeEntry(m.low - T).size = m.low - T
      BY FreeEntryIs
    <3>3. Tiling(With(P, T, FreeEntry(m.low - T)), 0, T + (m.low - T))
      BY <1>3, <3>1, <3>2, GrownIs
    <3> QED
      BY <2>1, <3>1, <3>3
  <2>2. CASE ~(T < m.low)
    <3>1. T = m.low /\ g = P
      BY <1>1, <1>2, <1>3, <2>2
    <3> QED
      BY <1>3, <3>1
  <2> QED
    BY <2>1, <2>2
<1>10. Used(g) = DOMAIN P
  <2>1. ASSUME NEW e \in DOMAIN P PROVE e \in Used(g)
    <3>1. PICK a \in U : e = at[a]
      BY <1>3
    <3>2. g[e] = f[a] /\ e \in DOMAIN g
      BY <1>3, <1>7, <3>1
    <3> QED
      BY <1>5, <3>2 DEF Used
  <2>2. ASSUME NEW e \in Used(g), e \notin DOMAIN P PROVE FALSE
    <3>1. e \in DOMAIN g /\ ~IsFree(g[e])
      BY DEF Used
    <3>2. g[e] = FreeEntry(m.low - T)
      BY <1>8, <2>2, <3>1
    <3> QED
      BY <3>1, <3>2, FreeEntryIs
  <2> QED
    BY <2>1, <2>2
<1>11. \A e \in DOMAIN g : g[e] \in SpaceEntries
  <2> TAKE e \in DOMAIN g
  <2>1. CASE e \in DOMAIN P
    <3>1. PICK a \in U : e = at[a]
      BY <1>3, <2>1
    <3>2. g[e] = f[a]
      BY <1>3, <1>7, <2>1, <3>1
    <3> QED
      BY <1>5, <1>s, <3>2
  <2>2. CASE e \notin DOMAIN P
    <3>1. g[e] = FreeEntry(m.low - T) /\ T < m.low
      BY <1>8, <2>2
    <3>2. m.low - T \in Nat
      BY <1>1, <1>3, <3>1
    <3> QED
      BY <3>1, <3>2, FreeEntries
  <2> QED
    BY <2>1, <2>2
<1>12. T \in DOMAIN g \cup {m.low}
  <2>1. T < m.low => T \in DOMAIN g
    BY DEF With
  <2> QED
    BY <1>1, <1>2, <1>3, <2>1
<1>13. Regions(n)
  <2> HIDE DEF g
  <2> QED
    BY <1>1, <1>4, <1>9, <1>11, <1>12 DEF Regions
<1>14. ArrayWords(n) = ArrayWords(m)
  <2>1. SameUsed(m.heap, n.heap)
    BY <1>4 DEF SameUsed
  <2> QED
    BY <2>1, SameArrays
<1>15. Described(n)
  <2>1. DOMAIN m.sd = Statics \cup ArrayWords(m)
    BY <1>1 DEF Described
  <2> QED
    BY <1>4, <1>6, <1>14, <2>1 DEF Described
<1> HIDE DEF g
<1>16. ASSUME NEW a \in DOMAIN m.sd \ X, m.sd[a].len > 0
       PROVE  Owns(n, a) /\ Read(n, a) = Read(m, a)
  <2> DEFINE e == EntryOf(m.sd[a])
  <2>1. e \in U /\ sd[a].ptr = at[e] + 1 /\ sd[a].len = m.sd[a].len /\ at[e] \in Nat
    BY <1>3, <1>6, <1>16
  <2>2. Owns(m, a)
    BY <1>1, <1>16 DEF Owning
  <2>3. f[e].holds = a /\ f[e].size = m.sd[a].len + 1 /\ Len(f[e].data) = m.sd[a].len
    BY <2>2 DEF Owns, f
  <2> HIDE DEF e
  <2>4. at[e] \in DOMAIN g /\ g[at[e]] = f[e]
    BY <1>3, <1>7, <2>1
  <2>5. EntryOf(n.sd[a]) = at[e]
    BY <1>4, <2>1 DEF EntryOf
  <2>6. Owns(n, a)
    BY <1>4, <2>1, <2>3, <2>4, <2>5 DEF Owns
  <2>7. m.sd[a].len # 0
    BY <1>16
  <2>8. Read(n, a) = f[e].data
    BY <1>4, <2>1, <2>4, <2>5, <2>7 DEF Read
  <2>9. Read(m, a) = f[e].data
    BY <2>7 DEF Read, e, f
  <2> QED
    BY <2>6, <2>8, <2>9
<1>17. ASSUME NEW x \in Used(n.space)
       PROVE  /\ n.space[x].holds \in DOMAIN n.sd \ X
              /\ n.sd[n.space[x].holds].len > 0
              /\ EntryOf(n.sd[n.space[x].holds]) = x
  <2>1. PICK e \in U : x = at[e]
    BY <1>3, <1>4, <1>10
  <2>2. n.space[x] = f[e]
    BY <1>3, <1>4, <1>7, <1>10, <2>1
  <2> DEFINE a == f[e].holds
  <2>3. a \in DOMAIN m.sd \ X /\ m.sd[a].len > 0 /\ EntryOf(m.sd[a]) = e
    BY <1>1 DEF Owning, f, U
  <2>4. sd[a].ptr = at[e] + 1 /\ sd[a].len = m.sd[a].len /\ at[e] \in Nat /\ DOMAIN sd = DOMAIN m.sd
    BY <1>3, <1>6, <2>3
  <2> HIDE DEF a
  <2>5. EntryOf(sd[a]) = x
    BY <2>1, <2>4 DEF EntryOf
  <2> QED
    BY <1>4, <2>2, <2>3, <2>4, <2>5 DEF a
<1>18. DOMAIN n.sd = DOMAIN m.sd
  BY <1>4, <1>6
<1>19. Owning(n, X)
  <2>1. \A a \in DOMAIN n.sd \ X : n.sd[a].len > 0 => Owns(n, a)
    BY <1>4, <1>6, <1>16, <1>18
  <2> QED
    BY <1>17, <2>1 DEF Owning
<1>20. Kept(m, n, X)
  <2>1. ASSUME NEW a \in DOMAIN m.sd \ X
        PROVE  n.sd[a].len = m.sd[a].len /\ Read(n, a) = Read(m, a)
    <3>1. n.sd[a].len = m.sd[a].len /\ m.sd[a].len \in Nat
      BY <1>1, <1>4, <1>6, DescribedIs
    <3>2. CASE m.sd[a].len = 0
      BY <3>1, <3>2 DEF Read
    <3>3. CASE m.sd[a].len > 0
      BY <1>16, <3>1, <3>3
    <3> QED
      BY <3>1, <3>2, <3>3
  <2>2. SameUsed(m.heap, n.heap)
    BY <1>4 DEF SameUsed
  <2> QED
    BY <1>4, <1>18, <2>1, <2>2 DEF Kept
<1>21. Packed(n)
  <2>1. Words(g, DOMAIN P) = Words(P, DOMAIN P)
    <3>1. \A e \in DOMAIN P : End(g, e) = End(P, e)
      BY <1>7 DEF End
    <3> QED
      BY <3>1 DEF Words
  <2>2. Cardinality(Words(n.space, Used(n.space))) = T
    <3>1. Cardinality(Words(P, DOMAIN P)) = T - 0
      BY <1>3, AllWords, Zenon
    <3> QED
      BY <1>3, <1>4, <1>10, <2>1, <3>1
  <2>3. T < m.low => T \in DOMAIN g /\ g[T] = FreeEntry(m.low - T)
    BY DEF g, With
  <2>4. IsFree(FreeEntry(m.low - T)) /\ FreeEntry(m.low - T).size = m.low - T
    BY FreeEntryIs
  <2> QED
    BY <1>2, <1>3, <1>4, <2>2, <2>3, <2>4 DEF Packed
<1>22. Good(n, X)
  BY <1>4, <1>13, <1>15, <1>19 DEF Good
<1> QED
  BY <1>4, <1>20, <1>21, <1>22 DEF n

(* `str_take` of the heap's free room at the boundary: none is left there. *)
LEMMA LhGiveIs ==
  ASSUME NEW X, NEW m, Good(m, X)
  PROVE  /\ Good(LhGive(m), X) /\ Kept(m, LhGive(m), X)
         /\ Run(LhGive(m).heap, LhGive(m).low) = {}
<1> DEFINE run == Run(m.heap, m.low)
<1>1. IsMemory(m) /\ Regions(m) /\ Tiling(m.space, 0, m.low) /\ Tiling(m.heap, m.low, TOP)
  BY DEF Good, Regions
<1>2. CASE run = {}
  <2>1. LhGive(m) = m
    BY <1>2, Zenon DEF LhGive
  <2> QED
    BY <1>2, <2>1, KeptSame
<1>3. CASE run # {}
  <2> DEFINE e == End(m.heap, Max(run))
             room == e - m.low
             k == HintSet(m)
             h == k.hint
             size == IF h = k.low THEN room ELSE k.space[h].size + room
             g == With(k.space, h, FreeEntry(size))
             o == [k EXCEPT !.space = g, !.low = @ + room]
             n == [o EXCEPT !.heap = Without(@, run)]
  <2>1. LhGive(m) = n
    BY <1>3, Zenon DEF LhGive, StrTake, TailGrown
  <2>2. /\ run \subseteq DOMAIN m.heap /\ e \in Nat /\ e > m.low /\ e <= TOP
        /\ Tiling(Without(m.heap, run), e, TOP)
        /\ Run(Without(m.heap, run), e) = {}
        /\ \A x \in run : IsFree(m.heap[x])
    BY <1>1, <1>3, RunOffIs, Zenon
  <2>3. /\ Good(k, X) /\ Kept(m, k, X) /\ Elsewhere(m, k) /\ k.space = m.space
        /\ \/ h = m.low
           \/ h \in DOMAIN m.space /\ IsFree(m.space[h]) /\ End(m.space, h) = m.low
    BY HintSetIs, Zenon
  <2>4. m.low \in Nat /\ \A a \in DOMAIN m.space : a \in Nat /\ a < m.low /\ m.space[a].size \in Nat
    BY <1>1, TilingIs
  <2>5. room \in Nat /\ room > 0 /\ m.low + room = e
    <3> HIDE DEF e
    <3> QED
      BY <2>2, <2>4
  <2>6. /\ IsMemory(n) /\ n.space = g /\ n.hint = h /\ n.low = e /\ n.heap = Without(m.heap, run)
        /\ n.sd = m.sd /\ n.live = m.live /\ n.ad = m.ad
    <3> HIDE DEF run, e, room, k, g
    <3>1. /\ IsMemory(k) /\ k.low = m.low /\ k.heap = m.heap /\ k.sd = m.sd
          /\ k.live = m.live /\ k.ad = m.ad
      BY <2>3, Zenon DEF Elsewhere
    <3>2. DOMAIN k = Fields
      BY <3>1 DEF IsMemory
    <3>3. /\ o.space = g /\ o.hint = h /\ o.low = k.low + room /\ o.heap = k.heap
          /\ o.sd = k.sd /\ o.live = k.live /\ o.ad = k.ad /\ DOMAIN o = Fields
      BY <3>2 DEF Fields
    <3> HIDE DEF o
    <3>4. /\ n.space = o.space /\ n.hint = o.hint /\ n.low = o.low
          /\ n.heap = Without(o.heap, run)
          /\ n.sd = o.sd /\ n.live = o.live /\ n.ad = o.ad /\ IsMemory(n)
      BY <3>3 DEF Fields, IsMemory
    <3> HIDE DEF n, h
    <3> QED
      BY <2>5, <3>1, <3>3, <3>4
  <2> DEFINE f == m.space
  <2>7. g = With(f, h, FreeEntry(size)) /\ k.low = m.low /\ k.space = f
    BY <2>3 DEF Elsewhere
  <2> HIDE DEF n, e, run, k
  <2>8. size \in Nat /\ FreeEntry(size).size = size /\ IsFree(FreeEntry(size))
    <3>1. size \in Nat
      <4> HIDE DEF room, h
      <4> QED
        BY <2>3, <2>4, <2>5, <2>7
    <3> HIDE DEF size
    <3> QED
      BY <3>1, FreeEntryIs
  <2>9. \/ h = m.low /\ FreeEntry(size).size = room
        \/ h \in DOMAIN f /\ End(f, h) = m.low /\ FreeEntry(size).size = f[h].size + room
    <3>1. CASE h = m.low
      <4>1. size = room
        BY <2>7, <3>1
      <4> QED
        BY <2>8, <3>1, <4>1
    <3>2. CASE h # m.low
      <4>1. size = f[h].size + room
        BY <2>7, <3>2
      <4> QED
        BY <2>3, <2>8, <3>2, <4>1
    <3> QED
      BY <3>1, <3>2
  <2> HIDE DEF size, room, g, h
  <2>10. Tiling(g, 0, e)
    <3>1. Tiling(With(f, h, FreeEntry(size)), 0, m.low + room)
      BY <1>1, <2>5, <2>9, GrownIs
    <3> QED
      BY <2>5, <2>7, <3>1
  <2>11. /\ DOMAIN g = DOMAIN f \cup {h} /\ g[h] = FreeEntry(size)
         /\ \A x \in DOMAIN f : x # h => g[x] = f[x]
    BY <2>7 DEF With
  <2>12. Regions(n)
    <3>1. \A a \in DOMAIN g : g[a] \in SpaceEntries
      <4>1. \A a \in DOMAIN f : f[a] \in SpaceEntries
        BY <1>1 DEF Regions
      <4> QED
        BY <2>8, <2>11, <4>1, FreeEntries
    <3>2. \A a \in DOMAIN n.heap : n.heap[a] \in HeapEntries /\ n.heap[a].size >= Smallest
      <4>1. \A a \in DOMAIN m.heap : m.heap[a] \in HeapEntries /\ m.heap[a].size >= Smallest
        BY <1>1 DEF Regions
      <4> QED
        BY <2>6, <4>1 DEF Without
    <3> QED
      BY <2>2, <2>6, <2>10, <2>11, <3>1, <3>2 DEF Regions
  <2>13. SameUsed(m.space, n.space)
    <3>1. h \in DOMAIN f => IsFree(f[h])
      BY <2>3, <2>4
    <3>2. IsFree(g[h])
      BY <2>8, <2>11
    <3>3. Used(g) = Used(f)
      BY <2>11, <3>1, <3>2 DEF Used
    <3>4. \A x \in Used(f) : g[x] = f[x]
      BY <2>11, <3>1 DEF Used
    <3> QED
      BY <2>6, <3>3, <3>4 DEF SameUsed
  <2>14. SameUsed(m.heap, n.heap)
    BY <2>2, <2>6 DEF SameUsed, Used, Without
  <2>15. Good(n, X) /\ Kept(m, n, X)
    BY <2>6, <2>12, <2>13, <2>14, SameKeeps
  <2> QED
    BY <2>1, <2>2, <2>6, <2>15
<1> QED
  BY <1>2, <1>3

-----------------------------------------------------------------------------
(* `str_alloc`.                                                            *)

(* Room was looked for, with what is done for room.                        *)
Rooms(m, X, n, r) ==
  /\ Good(r.memory, X) /\ Kept(m, r.memory, X)
  /\ r = [memory |-> r.memory, found |-> r.found] /\ Finds(r, n)

(* No room for n words is left anywhere.                                   *)
NoRoom(m, n) ==
  /\ Run(m.heap, m.low) = {}
  /\ Cardinality(Words(m.space, Used(m.space))) + n > m.low

(* What `str_alloc` tries finds room, or there is none anywhere.           *)
LEMMA RoomForIs ==
  ASSUME NEW X, NEW m, Good(m, X), NEW n \in Nat, n > 0
  PROVE  /\ Rooms(m, X, n, RoomFor(m, n))
         /\ RoomFor(m, n).found = Nowhere => NoRoom(RoomFor(m, n).memory, n)
<1>1. CASE Hinted(m, n)
  <2> DEFINE r == [memory |-> m, found |-> m.hint]
  <2>1. RoomFor(m, n) = r
    BY <1>1, Zenon DEF RoomFor
  <2>2. /\ m.hint \in DOMAIN m.space /\ IsFree(m.space[m.hint])
        /\ m.space[m.hint].size >= n
    BY <1>1 DEF Hinted
  <2>3. r.found # Nowhere
    <3>1. Tiling(m.space, 0, m.low)
      BY DEF Good, Regions
    <3>2. m.hint \in Nat
      BY <2>2, <3>1, TilingIs
    <3> QED
      BY <3>2 DEF Nowhere
  <2>4. Rooms(m, X, n, r)
    BY <2>2, KeptSame DEF Rooms, Finds
  <2> QED
    BY <2>1, <2>3, <2>4
<1>2. CASE ~Hinted(m, n)
  <2> DEFINE first == Fit(Attempt(m, 1), n)
             second == FitAfter(first, 2, n)
             third == FitAfter(second, 3, n)
  <2>1. RoomFor(m, n) = third
    BY <1>2, Zenon DEF RoomFor
  <2>2. \A k : Attempt(k, 1) = k /\ Attempt(k, 2) = LhGive(k) /\ Attempt(k, 3) = StrCompact(k)
    BY DEF Attempt
  <2>3. Rooms(m, X, n, first)
    <3>1. first = Fit(m, n)
      BY <2>2, Zenon
    <3>2. Searches(m, X, n, Fit(m, n))
      BY FitIs
    <3> QED
      BY <3>1, <3>2 DEF Searches, Rooms
  <2> HIDE DEF first
  <2>4. /\ Rooms(m, X, n, second)
        /\ second.found = Nowhere => Run(second.memory.heap, second.memory.low) = {}
    <3>1. CASE first.found # Nowhere
      <4>1. second = first
        BY <3>1, Zenon DEF FitAfter
      <4> QED
        BY <2>3, <3>1, <4>1
    <3>2. CASE first.found = Nowhere
      <4> DEFINE k == LhGive(first.memory)
      <4>1. second = Fit(k, n)
        BY <2>2, <3>2, Zenon DEF FitAfter
      <4>2. Good(first.memory, X) /\ Kept(m, first.memory, X)
        BY <2>3 DEF Rooms
      <4>3. Good(k, X) /\ Kept(first.memory, k, X) /\ Run(k.heap, k.low) = {}
        BY <4>2, LhGiveIs
      <4> HIDE DEF second, k
      <4>4. Searches(k, X, n, second)
        BY <4>1, <4>3, FitIs
      <4>5. Kept(m, k, X)
        BY <4>2, <4>3, KeptOn, Zenon
      <4>6. Kept(m, second.memory, X)
        BY <4>4, <4>5, KeptOn, Zenon DEF Searches
      <4> QED
        BY <4>3, <4>4, <4>6 DEF Searches, Rooms, Elsewhere
    <3> QED
      BY <3>1, <3>2
  <2> HIDE DEF second
  <2>5. Rooms(m, X, n, third) /\ (third.found = Nowhere => NoRoom(third.memory, n))
    <3>1. CASE second.found # Nowhere
      <4>1. third = second
        BY <3>1, Zenon DEF FitAfter
      <4> QED
        BY <2>4, <3>1, <4>1
    <3>2. CASE second.found = Nowhere
      <4> DEFINE k == StrCompact(second.memory)
      <4>1. third = Fit(k, n)
        BY <2>2, <3>2, Zenon DEF FitAfter
      <4>2. Good(second.memory, X) /\ Kept(m, second.memory, X)
        BY <2>4 DEF Rooms
      <4>3. /\ Good(k, X) /\ Kept(second.memory, k, X) /\ Packed(k)
            /\ k.low = second.memory.low /\ k.heap = second.memory.heap
        BY <4>2, StrCompactIs
      <4>4. Run(k.heap, k.low) = {}
        BY <2>4, <3>2, <4>3
      <4> HIDE DEF third, k
      <4>5. Searches(k, X, n, third) /\ (RoomAt(k, k.hint, n) => third.found # Nowhere)
        BY <4>1, <4>3, FitIs
      <4>6. Kept(m, k, X)
        BY <4>2, <4>3, KeptOn, Zenon
      <4>7. Kept(m, third.memory, X)
        BY <4>5, <4>6, KeptOn, Zenon DEF Searches
      <4>8. Rooms(m, X, n, third)
        BY <4>5, <4>7 DEF Searches, Rooms
      <4>9. ASSUME third.found = Nowhere PROVE NoRoom(third.memory, n)
        <5> DEFINE used == Cardinality(Words(k.space, Used(k.space)))
        <5>1. third.memory.heap = k.heap /\ third.memory.low = k.low
          BY <4>5 DEF Searches, Elsewhere
        <5>2. Words(third.memory.space, Used(third.memory.space)) = Words(k.space, Used(k.space))
          BY <4>5, SameWords DEF Searches
        <5>3. /\ used \in Nat /\ used <= k.low /\ k.hint = used
              /\ used < k.low => /\ used \in DOMAIN k.space /\ IsFree(k.space[used])
                                 /\ k.space[used].size = k.low - used
          BY <4>3 DEF Packed
        <5>4. k.low \in Nat
          <6>1. Tiling(k.space, 0, k.low)
            BY <4>3 DEF Good, Regions
          <6> QED
            BY <6>1, TilingIs
        <5>5. ~RoomAt(k, k.hint, n)
          BY <4>5, <4>9
        <5> HIDE DEF used
        <5>6. used + n > k.low
          <6>1. CASE used < k.low
            <7>1. ~(k.low - used >= n)
              BY <5>3, <5>5, <6>1 DEF RoomAt
            <7> QED
              BY <5>3, <5>4, <7>1
          <6>2. CASE used = k.low
            BY <5>3, <5>4, <6>2
          <6> QED
            BY <5>3, <5>4, <6>1, <6>2
        <5> QED
          BY <4>4, <5>1, <5>2, <5>6 DEF NoRoom, used
      <4> QED
        BY <4>8, <4>9
    <3> QED
      BY <3>1, <3>2
  <2> QED
    BY <2>1, <2>5
<1> QED
  BY <1>1, <1>2

(* Descriptors that own nothing may say anything; if they say nothing, all *)
(* is well.                                                                *)
LEMMA ResaidIs ==
  ASSUME NEW X, NEW m, Good(m, X), NEW n, IsMemory(n),
         n.space = m.space, n.hint = m.hint, n.low = m.low, n.heap = m.heap,
         n.sd \in [DOMAIN m.sd -> Descriptors],
         \A a \in DOMAIN m.sd \ X : n.sd[a] = m.sd[a]
  PROVE  /\ Good(n, X)
         /\ n.live = m.live /\ n.ad = m.ad => Kept(m, n, X)
         /\ (\A a \in DOMAIN m.sd : a \in X => n.sd[a].len = 0) => Good(n, {})
<1>1. Regions(m) /\ Described(m) /\ Owning(m, X)
  BY DEF Good
<1>2. Regions(n)
  BY <1>1 DEF Regions
<1>3. DOMAIN n.sd = DOMAIN m.sd
  OBVIOUS
<1>4. Described(n)
  <2>1. SameUsed(m.heap, n.heap)
    BY DEF SameUsed
  <2>2. ArrayWords(n) = ArrayWords(m)
    BY <2>1, SameArrays
  <2>3. DOMAIN m.sd = Statics \cup ArrayWords(m)
    BY <1>1 DEF Described
  <2> QED
    BY <2>2, <2>3 DEF Described
<1>5. \A a \in DOMAIN m.sd \ X : (Owns(n, a) <=> Owns(m, a)) /\ Read(n, a) = Read(m, a)
  BY DEF Owns, Read
<1>6. Owning(n, X)
  <2>1. \A a \in DOMAIN n.sd \ X : n.sd[a].len > 0 => Owns(n, a)
    BY <1>1, <1>3, <1>5 DEF Owning
  <2>2. \A e \in Used(n.space) :
          /\ n.space[e].holds \in DOMAIN n.sd \ X
          /\ n.sd[n.space[e].holds].len > 0
          /\ EntryOf(n.sd[n.space[e].holds]) = e
    BY <1>1, <1>3 DEF Owning
  <2> QED
    BY <2>1, <2>2 DEF Owning
<1>7. Good(n, X)
  BY <1>2, <1>4, <1>6 DEF Good
<1>8. n.live = m.live /\ n.ad = m.ad => Kept(m, n, X)
  BY <1>3, <1>5 DEF Kept, SameUsed
<1>9. ASSUME \A a \in DOMAIN m.sd : a \in X => n.sd[a].len = 0 PROVE Good(n, {})
  <2>1. Owning(n, {})
    <3>1. \A a \in DOMAIN n.sd \ {} : n.sd[a].len > 0 => Owns(n, a)
      <4> TAKE a \in DOMAIN n.sd \ {}
      <4>1. CASE a \in X
        BY <1>3, <1>9, <4>1
      <4>2. CASE a \notin X
        BY <1>6, <4>2 DEF Owning
      <4> QED
        BY <4>1, <4>2
    <3>2. \A e \in Used(n.space) :
            /\ n.space[e].holds \in DOMAIN n.sd \ {}
            /\ n.sd[n.space[e].holds].len > 0
            /\ EntryOf(n.sd[n.space[e].holds]) = e
      BY <1>6 DEF Owning
    <3> QED
      BY <3>1, <3>2 DEF Owning
  <2> QED
    BY <1>2, <1>4, <2>1 DEF Good
<1> QED
  BY <1>7, <1>8, <1>9

(* The memory with another string space, hint and descriptors.             *)
Retold(m, f, h, sd) == [m EXCEPT !.space = f, !.hint = h, !.sd = sd]

(* The rest is as it was.                                                  *)
LEMMA RetoldIs ==
  ASSUME NEW m, IsMemory(m), NEW f, NEW h, NEW sd
  PROVE  /\ IsMemory(Retold(m, f, h, sd))
         /\ Retold(m, f, h, sd).space = f /\ Retold(m, f, h, sd).hint = h
         /\ Retold(m, f, h, sd).low = m.low /\ Retold(m, f, h, sd).heap = m.heap
         /\ Retold(m, f, h, sd).sd = sd
         /\ Retold(m, f, h, sd).live = m.live /\ Retold(m, f, h, sd).ad = m.ad
<1> DEFINE k == [m EXCEPT !.space = f, !.hint = h, !.sd = sd]
<1>1. DOMAIN m = Fields
  BY DEF IsMemory
<1>2. IsMemory(k)
  BY <1>1 DEF IsMemory
<1>3. /\ k.space = f /\ k.hint = h /\ k.low = m.low /\ k.heap = m.heap /\ k.sd = sd
      /\ k.live = m.live /\ k.ad = m.ad
  BY <1>1 DEF Fields
<1>4. k = Retold(m, f, h, sd)
  BY DEF Retold
<1> HIDE DEF k
<1> QED
  BY <1>2, <1>3, <1>4

(* A memory is known by its fields.                                        *)
LEMMA MemoryKnown ==
  ASSUME NEW m, NEW n, IsMemory(m), IsMemory(n),
         n.space = m.space, n.hint = m.hint, n.low = m.low, n.heap = m.heap, n.sd = m.sd,
         n.live = m.live, n.ad = m.ad
  PROVE  n = m
<1>1. \A x \in Fields : n[x] = m[x]
  BY DEF Fields
<1> QED
  BY <1>1 DEF IsMemory

(* One address, as a set.                                                  *)
One(a) == {a}

(* From m to n a descriptor was given a free entry at x.                   *)
GivenAt(m, n, a, len, x) ==
  /\ Good(m, One(a)) /\ a \in DOMAIN m.sd /\ len \in 1 .. MaxLength
  /\ x \in DOMAIN m.space /\ IsFree(m.space[x])
  /\ IsMemory(n) /\ n.low = m.low /\ n.heap = m.heap /\ n.live = m.live /\ n.ad = m.ad
  /\ Tiling(n.space, 0, n.low) /\ DOMAIN m.space \subseteq DOMAIN n.space
  /\ \A e \in DOMAIN m.space : e # x => n.space[e] = m.space[e]
  /\ \A e \in DOMAIN n.space : n.space[e] \in SpaceEntries
  /\ \A e \in DOMAIN n.space : e \notin DOMAIN m.space => IsFree(n.space[e])
  /\ n.space[x].holds = a /\ n.space[x].size = len + 1
  /\ n.hint \in DOMAIN n.space \cup {n.low}
  /\ n.sd = [m.sd EXCEPT ![a] = [len |-> len, ptr |-> x + 1]]

(* Every other string is kept, and the owners are right once the string    *)
(* is as long as the descriptor says.                                      *)
LEMMA GivenIs ==
  ASSUME NEW m, NEW n, NEW a, NEW len, NEW x, GivenAt(m, n, a, len, x)
  PROVE  /\ Kept(m, n, One(a)) /\ n.sd[a].len = len /\ Read(n, a) = n.space[x].data
         /\ Len(n.space[x].data) = len => Good(n, {})
<1> USE DEF GivenAt, One
<1>1. Regions(m) /\ Described(m) /\ Owning(m, One(a)) /\ Tiling(m.space, 0, m.low)
  BY DEF Good, Regions
<1>2. /\ DOMAIN n.sd = DOMAIN m.sd /\ n.sd[a] = [len |-> len, ptr |-> x + 1]
      /\ \A b \in DOMAIN m.sd : b # a => n.sd[b] = m.sd[b]
  OBVIOUS
<1>3. x \in Nat /\ len \in Nat /\ len > 0 /\ EntryOf(n.sd[a]) = x /\ n.sd[a].len = len
  <2>1. x \in Nat
    BY <1>1, TilingIs
  <2> QED
    BY <1>2, <2>1, ConstantsAre DEF EntryOf
<1>4. ASSUME NEW b \in DOMAIN m.sd, b # a
      PROVE  /\ Read(n, b) = Read(m, b)
             /\ n.sd[b].len > 0 => Owns(n, b)
  <2>1. n.sd[b] = m.sd[b] /\ m.sd[b].len \in Nat /\ b # None
    BY <1>1, <1>2, <1>4, DescribedIs
  <2>2. CASE m.sd[b].len = 0
    BY <2>1, <2>2 DEF Read
  <2>3. CASE m.sd[b].len > 0
    <3> DEFINE e == EntryOf(m.sd[b])
    <3>1. Owns(m, b)
      BY <1>1, <1>4, <2>3 DEF Owning
    <3>2. e \in DOMAIN m.space /\ m.space[e].holds = b
      BY <3>1 DEF Owns
    <3>3. e # x
      BY <2>1, <3>2 DEF IsFree
    <3>4. n.space[e] = m.space[e] /\ e \in DOMAIN n.space
      BY <3>2, <3>3
    <3> QED
      BY <2>1, <3>1, <3>4 DEF Owns, Read
  <2> QED
    BY <2>1, <2>2, <2>3
<1>5. Kept(m, n, One(a))
  <2>1. SameUsed(m.heap, n.heap)
    BY DEF SameUsed
  <2> QED
    BY <1>2, <1>4, <2>1 DEF Kept
<1>6. Read(n, a) = n.space[x].data
  BY <1>3 DEF Read
<1>7. ASSUME Len(n.space[x].data) = len PROVE Good(n, {})
  <2>1. Owns(n, a)
    BY <1>3, <1>7 DEF Owns
  <2>2. ASSUME NEW e \in Used(n.space)
        PROVE  /\ n.space[e].holds \in DOMAIN n.sd \ {}
               /\ n.sd[n.space[e].holds].len > 0
               /\ EntryOf(n.sd[n.space[e].holds]) = e
    <3>1. e \in DOMAIN n.space /\ ~IsFree(n.space[e])
      BY DEF Used
    <3>2. CASE e = x
      BY <1>2, <1>3, <3>2
    <3>3. CASE e # x
      <4>1. n.space[e] = m.space[e] /\ e \in Used(m.space)
        BY <3>1, <3>3 DEF Used
      <4> DEFINE b == m.space[e].holds
      <4>2. b \in DOMAIN m.sd \ {a} /\ m.sd[b].len > 0 /\ EntryOf(m.sd[b]) = e
        BY <1>1, <4>1 DEF Owning
      <4> HIDE DEF b
      <4>3. n.sd[b] = m.sd[b]
        BY <1>2, <4>2
      <4> QED
        BY <1>2, <4>1, <4>2, <4>3 DEF b
    <3> QED
      BY <3>2, <3>3
  <2>3. Owning(n, {})
    <3>1. \A b \in DOMAIN n.sd \ {} : n.sd[b].len > 0 => Owns(n, b)
      BY <1>2, <1>4, <2>1
    <3> QED
      BY <2>2, <3>1 DEF Owning
  <2>4. Regions(n)
    BY <1>1 DEF Regions
  <2>5. Described(n)
    <3>1. SameUsed(m.heap, n.heap)
      BY DEF SameUsed
    <3>2. ArrayWords(n) = ArrayWords(m)
      BY <3>1, SameArrays
    <3>3. m.sd \in [Statics \cup ArrayWords(m) -> Descriptors]
      BY <1>1 DEF Described
    <3>4. [len |-> len, ptr |-> x + 1] \in Descriptors
      BY <1>3, ConstantsAre DEF Descriptors
    <3> HIDE DEF Descriptors
    <3>5. n.sd \in [Statics \cup ArrayWords(m) -> Descriptors]
      BY <3>3, <3>4
    <3> QED
      BY <3>2, <3>5 DEF Described
  <2> QED
    BY <2>3, <2>4, <2>5 DEF Good
<1> QED
  BY <1>3, <1>5, <1>6, <1>7

(* The memory with other descriptors.                                      *)
Resaid(m, sd) == [m EXCEPT !.sd = sd]

(* The rest is as it was.                                                  *)
LEMMA ResaidMemory ==
  ASSUME NEW m, IsMemory(m), NEW sd
  PROVE  /\ IsMemory(Resaid(m, sd))
         /\ Resaid(m, sd).space = m.space /\ Resaid(m, sd).hint = m.hint
         /\ Resaid(m, sd).low = m.low /\ Resaid(m, sd).heap = m.heap
         /\ Resaid(m, sd).sd = sd
         /\ Resaid(m, sd).live = m.live /\ Resaid(m, sd).ad = m.ad
<1> DEFINE k == [m EXCEPT !.sd = sd]
<1>1. DOMAIN m = Fields
  BY DEF IsMemory
<1>2. IsMemory(k)
  BY <1>1 DEF IsMemory
<1>3. /\ k.space = m.space /\ k.hint = m.hint /\ k.low = m.low /\ k.heap = m.heap /\ k.sd = sd
      /\ k.live = m.live /\ k.ad = m.ad
  BY <1>1 DEF Fields
<1>4. k = Resaid(m, sd)
  BY DEF Resaid
<1> HIDE DEF k
<1> QED
  BY <1>2, <1>3, <1>4

(* The entry a descriptor is given, with its string, and what is left.     *)
Handed(f, x, len, a, string) ==
  LET taken == With(f, x, [holds |-> a, size |-> len + 1, data |-> string])
      rest == f[x].size - (len + 1)
  IN  IF rest > 0 THEN With(taken, x + (len + 1), FreeEntry(rest)) ELSE taken

(* It tiles what the free entry did.                                       *)
LEMMA HandedIs ==
  ASSUME NEW f, NEW to, Tiling(f, 0, to), NEW len \in Nat, NEW x \in DOMAIN f,
         f[x].size >= len + 1, NEW a, NEW string
  PROVE  LET g == Handed(f, x, len, a, string)
         IN  /\ Tiling(g, 0, to) /\ DOMAIN f \subseteq DOMAIN g
             /\ \A e \in DOMAIN f : e # x => g[e] = f[e]
             /\ \A e \in DOMAIN g : e \notin DOMAIN f =>
                  g[e] = FreeEntry(f[x].size - (len + 1)) /\ f[x].size - (len + 1) \in Nat
             /\ g[x] = [holds |-> a, size |-> len + 1, data |-> string]
             /\ x + (len + 1) \in DOMAIN g \cup {to}
<1> DEFINE d == [holds |-> a, size |-> len + 1, data |-> string]
           n == len + 1
           rest == f[x].size - n
           g == Handed(f, x, len, a, string)
<1>1. d.size = n /\ n \in Nat /\ 0 < n /\ FreeEntry(rest).size = rest
  BY FreeEntryIs
<1>2. x \in Nat /\ f[x].size \in Nat /\ rest \in Nat /\ End(f, x) = f[x].size + x
      /\ End(f, x) \in DOMAIN f \cup {to}
  BY TilingIs
<1>3. CASE rest > 0
  <2>1. g = With(With(f, x, d), x + n, FreeEntry(rest))
    BY <1>3, Zenon DEF Handed
  <2>2. n < f[x].size
    BY <1>1, <1>2, <1>3
  <2>3. /\ Tiling(g, 0, to) /\ DOMAIN g = DOMAIN f \cup {x + n}
        /\ g[x] = d /\ g[x + n] = FreeEntry(rest)
        /\ \A e \in DOMAIN f : e # x => g[e] = f[e]
    <3> HIDE DEF g, d, n
    <3>1. n \in Nat /\ 0 < n /\ n < f[x].size /\ d.size = n /\ FreeEntry(rest).size = f[x].size - n
      BY <1>1, <2>2
    <3> DEFINE r == FreeEntry(rest)
    <3>2. r.size = f[x].size - n /\ g = With(With(f, x, d), x + n, r)
      BY <2>1, <3>1
    <3> HIDE DEF r, rest
    <3>3. Tiling(g, 0, to) /\ Splits(f, x, n, d, r, g)
      BY <3>1, <3>2, SplitIs
    <3>4. /\ Tiling(g, 0, to) /\ DOMAIN g = DOMAIN f \cup {x + n}
          /\ g[x] = d /\ g[x + n] = r
          /\ \A e \in DOMAIN f : e # x => g[e] = f[e]
      BY <3>3 DEF Splits
    <3> QED
      BY <3>4 DEF r
  <2> HIDE DEF g, d
  <2>4. \A e \in DOMAIN g : e \notin DOMAIN f => e = x + n
    BY <2>3
  <2>5. \A e \in DOMAIN g : e \notin DOMAIN f => g[e] = FreeEntry(rest) /\ rest \in Nat
    BY <1>2, <2>3, <2>4
  <2>6. x + n \in DOMAIN g \cup {to} /\ DOMAIN f \subseteq DOMAIN g
    BY <2>3
  <2> QED
    BY <2>3, <2>5, <2>6, Zenon DEF g, d
<1>4. CASE ~(rest > 0)
  <2>1. g = With(f, x, d)
    BY <1>4, Zenon DEF Handed
  <2>2. n = f[x].size
    BY <1>1, <1>2, <1>4
  <2>3. Tiling(g, 0, to)
    <3> HIDE DEF g, d, n
    <3> QED
      BY <1>1, <2>1, <2>2, ReplacedIs
  <2>4. /\ DOMAIN g = DOMAIN f /\ g[x] = d
        /\ \A e \in DOMAIN f : e # x => g[e] = f[e]
    <3> HIDE DEF g, d
    <3> QED
      BY <2>1 DEF With
  <2>5. x + n \in DOMAIN g \cup {to}
    BY <1>2, <2>2, <2>4
  <2> HIDE DEF g
  <2>6. \A e \in DOMAIN g : e \notin DOMAIN f => g[e] = FreeEntry(rest) /\ rest \in Nat
    BY <2>4
  <2>7. DOMAIN f \subseteq DOMAIN g
    BY <2>4
  <2> QED
    BY <2>3, <2>4, <2>5, <2>6, <2>7, Zenon DEF g, d
<1> QED
  BY <1>3, <1>4

(* The memory once a descriptor was given a free entry and its string.     *)
GivenTo(m, x, len, a, string) ==
  Retold(m, Handed(m.space, x, len, a, string), x + (len + 1),
         [m.sd EXCEPT ![a] = [len |-> len, ptr |-> x + 1]])

(* The descriptor has the string, and every other is kept.                 *)
LEMMA GivenToIs ==
  ASSUME NEW m, NEW a, Good(m, One(a)), a \in DOMAIN m.sd, NEW len \in 1 .. MaxLength,
         NEW x \in DOMAIN m.space, IsFree(m.space[x]), m.space[x].size >= len + 1,
         NEW string \in Strings
  PROVE  /\ Kept(m, GivenTo(m, x, len, a, string), One(a))
         /\ GivenTo(m, x, len, a, string).sd[a].len = len
         /\ Read(GivenTo(m, x, len, a, string), a) = string
         /\ Len(string) = len => Good(GivenTo(m, x, len, a, string), {})
<1> DEFINE g == Handed(m.space, x, len, a, string)
           d == [holds |-> a, size |-> len + 1, data |-> string]
           n == GivenTo(m, x, len, a, string)
           f == m.space
<1>1. IsMemory(m) /\ Regions(m) /\ Described(m) /\ Tiling(m.space, 0, m.low) /\ len \in Nat
  BY ConstantsAre DEF Good, Regions
<1>2. /\ Tiling(g, 0, m.low) /\ DOMAIN m.space \subseteq DOMAIN g
      /\ \A e \in DOMAIN f : e # x => g[e] = f[e]
      /\ \A e \in DOMAIN g : e \notin DOMAIN f =>
           g[e] = FreeEntry(f[x].size - (len + 1)) /\ f[x].size - (len + 1) \in Nat
      /\ g[x] = d
      /\ x + (len + 1) \in DOMAIN g \cup {m.low}
  BY <1>1, HandedIs
<1>3. /\ IsMemory(n) /\ n.space = g /\ n.hint = x + (len + 1) /\ n.low = m.low
      /\ n.heap = m.heap /\ n.sd = [m.sd EXCEPT ![a] = [len |-> len, ptr |-> x + 1]]
      /\ n.live = m.live /\ n.ad = m.ad
  <2> HIDE DEF g
  <2> QED
    BY <1>1, RetoldIs DEF GivenTo, g
<1> HIDE DEF n, g
<1>4. \A e \in DOMAIN n.space : e \notin DOMAIN m.space => IsFree(n.space[e])
  BY <1>2, <1>3, FreeEntryIs
<1>5. d \in SpaceEntries /\ d.holds = a /\ d.size = len + 1 /\ d.data = string
  <2>1. a \in Statics \cup Int
    BY <1>1, DescribedIs
  <2>2. len + 1 \in Nat
    BY <1>1
  <2> QED
    BY <2>1, <2>2 DEF SpaceEntries
<1> HIDE DEF d
<1>6. \A e \in DOMAIN g : g[e] \in SpaceEntries
  <2> TAKE e \in DOMAIN g
  <2>1. CASE e = x
    BY <1>2, <1>5, <2>1
  <2>2. CASE e # x /\ e \in DOMAIN m.space
    <3>1. m.space[e] \in SpaceEntries
      BY <1>1, <2>2 DEF Regions
    <3> QED
      BY <1>2, <2>2, <3>1
  <2>3. CASE e \notin DOMAIN m.space
    BY <1>2, <2>3, FreeEntries
  <2> QED
    BY <2>1, <2>2, <2>3
<1>7. n.space[x] = d
  BY <1>2, <1>3
<1>8. /\ n.space[x].holds = a /\ n.space[x].size = len + 1 /\ n.space[x].data = string
  BY <1>5, <1>7
<1>9. /\ Tiling(n.space, 0, n.low) /\ DOMAIN m.space \subseteq DOMAIN n.space
      /\ \A e \in DOMAIN m.space : e # x => n.space[e] = m.space[e]
      /\ \A e \in DOMAIN n.space : n.space[e] \in SpaceEntries
      /\ n.hint \in DOMAIN n.space \cup {n.low}
  BY <1>2, <1>3, <1>6
<1>10. /\ Kept(m, n, One(a)) /\ n.sd[a].len = len /\ Read(n, a) = n.space[x].data
       /\ Len(n.space[x].data) = len => Good(n, {})
  <2>1. Good(m, One(a)) /\ a \in DOMAIN m.sd /\ len \in 1 .. MaxLength
    OBVIOUS
  <2>2. GivenAt(m, n, a, len, x)
    BY <1>3, <1>4, <1>8, <1>9, <2>1 DEF GivenAt
  <2> QED
    BY <2>2, GivenIs
<1> QED
  BY <1>8, <1>10 DEF n

(* A null descriptor is one, of the empty string.                          *)
LEMMA NulIs ==
  /\ Nul \in Descriptors /\ Nul.len = 0
  /\ <<>> \in Strings /\ Len(<<>>) = 0
<1>1. <<>> \in [1 .. 0 -> Characters] /\ 0 \in 0 .. MaxLength
  BY ConstantsAre
<1> QED
  BY <1>1 DEF Nul, Descriptors, Strings

(* The string was given to the descriptor, and every other is kept.        *)
StringGiven(m, n, a, string) ==
  /\ Good(n, {}) /\ Kept(m, n, One(a))
  /\ Read(n, a) = string /\ n.sd[a].len = Len(string)

(* What `str_alloc` answers: an entry for the string of that length there  *)
(* will be, or that there is no room for it.                               *)
Allocated(m, a, len, r) ==
  /\ r.found = Nowhere => /\ Good(r.memory, {}) /\ Kept(m, r.memory, One(a))
                          /\ r.memory.sd[a] = Nul /\ NoRoom(r.memory, len + 1)
  /\ r.found # Nowhere =>
       /\ Kept(m, r.memory, One(a))
       /\ \A string \in Strings :
            Len(string) = len => StringGiven(m, Written(r, string), a, string)

(* `take`, and then the string is written.                                 *)
LEMMA WrittenIs ==
  ASSUME NEW m, NEW a, Good(m, One(a)), a \in DOMAIN m.sd, NEW len \in 1 .. MaxLength,
         NEW x \in DOMAIN m.space, IsFree(m.space[x]), m.space[x].size >= len + 1,
         NEW r, r = [memory |-> [Taken(m, x, len + 1, a) EXCEPT
                                   !.sd[a] = [len |-> len, ptr |-> x + 1]],
                     found |-> x]
  PROVE  /\ r.memory = GivenTo(m, x, len, a, <<>>)
         /\ \A string : Written(r, string) = GivenTo(m, x, len, a, string)
<1> DEFINE g(s) == Handed(m.space, x, len, a, s)
           d(s) == [holds |-> a, size |-> len + 1, data |-> s]
           sd == [m.sd EXCEPT ![a] = [len |-> len, ptr |-> x + 1]]
           rest == m.space[x].size - (len + 1)
           k == Taken(m, x, len + 1, a)
           n == [k EXCEPT !.sd[a] = [len |-> len, ptr |-> x + 1]]
<1>1. /\ IsMemory(m) /\ DOMAIN m = Fields /\ Tiling(m.space, 0, m.low) /\ len \in Nat
      /\ x \in Nat
  <2>1. IsMemory(m) /\ Tiling(m.space, 0, m.low) /\ len \in Nat
    BY ConstantsAre DEF Good, Regions
  <2>2. x \in Nat
    BY <2>1, TilingIs
  <2> QED
    BY <2>1, <2>2 DEF IsMemory
<1>2. /\ k.space = g(<<>>) /\ k.hint = x + (len + 1) /\ k.low = m.low /\ k.heap = m.heap
      /\ k.sd = m.sd /\ k.live = m.live /\ k.ad = m.ad /\ DOMAIN k = Fields /\ IsMemory(k)
  <2> DEFINE taken == With(m.space, x, d(<<>>))
             f == IF rest > 0 THEN With(taken, x + (len + 1), FreeEntry(rest)) ELSE taken
             o == [m EXCEPT !.space = f, !.hint = x + (len + 1)]
  <2>1. k = o
    BY DEF Taken
  <2>2. f = g(<<>>)
    BY DEF Handed
  <2> HIDE DEF f, k, g
  <2>3. /\ o.space = f /\ o.hint = x + (len + 1) /\ o.low = m.low /\ o.heap = m.heap
        /\ o.sd = m.sd /\ o.live = m.live /\ o.ad = m.ad /\ DOMAIN o = Fields
    BY <1>1 DEF Fields
  <2>4. IsMemory(o)
    BY <1>1 DEF IsMemory
  <2> HIDE DEF o
  <2> QED
    BY <2>1, <2>2, <2>3, <2>4
<1> HIDE DEF k, g, rest
<1>3. /\ n.space = g(<<>>) /\ n.hint = x + (len + 1) /\ n.low = m.low /\ n.heap = m.heap
      /\ n.sd = sd /\ n.live = m.live /\ n.ad = m.ad /\ DOMAIN n = Fields /\ IsMemory(n)
  <2>1. /\ n.space = g(<<>>) /\ n.hint = x + (len + 1) /\ n.low = m.low /\ n.heap = m.heap
        /\ n.sd = sd /\ n.live = m.live /\ n.ad = m.ad /\ DOMAIN n = Fields
    BY <1>2 DEF Fields
  <2>2. IsMemory(n)
    BY <1>2 DEF IsMemory
  <2> QED
    BY <2>1, <2>2
<1>4. r.memory = n /\ r.found = x
  BY DEF k
<1> HIDE DEF n, sd
<1>5. ASSUME NEW s
      PROVE  /\ IsMemory(GivenTo(m, x, len, a, s))
             /\ GivenTo(m, x, len, a, s).space = g(s)
             /\ GivenTo(m, x, len, a, s).hint = x + (len + 1)
             /\ GivenTo(m, x, len, a, s).low = m.low
             /\ GivenTo(m, x, len, a, s).heap = m.heap
             /\ GivenTo(m, x, len, a, s).sd = sd
             /\ GivenTo(m, x, len, a, s).live = m.live
             /\ GivenTo(m, x, len, a, s).ad = m.ad
  <2>1. GivenTo(m, x, len, a, s) = Retold(m, g(s), x + (len + 1), sd)
    BY DEF GivenTo, g, sd
  <2> QED
    BY <1>1, <2>1, RetoldIs
<1>6. r.memory = GivenTo(m, x, len, a, <<>>)
  BY <1>3, <1>4, <1>5, MemoryKnown
<1>7. ASSUME NEW s PROVE Written(r, s) = GivenTo(m, x, len, a, s)
  <2> DEFINE o == [n EXCEPT !.space[x].data = s]
  <2>1. Written(r, s) = o
    BY <1>4 DEF Written
  <2>2. [g(<<>>) EXCEPT ![x].data = s] = g(s)
    <3>1. d(s) = [d(<<>>) EXCEPT !.data = s]
      OBVIOUS
    <3> DEFINE t(y) == With(m.space, x, d(y))
               u(y) == With(t(y), x + (len + 1), FreeEntry(rest))
    <3>2. x + (len + 1) # x
      BY <1>1
    <3> HIDE DEF d
    <3>3. /\ DOMAIN t(<<>>) = DOMAIN m.space /\ DOMAIN t(s) = DOMAIN m.space
          /\ t(<<>>)[x] = d(<<>>) /\ t(s)[x] = d(s)
          /\ \A e \in DOMAIN m.space : e # x => t(s)[e] = t(<<>>)[e]
          /\ t(s) = [e \in DOMAIN m.space |-> t(s)[e]]
          /\ t(<<>>) = [e \in DOMAIN m.space |-> t(<<>>)[e]]
      BY DEF With
    <3> HIDE DEF t
    <3>4. t(s) = [t(<<>>) EXCEPT ![x].data = s]
      <4> DEFINE v == [t(<<>>) EXCEPT ![x].data = s]
      <4>1. /\ v = [e \in DOMAIN m.space |-> v[e]] /\ v[x] = d(s)
            /\ \A e \in DOMAIN m.space : e # x => v[e] = t(<<>>)[e]
        BY <3>1, <3>3
      <4> HIDE DEF v
      <4>2. \A e \in DOMAIN m.space : v[e] = t(s)[e]
        BY <3>3, <4>1
      <4>3. v = t(s)
        BY <3>3, <4>1, <4>2
      <4> QED
        BY <4>3 DEF v
    <3>5. u(s) = [u(<<>>) EXCEPT ![x].data = s]
      <4> DEFINE v == [u(<<>>) EXCEPT ![x].data = s]
                 b == x + (len + 1)
                 D == DOMAIN m.space \cup {b}
      <4>1. /\ DOMAIN u(<<>>) = D /\ DOMAIN u(s) = D
            /\ u(<<>>)[b] = FreeEntry(rest) /\ u(s)[b] = FreeEntry(rest)
            /\ \A e \in DOMAIN m.space : e # b =>
                 u(s)[e] = t(s)[e] /\ u(<<>>)[e] = t(<<>>)[e]
            /\ u(s) = [e \in D |-> u(s)[e]]
            /\ u(<<>>) = [e \in D |-> u(<<>>)[e]]
        BY <3>3 DEF With
      <4> HIDE DEF u
      <4>2. u(<<>>)[x] = d(<<>>) /\ u(s)[x] = d(s)
        BY <3>2, <3>3, <4>1
      <4>3. /\ v = [e \in D |-> v[e]] /\ v[x] = d(s)
            /\ \A e \in D : e # x => v[e] = u(<<>>)[e]
        BY <3>1, <4>1, <4>2
      <4> HIDE DEF v
      <4>4. \A e \in D : v[e] = u(s)[e]
        BY <3>3, <4>1, <4>2, <4>3
      <4>5. v = u(s)
        BY <4>1, <4>3, <4>4
      <4> QED
        BY <4>5 DEF v
    <3>6. g(s) = (IF rest > 0 THEN u(s) ELSE t(s))
      BY DEF g, Handed, u, t, d, rest
    <3>7. g(<<>>) = (IF rest > 0 THEN u(<<>>) ELSE t(<<>>))
      BY DEF g, Handed, u, t, d, rest
    <3> HIDE DEF u
    <3> QED
      BY <3>4, <3>5, <3>6, <3>7
  <2>3. /\ o.space = g(s) /\ o.hint = x + (len + 1) /\ o.low = m.low /\ o.heap = m.heap
        /\ o.sd = sd /\ o.live = m.live /\ o.ad = m.ad
    BY <1>3, <2>2 DEF Fields
  <2>4. IsMemory(o)
    BY <1>3 DEF IsMemory
  <2> HIDE DEF o
  <2>5. o = GivenTo(m, x, len, a, s)
    BY <1>5, <2>3, <2>4, MemoryKnown
  <2> QED
    BY <2>1, <2>5
<1> QED
  BY <1>6, <1>7

(* `str_alloc`.                                                            *)
LEMMA StrAllocIs ==
  ASSUME NEW m, NEW a, Good(m, One(a)), a \in DOMAIN m.sd, NEW len \in 1 .. MaxLength
  PROVE  Allocated(m, a, len, StrAlloc(m, a, len))
<1> DEFINE sd == [m.sd EXCEPT ![a].len = len]
           k0 == [m EXCEPT !.sd[a].len = len]
           room == RoomFor(k0, len + 1)
           k == room.memory
           r == StrAlloc(m, a, len)
<1>1. /\ IsMemory(m) /\ Described(m) /\ DOMAIN m = Fields /\ len \in 0 .. MaxLength
      /\ len + 1 \in Nat /\ len + 1 > 0
  BY ConstantsAre DEF Good, IsMemory
<1>2. Good(k0, One(a)) /\ Kept(m, k0, One(a))
  <2>1. k0 = Resaid(m, sd)
    BY <1>1 DEF Resaid, Fields
  <2> HIDE DEF k0, sd
  <2>2. /\ IsMemory(k0) /\ k0.space = m.space /\ k0.hint = m.hint
        /\ k0.low = m.low /\ k0.heap = m.heap /\ k0.sd = sd
        /\ k0.live = m.live /\ k0.ad = m.ad
    BY <1>1, <2>1, ResaidMemory
  <2>3. sd \in [DOMAIN m.sd -> Descriptors] /\ \A b \in DOMAIN m.sd \ One(a) : sd[b] = m.sd[b]
    <3>1. m.sd[a].ptr \in Int /\ m.sd[a] = [len |-> m.sd[a].len, ptr |-> m.sd[a].ptr]
      BY <1>1, DescribedIs
    <3>2. [m.sd[a] EXCEPT !.len = len] = [len |-> len, ptr |-> m.sd[a].ptr]
      BY <3>1
    <3>3. [m.sd[a] EXCEPT !.len = len] \in Descriptors
      BY <1>1, <3>1, <3>2 DEF Descriptors
    <3>4. m.sd \in [DOMAIN m.sd -> Descriptors]
      BY <1>1 DEF Described
    <3> HIDE DEF Descriptors
    <3> QED
      BY <3>3, <3>4 DEF sd, One
  <2> QED
    BY <2>2, <2>3, ResaidIs
<1> HIDE DEF k0, sd
<1>3. /\ Rooms(k0, One(a), len + 1, room)
      /\ room.found = Nowhere => NoRoom(k, len + 1)
  BY <1>1, <1>2, RoomForIs
<1>4. r = Allotted(room, a, len)
  BY DEF StrAlloc, k0
<1>5. /\ Good(k, One(a)) /\ Kept(m, k, One(a)) /\ Finds(room, len + 1)
      /\ room = [memory |-> k, found |-> room.found] /\ a \in DOMAIN k.sd
  <2>1. /\ Good(k, One(a)) /\ Kept(k0, k, One(a)) /\ Finds(room, len + 1)
        /\ room = [memory |-> k, found |-> room.found]
    BY <1>3 DEF Rooms
  <2>2. Kept(m, k, One(a))
    BY <1>2, <2>1, KeptOn, Zenon
  <2>3. a \in DOMAIN k.sd
    BY <2>2 DEF Kept
  <2> QED
    BY <2>1, <2>2, <2>3
<1>6. IsMemory(k) /\ DOMAIN k = Fields /\ Described(k)
  <2> HIDE DEF k
  <2> QED
    BY <1>5 DEF Good, IsMemory
<1> HIDE DEF r, room
<1>7. CASE room.found = Nowhere
  <2> DEFINE o == [k EXCEPT !.sd[a] = Nul]
             sd2 == [k.sd EXCEPT ![a] = Nul]
  <2>1. r = [room EXCEPT !.memory.sd[a] = Nul]
    BY <1>4, <1>7, Zenon DEF Allotted
  <2>2. r.memory = o /\ r.found = Nowhere
    <3> DEFINE f == room.found
    <3>1. room = [memory |-> k, found |-> f]
      BY <1>5
    <3> HIDE DEF k, f, o
    <3>2. [room EXCEPT !.memory.sd[a] = Nul] = [memory |-> o, found |-> f]
      BY <3>1 DEF o
    <3> QED
      BY <1>7, <2>1, <3>2 DEF f
  <2> HIDE DEF k
  <2>3. o = Resaid(k, sd2)
    BY <1>6 DEF Resaid, Fields
  <2>4. /\ sd2 \in [DOMAIN k.sd -> Descriptors] /\ \A b \in DOMAIN k.sd \ One(a) : sd2[b] = k.sd[b]
        /\ sd2[a] = Nul
    <3>1. k.sd \in [DOMAIN k.sd -> Descriptors]
      BY <1>6 DEF Described
    <3> QED
      BY <1>5, <3>1, NulIs DEF One
  <2> HIDE DEF o, sd2
  <2>5. /\ IsMemory(o) /\ o.space = k.space /\ o.hint = k.hint
        /\ o.low = k.low /\ o.heap = k.heap /\ o.sd = sd2
        /\ o.live = k.live /\ o.ad = k.ad
    BY <1>6, <2>3, ResaidMemory
  <2>6. \A b \in DOMAIN k.sd : b \in One(a) => o.sd[b].len = 0
    BY <2>4, <2>5, NulIs DEF One
  <2>7. Kept(k, o, One(a)) /\ Good(o, {})
    BY <1>5, <2>4, <2>5, <2>6, ResaidIs
  <2>8. Kept(m, o, One(a))
    BY <1>5, <2>7, KeptOn, Zenon
  <2>9. NoRoom(o, len + 1)
    BY <1>3, <1>7, <2>5 DEF NoRoom, k
  <2> QED
    BY <2>2, <2>4, <2>5, <2>7, <2>8, <2>9 DEF Allocated, r
<1>8. CASE room.found # Nowhere
  <2> DEFINE x == room.found
             d == [len |-> len, ptr |-> x + 1]
  <2>1. /\ x \in DOMAIN k.space /\ IsFree(k.space[x]) /\ k.space[x].size >= len + 1
    BY <1>5, <1>8 DEF Finds
  <2>2. r = [memory |-> [Taken(k, x, len + 1, a) EXCEPT !.sd[a] = d], found |-> x]
    <3>1. room = [memory |-> k, found |-> x]
      BY <1>5
    <3>2. r = [room EXCEPT !.memory = [Taken(@, room.found, len + 1, a) EXCEPT
                                         !.sd[a] = [len |-> len, ptr |-> room.found + 1]]]
      BY <1>4, <1>8, Zenon DEF Allotted
    <3>3. r = [room EXCEPT !.memory = [Taken(room.memory, x, len + 1, a) EXCEPT !.sd[a] = d]]
      BY <3>2
    <3> DEFINE t == [Taken(k, x, len + 1, a) EXCEPT !.sd[a] = d]
    <3>4. r = [room EXCEPT !.memory = t]
      BY <3>3
    <3> HIDE DEF t, x, k
    <3>5. [room EXCEPT !.memory = t] = [memory |-> t, found |-> x]
      BY <3>1
    <3> QED
      BY <3>4, <3>5 DEF t
  <2> HIDE DEF k, x
  <2>3. /\ r.memory = GivenTo(k, x, len, a, <<>>)
        /\ \A string : Written(r, string) = GivenTo(k, x, len, a, string)
    BY <1>5, <2>1, <2>2, WrittenIs
  <2>4. r.found = x /\ x # Nowhere
    BY <1>8, <2>2 DEF x
  <2>5. ASSUME NEW string \in Strings
        PROVE  /\ Kept(m, GivenTo(k, x, len, a, string), One(a))
               /\ GivenTo(k, x, len, a, string).sd[a].len = len
               /\ Read(GivenTo(k, x, len, a, string), a) = string
               /\ Len(string) = len => Good(GivenTo(k, x, len, a, string), {})
    <3> DEFINE o == GivenTo(k, x, len, a, string)
    <3>1. /\ Kept(k, o, One(a)) /\ o.sd[a].len = len /\ Read(o, a) = string
          /\ Len(string) = len => Good(o, {})
      BY <1>5, <2>1, GivenToIs
    <3> HIDE DEF o
    <3>2. Kept(m, o, One(a))
      BY <1>5, <3>1, KeptOn, Zenon
    <3> QED
      BY <3>1, <3>2 DEF o
  <2>6. Kept(m, r.memory, One(a))
    BY <2>3, <2>5, NulIs
  <2>7. ASSUME NEW string \in Strings, Len(string) = len
        PROVE  StringGiven(m, Written(r, string), a, string)
    BY <2>3, <2>5, <2>7 DEF StringGiven
  <2> QED
    BY <2>4, <2>6, <2>7 DEF Allocated, r
<1> QED
  BY <1>7, <1>8 DEF r

(* Where the string of a descriptor is.                                    *)
LEMMA OwnsIs ==
  ASSUME NEW X, NEW m, Good(m, X), NEW a \in DOMAIN m.sd, a \notin X, m.sd[a].len > 0
  PROVE  /\ EntryOf(m.sd[a]) \in Used(m.space) /\ EntryOf(m.sd[a]) \in DOMAIN m.space
         /\ EntryOf(m.sd[a]) \in Nat /\ InSpace(m, m.sd[a])
         /\ m.space[EntryOf(m.sd[a])].holds = a
         /\ m.space[EntryOf(m.sd[a])].size = 1 + m.sd[a].len
         /\ Len(m.space[EntryOf(m.sd[a])].data) = m.sd[a].len
         /\ Read(m, a) = m.space[EntryOf(m.sd[a])].data
<1>1. Tiling(m.space, 0, m.low) /\ Described(m) /\ Owns(m, a)
  BY DEF Good, Regions, Owning
<1> DEFINE e == EntryOf(m.sd[a])
<1>2. /\ e \in DOMAIN m.space /\ m.space[e].holds = a /\ m.space[e].size = m.sd[a].len + 1
      /\ Len(m.space[e].data) = m.sd[a].len
  BY <1>1 DEF Owns
<1>3. a # None /\ m.sd[a].len \in Nat /\ m.sd[a].ptr \in Int
  BY <1>1, DescribedIs
<1>4. e \in Used(m.space)
  BY <1>2, <1>3 DEF Used, IsFree
<1>5. /\ e \in Nat /\ m.low \in Nat
      /\ End(m.space, e) <= m.low /\ End(m.space, e) = m.space[e].size + e
  BY <1>1, <1>2, TilingIs
<1>6. e + 1 = m.sd[a].ptr
  BY <1>3 DEF EntryOf
<1> HIDE DEF e
<1>7. m.sd[a].ptr < m.low
  BY <1>2, <1>3, <1>5, <1>6
<1>8. InSpace(m, m.sd[a]) /\ m.sd[a].len # 0
  BY <1>3, <1>7 DEF InSpace
<1>9. Read(m, a) = m.space[e].data
  BY <1>8 DEF Read, e
<1>10. m.space[e].size = 1 + m.sd[a].len
  BY <1>2, <1>3
<1> QED
  BY <1>2, <1>4, <1>5, <1>8, <1>9, <1>10 DEF e

(* `str_release`: the entries are free, and their descriptors own nothing. *)
LEMMA ReleasedIs ==
  ASSUME NEW m, Good(m, {}), NEW S, S \subseteq DOMAIN m.sd
  PROVE  /\ Good(Released(m, S), S) /\ Kept(m, Released(m, S), S)
         /\ Released(m, S).sd = m.sd /\ Released(m, S).low = m.low
         /\ Released(m, S).heap = m.heap
<1> DEFINE f == m.space
           owners(e) == {a \in S : InSpace(m, m.sd[a]) /\ EntryOf(m.sd[a]) = e}
           c(e) == CHOOSE a \in owners(e) : TRUE
           h(e) == IF owners(e) = {} THEN f[e] ELSE FreeEntry(1 + m.sd[c(e)].len)
           g == [e \in DOMAIN f |-> h(e)]
           n == [m EXCEPT !.space = g]
<1>1. IsMemory(m) /\ Regions(m) /\ Described(m) /\ Owning(m, {}) /\ Tiling(f, 0, m.low)
  BY DEF Good, Regions
<1>2. Released(m, S) = n
  BY DEF Released
<1>3. ASSUME NEW e, NEW a \in owners(e)
      PROVE  /\ a \in S /\ a \in DOMAIN m.sd /\ m.sd[a].len > 0 /\ EntryOf(m.sd[a]) = e
             /\ f[e].holds = a /\ f[e].size = 1 + m.sd[a].len /\ m.sd[a].len \in Nat
             /\ e \in Used(f)
  <2>1. a \in S /\ a \in DOMAIN m.sd /\ m.sd[a].len > 0 /\ EntryOf(m.sd[a]) = e
    BY DEF InSpace
  <2>2. m.sd[a].len \in Nat
    BY <1>1, <2>1, DescribedIs
  <2> HIDE DEF owners
  <2>3. f[e].holds = a /\ f[e].size = 1 + m.sd[a].len /\ e \in Used(f)
    BY <2>1, OwnsIs
  <2> QED
    BY <2>1, <2>2, <2>3
<1>4. ASSUME NEW e \in DOMAIN f, owners(e) # {}
      PROVE  c(e) \in owners(e)
  <2> HIDE DEF owners
  <2> QED
    BY <1>4
<1>5. ASSUME NEW a \in S, m.sd[a].len > 0 PROVE a \in owners(EntryOf(m.sd[a]))
  <2>1. InSpace(m, m.sd[a])
    BY <1>5, OwnsIs
  <2> QED
    BY <2>1
<1> HIDE DEF owners, c
<1>6. ASSUME NEW e \in DOMAIN f
      PROVE  /\ owners(e) = {} => g[e] = f[e]
             /\ owners(e) # {} => /\ g[e] = FreeEntry(f[e].size) /\ f[e].size \in Nat
                                  /\ f[e].holds \in S
             /\ g[e].size = f[e].size
  <2>1. CASE owners(e) = {}
    BY <2>1
  <2>2. CASE owners(e) # {}
    <3>1. g[e] = FreeEntry(1 + m.sd[c(e)].len)
      BY <2>2
    <3>2. /\ c(e) \in S /\ f[e].holds = c(e)
          /\ f[e].size = 1 + m.sd[c(e)].len /\ m.sd[c(e)].len \in Nat
      BY <1>3, <1>4, <2>2
    <3> HIDE DEF g, f
    <3>3. f[e].size \in Nat
      BY <3>2
    <3> QED
      BY <2>2, <3>1, <3>2, <3>3, FreeEntryIs
  <2> QED
    BY <2>1, <2>2
<1>7. DOMAIN g = DOMAIN f
  OBVIOUS
<1>8. /\ IsMemory(n) /\ n.space = g /\ n.hint = m.hint /\ n.low = m.low /\ n.heap = m.heap
      /\ n.sd = m.sd /\ n.live = m.live /\ n.ad = m.ad
  <2>1. DOMAIN m = Fields
    BY <1>1 DEF IsMemory
  <2> HIDE DEF g
  <2>2. IsMemory(n)
    BY <2>1 DEF IsMemory
  <2> QED
    BY <2>1, <2>2 DEF Fields
<1> HIDE DEF n, g
<1>9. Tiling(g, 0, m.low)
  <2> HIDE DEF f
  <2> QED
    BY <1>1, <1>6, <1>7, SameSizes
<1>10. \A e \in DOMAIN g : g[e] \in SpaceEntries
  <2> TAKE e \in DOMAIN g
  <2>1. f[e] \in SpaceEntries
    BY <1>1, <1>7 DEF Regions
  <2> QED
    BY <1>6, <1>7, <2>1, FreeEntries
<1>11. Regions(n)
  BY <1>1, <1>7, <1>8, <1>9, <1>10 DEF Regions
<1>12. Described(n)
  <2>1. SameUsed(m.heap, n.heap)
    BY <1>8 DEF SameUsed
  <2>2. ArrayWords(n) = ArrayWords(m)
    BY <2>1, SameArrays
  <2> QED
    BY <1>1, <1>8, <2>2 DEF Described
<1>13. ASSUME NEW a \in DOMAIN m.sd, a \notin S, m.sd[a].len > 0
       PROVE  Owns(n, a) /\ Read(n, a) = Read(m, a)
  <2> DEFINE e == EntryOf(m.sd[a])
  <2>1. e \in DOMAIN f /\ f[e].holds = a /\ Owns(m, a) /\ m.sd[a].len # 0
    BY <1>1, <1>13, OwnsIs DEF Owning
  <2>2. g[e] = f[e]
    BY <1>6, <1>13, <2>1
  <2> QED
    BY <1>7, <1>8, <2>1, <2>2 DEF Owns, Read
<1>14. ASSUME NEW e \in Used(g)
       PROVE  /\ e \in Used(f) /\ g[e] = f[e]
              /\ f[e].holds \in DOMAIN m.sd \ S /\ m.sd[f[e].holds].len > 0
              /\ EntryOf(m.sd[f[e].holds]) = e
  <2>1. e \in DOMAIN f /\ ~IsFree(g[e])
    BY <1>7 DEF Used
  <2>2. owners(e) = {}
    BY <1>6, <2>1, FreeEntryIs
  <2>3. g[e] = f[e] /\ e \in Used(f)
    BY <1>6, <2>1, <2>2 DEF Used
  <2>4. f[e].holds \in DOMAIN m.sd /\ m.sd[f[e].holds].len > 0 /\ EntryOf(m.sd[f[e].holds]) = e
    BY <1>1, <2>3 DEF Owning
  <2>5. f[e].holds \notin S
    BY <1>5, <2>2, <2>4
  <2> QED
    BY <2>3, <2>4, <2>5
<1>15. Owning(n, S)
  <2>1. \A a \in DOMAIN n.sd \ S : n.sd[a].len > 0 => Owns(n, a)
    BY <1>8, <1>13
  <2>2. \A e \in Used(n.space) :
          /\ n.space[e].holds \in DOMAIN n.sd \ S
          /\ n.sd[n.space[e].holds].len > 0
          /\ EntryOf(n.sd[n.space[e].holds]) = e
    BY <1>8, <1>14
  <2> QED
    BY <2>1, <2>2 DEF Owning
<1>16. Kept(m, n, S)
  <2>1. \A a \in DOMAIN m.sd \ S : n.sd[a].len = m.sd[a].len /\ Read(n, a) = Read(m, a)
    <3> TAKE a \in DOMAIN m.sd \ S
    <3>1. m.sd[a].len \in Nat
      BY <1>1, DescribedIs
    <3>2. CASE m.sd[a].len = 0
      BY <1>8, <3>2 DEF Read
    <3>3. CASE m.sd[a].len > 0
      BY <1>8, <1>13, <3>3
    <3> QED
      BY <3>1, <3>2, <3>3
  <2>2. SameUsed(m.heap, n.heap)
    BY <1>8 DEF SameUsed
  <2> QED
    BY <1>8, <2>1, <2>2 DEF Kept
<1>17. Good(n, S)
  BY <1>8, <1>11, <1>12, <1>15 DEF Good
<1> QED
  BY <1>2, <1>8, <1>16, <1>17

(* The descriptors of F were freed, and every other string is kept.        *)
Frees(m, n, F) ==
  /\ Good(n, {}) /\ n.live = m.live \ F /\ n.ad = m.ad /\ n.low = m.low /\ n.heap = m.heap
  /\ DOMAIN n.sd = DOMAIN m.sd
  /\ \A a \in DOMAIN m.sd \ F : n.sd[a].len = m.sd[a].len /\ Read(n, a) = Read(m, a)
  /\ \A a \in F : n.sd[a] = Nul

(* `str_tmp_free`.                                                         *)
LEMMA TmpFreedIs ==
  ASSUME NEW m, Good(m, {}), m.live \subseteq DOMAIN m.sd, NEW S
  PROVE  Frees(m, TmpFreed(m, S), S \cap m.live)
<1> DEFINE F == S \cap m.live
           r == Released(m, F)
           sd == [a \in DOMAIN r.sd |-> IF a \in F THEN Nul ELSE r.sd[a]]
           n == [r EXCEPT !.live = @ \ F, !.sd = sd]
<1>1. TmpFreed(m, S) = n
  BY DEF TmpFreed
<1>2. F \subseteq DOMAIN m.sd
  OBVIOUS
<1> HIDE DEF F
<1>3. Good(r, F) /\ Kept(m, r, F) /\ r.sd = m.sd /\ r.low = m.low /\ r.heap = m.heap
  BY <1>2, ReleasedIs
<1> HIDE DEF r
<1>4. IsMemory(r) /\ DOMAIN r = Fields /\ Described(r)
  BY <1>3 DEF Good, IsMemory
<1>5. /\ sd \in [DOMAIN r.sd -> Descriptors]
      /\ \A a \in DOMAIN r.sd \ F : sd[a] = r.sd[a]
      /\ \A a \in DOMAIN r.sd : a \in F => sd[a] = Nul /\ sd[a].len = 0
  <2>1. r.sd \in [DOMAIN r.sd -> Descriptors]
    BY <1>4 DEF Described
  <2> QED
    BY <2>1, NulIs
<1> HIDE DEF sd
<1>6. /\ IsMemory(n) /\ n.space = r.space /\ n.hint = r.hint /\ n.low = r.low /\ n.heap = r.heap
      /\ n.sd = sd /\ n.live = r.live \ F /\ n.ad = r.ad
  <2>1. IsMemory(n)
    BY <1>4 DEF IsMemory
  <2> QED
    BY <1>4, <2>1 DEF Fields
<1> HIDE DEF n
<1>7. Good(n, {})
  BY <1>3, <1>5, <1>6, ResaidIs
<1>8. \A a \in DOMAIN r.sd \ F : Read(n, a) = Read(r, a) /\ n.sd[a].len = r.sd[a].len
  BY <1>5, <1>6 DEF Read
<1>9. Frees(m, n, F)
  <2>1. DOMAIN n.sd = DOMAIN m.sd
    BY <1>3, <1>5, <1>6
  <2>2. \A a \in DOMAIN m.sd \ F : n.sd[a].len = m.sd[a].len /\ Read(n, a) = Read(m, a)
    BY <1>3, <1>8 DEF Kept
  <2>3. \A a \in F : n.sd[a] = Nul
    BY <1>2, <1>3, <1>5, <1>6
  <2>4. n.live = m.live \ F /\ n.ad = m.ad /\ n.low = m.low /\ n.heap = m.heap
    BY <1>3, <1>6 DEF Kept
  <2> QED
    BY <1>7, <2>1, <2>2, <2>3, <2>4 DEF Frees
<1> QED
  BY <1>1, <1>9 DEF F

(* A string given up, and the descriptor says so.                          *)
LEMMA GivenUpIs ==
  ASSUME NEW m, Good(m, {}), NEW a \in DOMAIN m.sd,
         NEW n, n = [Released(m, {a}) EXCEPT !.sd[a] = Nul]
  PROVE  StringGiven(m, n, a, <<>>)
<1> DEFINE S == {a}
           r == Released(m, S)
           sd == [r.sd EXCEPT ![a] = Nul]
           o == [r EXCEPT !.sd[a] = Nul]
<1>1. S \subseteq DOMAIN m.sd /\ One(a) = S
  BY DEF One
<1> HIDE DEF S
<1>2. Good(r, S) /\ Kept(m, r, S) /\ r.sd = m.sd
  BY <1>1, ReleasedIs
<1>3. n = o
  BY DEF S
<1> HIDE DEF r
<1>4. IsMemory(r) /\ DOMAIN r = Fields /\ Described(r)
  BY <1>2 DEF Good, IsMemory
<1>5. /\ sd \in [DOMAIN r.sd -> Descriptors] /\ \A b \in DOMAIN r.sd \ S : sd[b] = r.sd[b]
      /\ sd[a] = Nul /\ \A b \in DOMAIN r.sd : b \in S => sd[b].len = 0
  <2>1. r.sd \in [DOMAIN r.sd -> Descriptors]
    BY <1>4 DEF Described
  <2> QED
    BY <1>2, <2>1, NulIs DEF S
<1> HIDE DEF sd
<1>6. /\ IsMemory(o) /\ o.space = r.space /\ o.hint = r.hint /\ o.low = r.low /\ o.heap = r.heap
      /\ o.sd = sd /\ o.live = r.live /\ o.ad = r.ad
  <2>1. IsMemory(o)
    BY <1>4 DEF IsMemory
  <2> QED
    BY <1>4, <2>1 DEF Fields, sd
<1> HIDE DEF o
<1>7. Good(o, {}) /\ Kept(r, o, S)
  BY <1>2, <1>5, <1>6, ResaidIs
<1>8. Kept(m, o, S)
  BY <1>2, <1>7, KeptOn, Zenon
<1>9. o.sd[a].len = 0
  BY <1>5, <1>6, NulIs
<1>10. Read(o, a) = <<>>
  BY <1>9 DEF Read
<1> QED
  BY <1>1, <1>3, <1>7, <1>8, <1>9, <1>10, NulIs DEF StringGiven

(* From m to n descriptors moved: w says where each was, the entries of    *)
(* their strings follow, and no other has a string.                        *)
Rehung(m, n, X, w) ==
  /\ Good(m, X) /\ IsMemory(n) /\ n.low = m.low /\ n.hint = m.hint
  /\ Tiling(n.heap, n.low, TOP) /\ Described(n)
  /\ \A e \in DOMAIN n.heap : n.heap[e] \in HeapEntries /\ n.heap[e].size >= Smallest
  /\ DOMAIN n.space = DOMAIN m.space
  /\ \A e \in DOMAIN m.space :
       n.space[e] = [holds |-> n.space[e].holds, size |-> m.space[e].size,
                     data |-> m.space[e].data]
  /\ \A e \in DOMAIN m.space : IsFree(m.space[e]) => IsFree(n.space[e])
  /\ \A x \in DOMAIN w :
       /\ x \in DOMAIN n.sd /\ w[x] \in DOMAIN m.sd /\ w[x] \notin X /\ n.sd[x] = m.sd[w[x]]
       /\ m.sd[w[x]].len > 0 => n.space[EntryOf(m.sd[w[x]])].holds = x
  /\ \A x \in DOMAIN n.sd : x \notin DOMAIN w => n.sd[x].len = 0
  /\ \A a \in DOMAIN m.sd :
       a \notin X /\ m.sd[a].len > 0 => \E x \in DOMAIN w : w[x] = a

(* Each string is read from where its descriptor is by then.               *)
LEMMA RehungIs ==
  ASSUME NEW m, NEW n, NEW X, NEW w, Rehung(m, n, X, w)
  PROVE  /\ Good(n, {})
         /\ \A x \in DOMAIN w : n.sd[x].len = m.sd[w[x]].len /\ Read(n, x) = Read(m, w[x])
<1> DEFINE f == m.space
           g == n.space
<1>1. /\ Good(m, X) /\ Regions(m) /\ Described(m) /\ Owning(m, X) /\ Tiling(f, 0, m.low)
      /\ \A e \in DOMAIN f : f[e] \in SpaceEntries
  BY DEF Rehung, Good, Regions
<1>2. /\ IsMemory(n) /\ n.low = m.low /\ n.hint = m.hint
      /\ Tiling(n.heap, n.low, TOP) /\ Described(n)
      /\ \A e \in DOMAIN n.heap : n.heap[e] \in HeapEntries /\ n.heap[e].size >= Smallest
      /\ DOMAIN g = DOMAIN f
  BY DEF Rehung
<1>3. /\ \A e \in DOMAIN f :
           g[e] = [holds |-> g[e].holds, size |-> f[e].size, data |-> f[e].data]
      /\ \A e \in DOMAIN f : IsFree(f[e]) => IsFree(g[e])
  BY DEF Rehung
<1>4. /\ \A x \in DOMAIN w :
           /\ x \in DOMAIN n.sd /\ w[x] \in DOMAIN m.sd /\ w[x] \notin X
           /\ n.sd[x] = m.sd[w[x]]
           /\ m.sd[w[x]].len > 0 => g[EntryOf(m.sd[w[x]])].holds = x
      /\ \A x \in DOMAIN n.sd : x \notin DOMAIN w => n.sd[x].len = 0
      /\ \A a \in DOMAIN m.sd :
           a \notin X /\ m.sd[a].len > 0 => \E x \in DOMAIN w : w[x] = a
  BY DEF Rehung
<1>5. \A e \in DOMAIN f : g[e].size = f[e].size /\ g[e].data = f[e].data
  <2> TAKE e \in DOMAIN f
  <2> DEFINE y == g[e].holds
             z == f[e].size
             u == f[e].data
  <2>1. g[e] = [holds |-> y, size |-> z, data |-> u]
    BY <1>3
  <2> HIDE DEF y, z, u
  <2>2. g[e].size = z /\ g[e].data = u
    BY <2>1
  <2> QED
    BY <2>2 DEF z, u
<1> HIDE DEF f, g
<1>6. Tiling(g, 0, n.low)
  BY <1>1, <1>2, <1>5, SameSizes
<1>7. ASSUME NEW x \in DOMAIN w, m.sd[w[x]].len > 0
      PROVE  Owns(n, x) /\ Read(n, x) = Read(m, w[x])
  <2> DEFINE a == w[x]
             e == EntryOf(m.sd[a])
  <2>1. a \in DOMAIN m.sd /\ a \notin X /\ n.sd[x] = m.sd[a] /\ g[e].holds = x
    BY <1>4, <1>7
  <2>2. /\ e \in DOMAIN f /\ f[e].size = 1 + m.sd[a].len /\ Len(f[e].data) = m.sd[a].len
        /\ Read(m, a) = f[e].data /\ m.sd[a].len \in Nat
    <3> HIDE DEF a
    <3> QED
      BY <1>1, <1>7, <2>1, OwnsIs, DescribedIs DEF f, a
  <2>3. /\ e \in DOMAIN g /\ g[e].size = n.sd[x].len + 1 /\ Len(g[e].data) = n.sd[x].len
        /\ n.sd[x].len # 0 /\ EntryOf(n.sd[x]) = e
    BY <1>2, <1>5, <1>7, <2>1, <2>2
  <2> HIDE DEF a, e
  <2>4. Read(n, x) = g[e].data
    BY <2>3 DEF Read, g
  <2>5. Owns(n, x)
    BY <2>1, <2>3 DEF Owns, g
  <2> QED
    BY <1>5, <2>2, <2>4, <2>5 DEF a
<1>8. ASSUME NEW e \in Used(g)
      PROVE  /\ g[e].holds \in DOMAIN n.sd \ {} /\ n.sd[g[e].holds].len > 0
             /\ EntryOf(n.sd[g[e].holds]) = e
  <2> DEFINE a == f[e].holds
  <2>1. e \in DOMAIN f /\ e \in Used(f)
    BY <1>2, <1>3 DEF Used
  <2>2. a \in DOMAIN m.sd /\ a \notin X /\ m.sd[a].len > 0 /\ EntryOf(m.sd[a]) = e
    BY <1>1, <2>1 DEF Owning, f
  <2> HIDE DEF a
  <2>3. PICK x \in DOMAIN w : w[x] = a
    BY <1>4, <2>2
  <2>4. g[e].holds = x /\ n.sd[x] = m.sd[a] /\ x \in DOMAIN n.sd
    BY <1>4, <2>2, <2>3
  <2> QED
    BY <2>2, <2>4
<1>9. \A e \in DOMAIN g : g[e] \in SpaceEntries
  <2> TAKE e \in DOMAIN g
  <2> DEFINE y == g[e].holds
             z == f[e].size
             u == f[e].data
  <2>1. y \in Statics \cup Int \cup {None}
    <3>1. CASE e \in Used(g)
      BY <1>2, <1>8, <3>1, DescribedIs
    <3>2. CASE e \notin Used(g)
      BY <3>2 DEF Used, IsFree
    <3> QED
      BY <3>1, <3>2
  <2>2. f[e] \in SpaceEntries
    BY <1>1, <1>2
  <2>3. z \in Nat /\ u \in Strings
    BY <2>2 DEF SpaceEntries
  <2>4. g[e] = [holds |-> y, size |-> z, data |-> u]
    BY <1>2, <1>3
  <2> HIDE DEF y, z, u
  <2> QED
    BY <2>1, <2>3, <2>4 DEF SpaceEntries
<1>10. Regions(n)
  <2>1. m.hint \in DOMAIN f \cup {m.low}
    BY <1>1 DEF Regions, f
  <2> QED
    BY <1>2, <1>6, <1>9, <2>1 DEF Regions, g
<1>11. Owning(n, {})
  <2>1. \A x \in DOMAIN n.sd \ {} : n.sd[x].len > 0 => Owns(n, x)
    <3> TAKE x \in DOMAIN n.sd \ {}
    <3>1. CASE x \in DOMAIN w
      BY <1>4, <1>7, <3>1
    <3>2. CASE x \notin DOMAIN w
      BY <1>4, <3>2
    <3> QED
      BY <3>1, <3>2
  <2> QED
    BY <1>8, <2>1 DEF Owning, g
<1>12. \A x \in DOMAIN w : n.sd[x].len = m.sd[w[x]].len /\ Read(n, x) = Read(m, w[x])
  <2> TAKE x \in DOMAIN w
  <2>1. n.sd[x] = m.sd[w[x]] /\ m.sd[w[x]].len \in Nat
    BY <1>1, <1>4, DescribedIs
  <2>2. CASE m.sd[w[x]].len > 0
    BY <1>7, <2>1, <2>2
  <2>3. CASE m.sd[w[x]].len = 0
    BY <2>1, <2>3 DEF Read
  <2> QED
    BY <2>1, <2>2, <2>3
<1>13. Good(n, {})
  BY <1>2, <1>10, <1>11 DEF Good
<1> QED
  BY <1>12, <1>13
-----------------------------------------------------------------------------
(* The heap.                                                               *)

(* The data of different entries are apart, and descriptors of the array's *)
(* are not the program's.                                                  *)
LEMMA DataApart ==
  ASSUME NEW m, Tiling(m.heap, m.low, TOP), NEW a \in DOMAIN m.heap, NEW x \in Data(m, a)
  PROVE  /\ x \in Int /\ a < x /\ x < End(m.heap, a)
         /\ \A b \in DOMAIN m.heap : x \in Data(m, b) => b = a
<1> DEFINE f == m.heap
<1>1. /\ \A b \in DOMAIN f :
           /\ b \in Nat /\ End(f, b) \in Nat
           /\ \A c \in DOMAIN f : c > b => c >= End(f, b)
      /\ HEADER \in Nat /\ HEADER > 0 /\ FOOTER \in Nat /\ FOOTER > 0
  BY TilingIs, ConstantsAre
<1>2. ASSUME NEW b \in DOMAIN f, x \in Data(m, b)
      PROVE  x \in Int /\ b < x /\ x < End(f, b)
  <2> DEFINE e == End(f, b)
  <2>1. x \in b + HEADER .. e - FOOTER - 1
    BY <1>2 DEF Data
  <2>2. b \in Nat /\ e \in Nat
    BY <1>1
  <2> HIDE DEF e, f
  <2> QED
    BY <1>1, <2>1, <2>2 DEF e
<1>3. \A b \in DOMAIN f : x \in Data(m, b) => b = a
  <2> SUFFICES ASSUME NEW b \in DOMAIN f, x \in Data(m, b), b # a PROVE FALSE
    OBVIOUS
  <2>1. x \in Int /\ b < x /\ x < End(f, b) /\ a < x /\ x < End(f, a)
    BY <1>2
  <2> HIDE DEF f
  <2> QED
    BY <1>1, <2>1 DEF f
<1> QED
  BY <1>2, <1>3

(* An entry was freed, with the descriptors there were in it.              *)
Emptied(m, a) == IF m.heap[a].holds = "ARRAY" THEN Data(m, a) ELSE {}

LhFreed(m, n, a) ==
  /\ Good(n, {}) /\ n.live = m.live /\ n.ad = m.ad
  /\ Used(n.heap) = Used(m.heap) \ One(a)
  /\ \A e \in Used(n.heap) : n.heap[e] = m.heap[e]
  /\ DOMAIN n.sd = DOMAIN m.sd \ Emptied(m, a)
  /\ \A x \in DOMAIN n.sd : n.sd[x] = m.sd[x] /\ Read(n, x) = Read(m, x)

(* `lh_free` of a file, or of an array without strings.                    *)
LEMMA LhFreeIs ==
  ASSUME NEW X, NEW m, Good(m, X), NEW a \in DOMAIN m.heap, X \subseteq Emptied(m, a),
         \A x \in Emptied(m, a) : x \in X \/ m.sd[x].len = 0
  PROVE  LhFreed(m, LhFree(m, a), a)
<1> DEFINE D == Emptied(m, a)
           f == m.heap
           g == With(f, a, FreeEntry(f[a].size))
           sd == Without(m.sd, D)
           n == [m EXCEPT !.heap = g, !.sd = sd]
<1>1. /\ IsMemory(m) /\ Regions(m) /\ Described(m) /\ Owning(m, X) /\ Tiling(f, m.low, TOP)
      /\ DOMAIN m = Fields
      /\ \A e \in DOMAIN f : f[e] \in HeapEntries /\ f[e].size >= Smallest
  BY DEF Good, Regions, IsMemory
<1>2. LhFree(m, a) = n
  BY DEF LhFree, Emptied
<1> HIDE DEF D, g, sd
<1>3. /\ IsMemory(n) /\ n.space = m.space /\ n.hint = m.hint /\ n.low = m.low /\ n.heap = g
      /\ n.sd = sd /\ n.live = m.live /\ n.ad = m.ad
  <2>1. IsMemory(n)
    BY <1>1 DEF IsMemory
  <2> QED
    BY <1>1, <2>1 DEF Fields
<1> HIDE DEF n
<1>4. /\ DOMAIN g = DOMAIN f /\ g[a] = FreeEntry(f[a].size)
      /\ \A e \in DOMAIN f : e # a => g[e] = f[e]
  BY DEF With, g
<1>5. Tiling(g, m.low, TOP)
  <2>1. FreeEntry(f[a].size).size = f[a].size
    BY FreeEntryIs
  <2> HIDE DEF f
  <2> QED
    BY <1>1, <2>1, ReplacedIs DEF g, f
<1>6. \A e \in DOMAIN g : g[e] \in HeapEntries /\ g[e].size >= Smallest
  <2>1. f[a].size \in Nat
    BY <1>1, TilingIs
  <2>2. FreeEntry(f[a].size) \in HeapEntries /\ FreeEntry(f[a].size).size = f[a].size
    BY <2>1, FreeEntries, FreeEntryIs
  <2> QED
    BY <1>1, <1>4, <2>2
<1>7. Regions(n)
  BY <1>1, <1>3, <1>5, <1>6 DEF Regions
<1>8. /\ Used(g) = Used(f) \ One(a)
      /\ \A e \in Used(g) : g[e] = f[e]
  <2>1. IsFree(g[a])
    BY <1>4, FreeEntryIs
  <2> HIDE DEF f
  <2> QED
    BY <1>4, <2>1 DEF Used, One
<1>9. ArrayWords(n) = ArrayWords(m) \ D
  <2>1. None # "ARRAY"
    BY SpaceAssumption
  <2>2. \A b : b \in Holding(n, "ARRAY") <=> b \in Holding(m, "ARRAY") /\ b # a
    <3>1. FreeEntry(f[a].size).holds # "ARRAY"
      BY <2>1, FreeEntryIs
    <3> HIDE DEF f
    <3> QED
      BY <1>3, <1>4, <3>1 DEF Holding, f
  <2>3. \A b \in Holding(m, "ARRAY") : b \in DOMAIN f /\ (b # a => Data(n, b) = Data(m, b))
    <3> TAKE b \in Holding(m, "ARRAY")
    <3>1. b \in DOMAIN f
      BY DEF Holding
    <3>2. b # a => g[b] = f[b]
      BY <1>4, <3>1
    <3> QED
      BY <1>3, <3>1, <3>2 DEF Data, End
  <2>4. ASSUME NEW x \in ArrayWords(n) PROVE x \in ArrayWords(m) /\ x \notin D
    <3>1. PICK b \in Holding(n, "ARRAY") : x \in Data(n, b)
      BY DEF ArrayWords
    <3>2. b \in Holding(m, "ARRAY") /\ b # a /\ x \in Data(m, b) /\ b \in DOMAIN f
      BY <2>2, <2>3, <3>1
    <3>3. x \notin Data(m, a)
      BY <1>1, <3>2, DataApart
    <3> QED
      BY <3>2, <3>3 DEF ArrayWords, D, Emptied
  <2>5. ASSUME NEW x \in ArrayWords(m), x \notin D PROVE x \in ArrayWords(n)
    <3>1. PICK b \in Holding(m, "ARRAY") : x \in Data(m, b)
      BY DEF ArrayWords
    <3>2. b # a
      BY <2>5, <3>1 DEF D, Emptied, Holding
    <3>3. b \in Holding(n, "ARRAY") /\ x \in Data(n, b)
      BY <2>2, <2>3, <3>1, <3>2
    <3> QED
      BY <3>3 DEF ArrayWords
  <2> QED
    BY <2>4, <2>5
<1>10. D \subseteq Int
  BY DEF D, Emptied, Data
<1>11. /\ DOMAIN sd = DOMAIN m.sd \ D /\ sd = [x \in DOMAIN m.sd \ D |-> m.sd[x]]
       /\ \A x \in DOMAIN sd : x \in DOMAIN m.sd /\ x \notin D /\ sd[x] = m.sd[x]
  BY DEF sd, Without
<1>12. Described(n)
  <2>1. m.sd \in [Statics \cup ArrayWords(m) -> Descriptors]
    BY <1>1 DEF Described
  <2>2. Statics \cap D = {}
    BY <1>10, SpaceAssumption
  <2>3. (Statics \cup ArrayWords(m)) \ D = Statics \cup ArrayWords(n)
    BY <1>9, <2>2
  <2> HIDE DEF Descriptors
  <2> QED
    BY <1>3, <1>11, <2>1, <2>3 DEF Described
<1>13. Owning(n, {})
  <2>1. \A x \in DOMAIN n.sd \ {} : n.sd[x].len > 0 => Owns(n, x)
    <3> SUFFICES ASSUME NEW x \in DOMAIN n.sd, n.sd[x].len > 0 PROVE Owns(n, x)
      OBVIOUS
    <3>1. x \in DOMAIN m.sd /\ x \notin X /\ n.sd[x] = m.sd[x]
      BY <1>3, <1>11 DEF D
    <3>2. Owns(m, x)
      BY <1>1, <3>1 DEF Owning
    <3> QED
      BY <1>3, <3>1, <3>2 DEF Owns
  <2>2. \A e \in Used(n.space) :
          /\ n.space[e].holds \in DOMAIN n.sd \ {} /\ n.sd[n.space[e].holds].len > 0
          /\ EntryOf(n.sd[n.space[e].holds]) = e
    <3> TAKE e \in Used(n.space)
    <3> DEFINE h == m.space[e].holds
    <3>1. h \in DOMAIN m.sd \ X /\ m.sd[h].len > 0 /\ EntryOf(m.sd[h]) = e
      BY <1>1, <1>3 DEF Owning
    <3>2. h \notin D
      BY <3>1 DEF D
    <3>3. h \in DOMAIN sd /\ sd[h] = m.sd[h]
      BY <1>11, <3>1, <3>2
    <3> QED
      BY <1>3, <3>1, <3>3
  <2> QED
    BY <2>1, <2>2 DEF Owning
<1>14. Good(n, {})
  BY <1>3, <1>7, <1>12, <1>13 DEF Good
<1>15. \A x \in DOMAIN n.sd : n.sd[x] = m.sd[x] /\ Read(n, x) = Read(m, x)
  BY <1>3, <1>11 DEF Read
<1> QED
  BY <1>2, <1>3, <1>8, <1>11, <1>14, <1>15 DEF LhFreed, D

(* `lh_take_from_strings`: only free entries change.                       *)
LEMMA LhTakeIs ==
  ASSUME NEW X, NEW m, Good(m, X)
  PROVE  Good(LhTake(m), X) /\ Kept(m, LhTake(m), X)
<1> DEFINE k == HintSet(m)
           h == k.hint
           low == k.low
           f == k.space
           g == k.heap
           room == low - h
           joins == low \in DOMAIN g /\ IsFree(g[low])
           size == IF joins THEN room + g[low].size ELSE room
           rest == IF joins THEN Without(g, {low}) ELSE g
           n == [k EXCEPT !.space = Without(@, {h}), !.low = h,
                          !.heap = With(IF joins THEN Without(@, {low}) ELSE @,
                                        h, FreeEntry(size))]
<1>1. /\ Good(k, X) /\ Kept(m, k, X) /\ Elsewhere(m, k) /\ k.space = m.space
      /\ \/ h = m.low
         \/ h \in DOMAIN m.space /\ IsFree(m.space[h]) /\ End(m.space, h) = m.low
  BY HintSetIs, Zenon
<1>2. low = m.low
  BY <1>1 DEF Elsewhere
<1>3. LhTake(m) = (IF room < Smallest THEN k ELSE n)
  BY DEF LhTake, TailGiven
<1>4. CASE room < Smallest
  <2>1. LhTake(m) = k
    BY <1>3, <1>4
  <2> QED
    BY <1>1, <2>1
<1>5. CASE ~(room < Smallest)
  <2>0. LhTake(m) = n
    BY <1>3, <1>5
  <2>1. /\ IsMemory(k) /\ Regions(k) /\ Tiling(f, 0, low) /\ Tiling(g, low, TOP)
        /\ \A e \in DOMAIN f : f[e] \in SpaceEntries
        /\ \A e \in DOMAIN g : g[e] \in HeapEntries /\ g[e].size >= Smallest
        /\ DOMAIN k = Fields
    BY <1>1, Zenon DEF Good, Regions, IsMemory
  <2>2. f = m.space
    BY <1>1
  <2> HIDE DEF k, f, g, joins, size, n
  <2>3. low \in Nat /\ h \in DOMAIN f \cup {low} /\ \A e \in DOMAIN f : e \in Nat /\ e < low
    <3>1. low \in Nat /\ \A e \in DOMAIN f : e \in Nat /\ e < low
      <4> HIDE DEF low
      <4> QED
        BY <2>1, TilingIs
    <3>2. h \in DOMAIN f \cup {low}
      BY <2>1 DEF Regions, f
    <3> QED
      BY <3>1, <3>2
  <2> HIDE DEF h, low
  <2>4. room \in Int /\ room >= Smallest /\ room > 0 /\ h \in Nat /\ h < low /\ h \in DOMAIN f
    <3>1. h \in Nat
      BY <2>3
    <3>2. Smallest \in Nat /\ Smallest > 0
      BY ConstantsAre DEF Smallest
    <3> HIDE DEF Smallest
    <3> QED
      BY <1>5, <2>3, <3>1, <3>2
  <2>5. IsFree(f[h]) /\ End(f, h) = low
    <3>1. h # m.low
      BY <1>2, <2>4
    <3> QED
      BY <1>1, <1>2, <2>2, <3>1
  <2>6. Tiling(Without(f, {h}), 0, h)
    BY <2>1, <2>4, <2>5, TailCutIs
  <2>7. size \in Nat /\ size >= Smallest /\ FreeEntry(size) \in HeapEntries
        /\ FreeEntry(size).size = size /\ IsFree(FreeEntry(size))
    <3>1. joins => g[low].size \in Nat
      BY <2>1, TilingIs DEF joins
    <3>2. Smallest \in Nat
      BY ConstantsAre DEF Smallest
    <3> HIDE DEF room, Smallest
    <3>3. size \in Nat /\ size >= Smallest
      BY <2>4, <3>1, <3>2 DEF size
    <3> QED
      BY <3>3, FreeEntries, FreeEntryIs
  <2>8. Tiling(With(rest, h, FreeEntry(size)), h, TOP) /\ h \notin DOMAIN g
    <3>1. CASE joins
      <4>1. low \in DOMAIN g /\ FreeEntry(size).size = low - h + g[low].size
        BY <2>7, <3>1 DEF joins, size
      <4> QED
        BY <2>1, <2>4, <3>1, <4>1, HeadJoinedIs
    <3>2. CASE ~joins
      <4>1. FreeEntry(size).size = low - h
        BY <2>7, <3>2 DEF size
      <4> QED
        BY <2>1, <2>4, <3>2, <4>1, HeadGrownIs
    <3> QED
      BY <3>1, <3>2
  <2> DEFINE gg == With(rest, h, FreeEntry(size))
             ff == Without(f, {h})
  <2>9. /\ IsMemory(n) /\ n.space = ff /\ n.hint = h /\ n.low = h /\ n.heap = gg
        /\ n.sd = k.sd /\ n.live = k.live /\ n.ad = k.ad
    <3>1. /\ n.space = Without(k.space, {h}) /\ n.hint = k.hint /\ n.low = h
          /\ n.heap = With(IF joins THEN Without(k.heap, {low}) ELSE k.heap, h, FreeEntry(size))
          /\ n.sd = k.sd /\ n.live = k.live /\ n.ad = k.ad
      BY <2>1 DEF n, Fields
    <3>2. IsMemory(n)
      BY <2>1 DEF n, IsMemory
    <3> QED
      BY <3>1, <3>2 DEF f, g, h
  <2> HIDE DEF gg, ff
  <2>10. /\ \A e \in DOMAIN ff : e \in DOMAIN f /\ e # h /\ ff[e] = f[e]
         /\ \A e \in DOMAIN f : e # h => e \in DOMAIN ff
    BY DEF ff, Without
  <2>11. /\ \A e \in DOMAIN gg : e = h \/ (e \in DOMAIN g /\ gg[e] = g[e] /\ (joins => e # low))
         /\ \A e \in DOMAIN g : ~(joins /\ e = low) => e \in DOMAIN gg /\ gg[e] = g[e]
         /\ h \in DOMAIN gg /\ gg[h] = FreeEntry(size)
    <3>1. /\ \A e \in DOMAIN rest : e \in DOMAIN g /\ rest[e] = g[e] /\ (joins => e # low)
          /\ \A e \in DOMAIN g : ~(joins /\ e = low) => e \in DOMAIN rest
      BY DEF Without
    <3> HIDE DEF rest
    <3>2. /\ DOMAIN gg = DOMAIN rest \cup {h} /\ gg[h] = FreeEntry(size)
          /\ \A e \in DOMAIN rest : e # h => gg[e] = rest[e]
      BY DEF gg, With
    <3> QED
      BY <2>8, <3>1, <3>2
  <2>12. Regions(n)
    <3>1. \A e \in DOMAIN gg : gg[e] \in HeapEntries /\ gg[e].size >= Smallest
      BY <2>1, <2>7, <2>11
    <3>2. \A e \in DOMAIN ff : ff[e] \in SpaceEntries
      BY <2>1, <2>10
    <3> QED
      BY <2>6, <2>8, <2>9, <3>1, <3>2 DEF Regions, ff, gg
  <2>13. SameUsed(f, ff)
    BY <2>5, <2>10 DEF SameUsed, Used
  <2>14. SameUsed(g, gg)
    <3>1. joins => IsFree(g[low])
      BY DEF joins
    <3>2. IsFree(gg[h]) /\ h \notin DOMAIN g
      BY <2>7, <2>8, <2>11
    <3>3. Used(gg) = Used(g)
      BY <2>11, <3>1, <3>2 DEF Used
    <3>4. \A e \in Used(g) : gg[e] = g[e]
      BY <2>11, <3>1 DEF Used
    <3> QED
      BY <3>3, <3>4 DEF SameUsed
  <2>15. SameUsed(k.space, n.space) /\ SameUsed(k.heap, n.heap)
    BY <2>9, <2>13, <2>14 DEF f, g
  <2>16. Good(k, X) /\ Kept(m, k, X)
    BY <1>1 DEF k
  <2>17. Good(n, X) /\ Kept(k, n, X)
    BY <2>9, <2>12, <2>15, <2>16, SameKeeps
  <2>18. Kept(m, n, X)
    BY <2>16, <2>17, KeptOn, Zenon
  <2> QED
    BY <2>0, <2>17, <2>18
<1> QED
  BY <1>4, <1>5

(* From f to g a new entry at x is in use, and the others are as they were.*)
UsedMore(f, g, x) ==
  /\ x \in DOMAIN g /\ x \notin Used(f) /\ Used(g) = Used(f) \cup One(x)
  /\ \A e \in Used(f) : g[e] = f[e]

(* `carve`.                                                                *)
LEMMA CarvedIs ==
  ASSUME NEW f, NEW from, NEW to, Tiling(f, from, to), NEW a \in DOMAIN f, IsFree(f[a]),
         NEW type \in {"ARRAY", "FILE"}, NEW size \in Nat, f[a].size >= size, size >= Smallest,
         \A e \in DOMAIN f : f[e] \in HeapEntries /\ f[e].size >= Smallest,
         NEW c, c = Carved(f, a, type, size)
  PROVE  /\ c = [heap |-> c.heap, at |-> c.at]
         /\ Tiling(c.heap, from, to) /\ UsedMore(f, c.heap, c.at)
         /\ c.heap[c.at].holds = type /\ c.heap[c.at].size \in Nat /\ c.heap[c.at].size >= size
         /\ \A e \in DOMAIN c.heap : c.heap[e] \in HeapEntries /\ c.heap[e].size >= Smallest
<1> DEFINE rest == f[a].size - size
           all == Entry(type, f[a].size)
           new == Entry(type, size)
           left == FreeEntry(rest)
           S == Smallest
<1>0. S \in Nat /\ S > 0
  BY ConstantsAre DEF Smallest
<1> HIDE DEF S
<1>1. a \in Nat /\ f[a].size \in Nat /\ rest \in Nat /\ a \notin Used(f)
  <2>1. a \in Nat /\ f[a].size \in Nat
    BY TilingIs
  <2> QED
    BY <2>1 DEF Used
<1>2. ASSUME NEW k \in Nat
      PROVE  /\ Entry(type, k) \in HeapEntries /\ ~IsFree(Entry(type, k))
             /\ Entry(type, k).size = k /\ Entry(type, k).holds = type
  <2>1. type # None
    BY SpaceAssumption
  <2> QED
    BY <2>1 DEF Entry, HeapEntries, IsFree
<1>3. /\ all.size = f[a].size /\ new.size = size
      /\ left.size = rest /\ left \in HeapEntries /\ IsFree(left)
  BY <1>1, <1>2, FreeEntries, FreeEntryIs
<1>e. \A e \in DOMAIN f : f[e] \in HeapEntries /\ f[e].size >= S
  BY DEF S
<1>4. CASE rest < S
  <2> DEFINE g == With(f, a, all)
  <2>1. c = [heap |-> g, at |-> a]
    BY <1>4 DEF Carved, S
  <2>2. Tiling(g, from, to)
    <3> HIDE DEF all
    <3> QED
      BY <1>3, ReplacedIs
  <2>3. /\ DOMAIN g = DOMAIN f /\ g[a] = all /\ \A e \in DOMAIN f : e # a => g[e] = f[e]
    BY DEF With
  <2> HIDE DEF g
  <2>4. c.heap = g /\ c.at = a
    BY <2>1
  <2>5. /\ g[a].holds = type /\ g[a].size = f[a].size /\ ~IsFree(g[a]) /\ g[a] \in HeapEntries
    BY <1>1, <1>2, <2>3
  <2> HIDE DEF all
  <2>6. UsedMore(f, g, a)
    <3>1. Used(g) = Used(f) \cup One(a)
      BY <2>3, <2>5 DEF Used, One
    <3>2. \A e \in Used(f) : g[e] = f[e]
      BY <1>1, <2>3 DEF Used
    <3> QED
      BY <1>1, <2>3, <3>1, <3>2 DEF UsedMore
  <2>7. \A e \in DOMAIN g : g[e] \in HeapEntries /\ g[e].size >= Smallest
    BY <2>3, <2>5
  <2> QED
    BY <1>1, <2>1, <2>2, <2>4, <2>5, <2>6, <2>7
<1>5. CASE ~(rest < S)
  <2> DEFINE g == With(With(f, a, left), a + rest, new)
             b == a + rest
  <2>1. c = [heap |-> g, at |-> b]
    BY <1>5 DEF Carved, S
  <2>2. 0 < rest /\ rest < f[a].size /\ new.size = f[a].size - rest /\ left.size = rest
    <3>1. size > 0
      BY <1>0 DEF S
    <3> HIDE DEF new, left
    <3> QED
      BY <1>0, <1>1, <1>3, <1>5, <3>1
  <2>3. Tiling(g, from, to) /\ Splits(f, a, rest, left, new, g) /\ b \notin DOMAIN f
    <3> HIDE DEF new, left, rest
    <3> QED
      BY <1>1, <2>2, SplitIs
  <2> HIDE DEF g
  <2>4. /\ DOMAIN g = DOMAIN f \cup {b} /\ g[a] = left /\ g[b] = new
        /\ \A e \in DOMAIN f : e # a => g[e] = f[e]
    BY <2>3 DEF Splits
  <2>5. c.heap = g /\ c.at = b
    BY <2>1
  <2>6. /\ g[b].holds = type /\ g[b].size = size /\ ~IsFree(g[b]) /\ g[b] \in HeapEntries
        /\ g[a] \in HeapEntries /\ IsFree(g[a]) /\ g[a].size = rest /\ rest >= S
    BY <1>0, <1>1, <1>2, <1>3, <1>5, <2>4
  <2> HIDE DEF left, new, b, rest
  <2>7. UsedMore(f, g, b)
    <3>1. Used(g) = Used(f) \cup One(b)
      BY <2>3, <2>4, <2>6 DEF Used, One
    <3>2. \A e \in Used(f) : g[e] = f[e]
      BY <1>1, <2>4 DEF Used
    <3> QED
      BY <2>3, <2>4, <3>1, <3>2 DEF UsedMore, Used
  <2>8. \A e \in DOMAIN g : g[e] \in HeapEntries /\ g[e].size >= Smallest
    BY <1>e, <2>4, <2>6 DEF S
  <2>9. size >= size
    OBVIOUS
  <2> QED
    BY <2>1, <2>3, <2>5, <2>6, <2>7, <2>8, <2>9
<1> QED
  BY <1>4, <1>5

(* There is a new entry, with null descriptors in an array's.              *)
NewEntry(m, n, x, type, size) ==
  /\ n.live = m.live /\ n.ad = m.ad
  /\ UsedMore(m.heap, n.heap, x)
  /\ n.heap[x].holds = type /\ n.heap[x].size \in Nat /\ n.heap[x].size >= size
  /\ DOMAIN n.sd = DOMAIN m.sd \cup Emptied(n, x)
  /\ Emptied(n, x) \cap DOMAIN m.sd = {}
  /\ \A a \in DOMAIN m.sd : n.sd[a].len = m.sd[a].len /\ Read(n, a) = Read(m, a)
  /\ \A a \in Emptied(n, x) : n.sd[a] = Nul

Entered(m, n, x, type, size) ==
  /\ Good(m, {}) /\ IsMemory(n) /\ n.space = m.space /\ n.hint = m.hint /\ n.low = m.low
  /\ n.live = m.live /\ n.ad = m.ad
  /\ Tiling(n.heap, n.low, TOP) /\ UsedMore(m.heap, n.heap, x)
  /\ n.heap[x].holds = type /\ n.heap[x].size \in Nat /\ n.heap[x].size >= size
  /\ \A e \in DOMAIN n.heap : n.heap[e] \in HeapEntries /\ n.heap[e].size >= Smallest
  /\ n.sd = [a \in DOMAIN m.sd \cup Emptied(n, x) |->
               IF a \in Emptied(n, x) THEN Nul ELSE m.sd[a]]

(* Nothing but the new entry is seen of it.                                *)
LEMMA EnteredIs ==
  ASSUME NEW m, NEW n, NEW x, NEW type \in {"ARRAY", "FILE"}, NEW size \in Nat,
         Entered(m, n, x, type, size)
  PROVE  Good(n, {}) /\ NewEntry(m, n, x, type, size)
<1> DEFINE D == Emptied(n, x)
           f == m.heap
           g == n.heap
<1>1. /\ Good(m, {}) /\ IsMemory(n) /\ n.space = m.space /\ n.hint = m.hint /\ n.low = m.low
      /\ n.live = m.live /\ n.ad = m.ad
      /\ Tiling(g, n.low, TOP) /\ UsedMore(f, g, x)
      /\ g[x].holds = type /\ g[x].size \in Nat /\ g[x].size >= size
      /\ \A e \in DOMAIN g : g[e] \in HeapEntries /\ g[e].size >= Smallest
  BY DEF Entered
<1>2. n.sd = [a \in DOMAIN m.sd \cup D |-> IF a \in D THEN Nul ELSE m.sd[a]]
  BY DEF Entered
<1>3. Regions(m) /\ Described(m) /\ Owning(m, {})
  BY <1>1 DEF Good
<1>4. x \in DOMAIN g /\ x \notin Used(f) /\ Used(g) = Used(f) \cup {x}
      /\ \A e \in Used(f) : g[e] = f[e]
  BY <1>1 DEF UsedMore, One
<1>5. Regions(n)
  BY <1>1, <1>3 DEF Regions
<1>6. D \subseteq Int
  BY DEF Emptied, Data
<1>n. None # "ARRAY" /\ None # "FILE"
  BY SpaceAssumption
<1>7. /\ \A b \in Holding(m, "ARRAY") : /\ b \in Used(f) /\ b \in DOMAIN f
                                        /\ Data(n, b) = Data(m, b)
      /\ \A b : b \in Holding(n, "ARRAY") <=>
                  b \in Holding(m, "ARRAY") \/ (b = x /\ type = "ARRAY")
  <2>1. \A b \in Holding(m, "ARRAY") : b \in Used(f) /\ b \in DOMAIN f /\ g[b] = f[b]
    BY <1>4, <1>n DEF Holding, Used, IsFree
  <2>2. \A b \in Holding(m, "ARRAY") : Data(n, b) = Data(m, b)
    BY <2>1 DEF Data, End
  <2>3. ASSUME NEW b \in Holding(n, "ARRAY"), b # x PROVE b \in Holding(m, "ARRAY")
    <3>1. b \in Used(g)
      BY <1>n DEF Holding, Used, IsFree
    <3>2. b \in Used(f) /\ g[b] = f[b]
      BY <1>4, <2>3, <3>1
    <3> QED
      BY <3>2 DEF Holding, Used
  <2>4. ASSUME NEW b \in Holding(m, "ARRAY") PROVE b \in Holding(n, "ARRAY")
    <3>1. b \in Used(g) /\ g[b] = f[b]
      BY <1>4, <2>1
    <3> QED
      BY <3>1 DEF Holding, Used
  <2>5. x \in Holding(n, "ARRAY") <=> type = "ARRAY"
    BY <1>1, <1>4 DEF Holding
  <2> QED
    BY <2>1, <2>2, <2>3, <2>4, <2>5
<1>8. D \cap DOMAIN m.sd = {}
  <2> SUFFICES ASSUME NEW a \in D, a \in DOMAIN m.sd PROVE FALSE
    OBVIOUS
  <2>1. a \in Int /\ a \notin Statics
    BY <1>6, SpaceAssumption
  <2>2. a \in ArrayWords(m)
    BY <1>3, <2>1, DescribedIs
  <2>3. PICK b \in Holding(m, "ARRAY") : a \in Data(m, b)
    BY <2>2 DEF ArrayWords
  <2>4. b \in Used(f) /\ a \in Data(n, b) /\ b \in DOMAIN g
    BY <1>4, <1>7, <2>3 DEF Used
  <2>5. a \in Data(n, x)
    BY DEF Emptied
  <2>6. b = x
    BY <1>1, <1>4, <2>4, <2>5, DataApart
  <2> QED
    BY <1>4, <2>4, <2>6
<1>9. ArrayWords(n) = ArrayWords(m) \cup D
  <2>1. ASSUME NEW a \in ArrayWords(n) PROVE a \in ArrayWords(m) \cup D
    <3>1. PICK b \in Holding(n, "ARRAY") : a \in Data(n, b)
      BY DEF ArrayWords
    <3>2. CASE b \in Holding(m, "ARRAY")
      BY <1>7, <3>1, <3>2 DEF ArrayWords
    <3>3. CASE b = x /\ type = "ARRAY"
      BY <1>1, <3>1, <3>3 DEF Emptied
    <3> QED
      BY <1>7, <3>2, <3>3
  <2>2. ASSUME NEW a \in ArrayWords(m) PROVE a \in ArrayWords(n)
    <3>1. PICK b \in Holding(m, "ARRAY") : a \in Data(m, b)
      BY DEF ArrayWords
    <3>2. b \in Holding(n, "ARRAY") /\ a \in Data(n, b)
      BY <1>7, <3>1
    <3> QED
      BY <3>2 DEF ArrayWords
  <2>3. ASSUME NEW a \in D PROVE a \in ArrayWords(n)
    <3>1. a \in Data(n, x) /\ type = "ARRAY"
      BY <1>1 DEF Emptied
    <3>2. x \in Holding(n, "ARRAY")
      BY <1>7, <3>1
    <3> QED
      BY <3>1, <3>2 DEF ArrayWords
  <2> QED
    BY <2>1, <2>2, <2>3
<1> HIDE DEF D
<1>10. /\ DOMAIN n.sd = DOMAIN m.sd \cup D
       /\ \A a \in DOMAIN m.sd : n.sd[a] = m.sd[a]
       /\ \A a \in D : n.sd[a] = Nul
  BY <1>2, <1>8
<1>11. Described(n)
  <2>1. m.sd \in [Statics \cup ArrayWords(m) -> Descriptors]
    BY <1>3 DEF Described
  <2>2. Statics \cup ArrayWords(n) = DOMAIN m.sd \cup D
    BY <1>9, <2>1
  <2> HIDE DEF Descriptors
  <2>3. n.sd \in [DOMAIN m.sd \cup D -> Descriptors]
    BY <1>2, <2>1, NulIs
  <2> QED
    BY <2>2, <2>3 DEF Described
<1>12. \A a \in DOMAIN m.sd : (Owns(n, a) <=> Owns(m, a)) /\ Read(n, a) = Read(m, a)
  BY <1>1, <1>10 DEF Owns, Read
<1>13. Owning(n, {})
  <2>1. \A a \in DOMAIN n.sd \ {} : n.sd[a].len > 0 => Owns(n, a)
    <3> SUFFICES ASSUME NEW a \in DOMAIN n.sd, n.sd[a].len > 0 PROVE Owns(n, a)
      OBVIOUS
    <3>1. a \in DOMAIN m.sd
      BY <1>10, NulIs
    <3>2. Owns(m, a)
      BY <1>3, <1>10, <3>1 DEF Owning
    <3> QED
      BY <1>12, <3>1, <3>2
  <2>2. \A e \in Used(n.space) :
          /\ n.space[e].holds \in DOMAIN n.sd \ {} /\ n.sd[n.space[e].holds].len > 0
          /\ EntryOf(n.sd[n.space[e].holds]) = e
    <3> TAKE e \in Used(n.space)
    <3> DEFINE h == m.space[e].holds
    <3>1. h \in DOMAIN m.sd /\ m.sd[h].len > 0 /\ EntryOf(m.sd[h]) = e
      BY <1>1, <1>3 DEF Owning
    <3> HIDE DEF h
    <3>2. h \in DOMAIN n.sd /\ n.sd[h] = m.sd[h]
      BY <1>10, <3>1
    <3> QED
      BY <1>1, <3>1, <3>2 DEF h
  <2> QED
    BY <2>1, <2>2 DEF Owning
<1>14. Good(n, {})
  BY <1>1, <1>5, <1>11, <1>13 DEF Good
<1>15. NewEntry(m, n, x, type, size)
  BY <1>1, <1>8, <1>10, <1>12 DEF NewEntry, D
<1> QED
  BY <1>14, <1>15

(* What `lh_alloc` answers: a new entry, or that there is no room for it.  *)
Makes(m, r, type, size) ==
  /\ Good(r.memory, {}) /\ r = [memory |-> r.memory, found |-> r.found]
  /\ r.found = Nowhere => Kept(m, r.memory, {})
  /\ r.found # Nowhere => NewEntry(m, r.memory, r.found, type, size)

(* `first_fit` in the heap.                                                *)
LEMMA MadeIs ==
  ASSUME NEW m, Good(m, {}), NEW type \in {"ARRAY", "FILE"}, NEW size \in Nat, size >= Smallest
  PROVE  Makes(m, Made(m, type, size), type, size)
<1> DEFINE fit == FirstFit(m.heap, m.low, TOP, size)
           g == fit.entries
           c == Carved(g, fit.found, type, size)
           r == Made(m, type, size)
<1>1. /\ IsMemory(m) /\ Regions(m) /\ Described(m) /\ Tiling(m.heap, m.low, TOP)
      /\ DOMAIN m = Fields
      /\ \A e \in DOMAIN m.heap : m.heap[e] \in HeapEntries /\ m.heap[e].size >= Smallest
  BY DEF Good, Regions, IsMemory
<1>2. Scanning(m.heap, m.low, TOP, size, fit)
  <2>1. m.low \in DOMAIN m.heap \cup {TOP} /\ TOP \in Int
    BY <1>1, TilingIs, ConstantsAre
  <2> QED
    BY <1>1, <2>1, FirstFitIs
<1>3. r = MadeIn(m, fit, type, size)
  BY DEF Made
<1> HIDE DEF fit, r
<1>4. /\ Tiling(g, m.low, TOP) /\ Merges(m.heap, g)
      /\ \/ fit.found = Nowhere
         \/ fit.found \in DOMAIN g /\ IsFree(g[fit.found]) /\ g[fit.found].size >= size
  BY <1>2 DEF Scanning
<1>5. SameUsed(m.heap, g)
  BY <1>4, MergesSame
<1>6. \A e \in DOMAIN g : g[e] \in HeapEntries /\ g[e].size >= Smallest
  <2> TAKE e \in DOMAIN g
  <2>1. /\ e \in DOMAIN m.heap
        /\ \/ g[e] = m.heap[e]
           \/ /\ g[e] = FreeEntry(g[e].size) /\ g[e].size \in Nat
              /\ g[e].size >= m.heap[e].size
    BY <1>4 DEF Merges
  <2>2. m.heap[e] \in HeapEntries /\ m.heap[e].size >= Smallest /\ m.heap[e].size \in Nat
    BY <1>1, <2>1, TilingIs
  <2>3. Smallest \in Nat
    BY ConstantsAre DEF Smallest
  <2>4. g[e] = FreeEntry(g[e].size) /\ g[e].size \in Nat => g[e] \in HeapEntries
    BY FreeEntries, Zenon
  <2>5. g[e].size \in Nat /\ g[e].size >= m.heap[e].size => g[e].size >= Smallest
    <3> HIDE DEF Smallest
    <3> QED
      BY <2>2, <2>3
  <2> QED
    BY <2>1, <2>2, <2>4, <2>5
<1>7. CASE fit.found = Nowhere
  <2> DEFINE n == [m EXCEPT !.heap = g]
  <2>1. r = [memory |-> n, found |-> Nowhere]
    BY <1>3, <1>7, Zenon DEF MadeIn
  <2>2. r.memory = n /\ r.found = Nowhere /\ r = [memory |-> r.memory, found |-> r.found]
    BY <2>1
  <2> HIDE DEF g
  <2>3. /\ IsMemory(n) /\ n.space = m.space /\ n.hint = m.hint /\ n.low = m.low /\ n.heap = g
        /\ n.sd = m.sd /\ n.live = m.live /\ n.ad = m.ad
    <3>1. IsMemory(n)
      BY <1>1 DEF IsMemory
    <3> QED
      BY <1>1, <3>1 DEF Fields
  <2> HIDE DEF n
  <2>4. Regions(n)
    BY <1>1, <1>4, <1>6, <2>3 DEF Regions
  <2>5. SameUsed(m.space, n.space) /\ SameUsed(m.heap, n.heap)
    BY <1>5, <2>3 DEF SameUsed
  <2>6. Good(n, {}) /\ Kept(m, n, {})
    BY <2>3, <2>4, <2>5, SameKeeps
  <2> QED
    BY <2>2, <2>6 DEF Makes, r
<1>8. CASE fit.found # Nowhere
  <2>1. r = MadeOf(m, c)
    BY <1>3, <1>8, Zenon DEF MadeIn
  <2>2. /\ fit.found \in DOMAIN g /\ IsFree(g[fit.found]) /\ g[fit.found].size >= size
    BY <1>4, <1>8
  <2> HIDE DEF g
  <2>3. /\ Tiling(c.heap, m.low, TOP) /\ UsedMore(g, c.heap, c.at)
        /\ c.heap[c.at].holds = type /\ c.heap[c.at].size \in Nat /\ c.heap[c.at].size >= size
        /\ \A e \in DOMAIN c.heap : c.heap[e] \in HeapEntries /\ c.heap[e].size >= Smallest
    <3> DEFINE d == fit.found
    <3> HIDE DEF d
    <3>1. c = Carved(g, d, type, size)
      BY DEF d
    <3>2. d \in DOMAIN g /\ IsFree(g[d]) /\ g[d].size >= size
      BY <2>2 DEF d
    <3> HIDE DEF c
    <3> QED
      BY <1>4, <1>6, <3>1, <3>2, CarvedIs
  <2> DEFINE k == [m EXCEPT !.heap = c.heap]
             x == c.at
             n == Zeroed(k, x)
  <2>4. r.memory = n /\ r.found = x /\ r = [memory |-> r.memory, found |-> r.found]
    BY <2>1 DEF MadeOf
  <2> HIDE DEF c
  <2>5. /\ IsMemory(k) /\ k.space = m.space /\ k.hint = m.hint /\ k.low = m.low /\ k.heap = c.heap
        /\ k.sd = m.sd /\ k.live = m.live /\ k.ad = m.ad /\ DOMAIN k = Fields
    <3>1. IsMemory(k) /\ DOMAIN k = Fields
      BY <1>1 DEF IsMemory
    <3> QED
      BY <1>1, <3>1 DEF Fields
  <2> HIDE DEF k
  <2> DEFINE D == Emptied(k, x)
             sd == [a \in DOMAIN k.sd \cup D |-> IF a \in D THEN Nul ELSE k.sd[a]]
             o == [k EXCEPT !.sd = sd]
  <2>6. n = o
    BY DEF Zeroed, Emptied
  <2> HIDE DEF n, D
  <2>7. /\ IsMemory(o) /\ o.space = k.space /\ o.hint = k.hint /\ o.low = k.low /\ o.heap = k.heap
        /\ o.sd = sd /\ o.live = k.live /\ o.ad = k.ad
    <3> HIDE DEF sd
    <3>1. IsMemory(o)
      BY <2>5 DEF IsMemory
    <3> QED
      BY <2>5, <3>1 DEF Fields
  <2>8. Emptied(n, x) = D
    BY <2>6, <2>7 DEF Emptied, Data, End, D
  <2> HIDE DEF o
  <2>9. UsedMore(m.heap, c.heap, x)
    <3>1. UsedMore(g, c.heap, x)
      BY <2>3
    <3> HIDE DEF x
    <3> QED
      BY <1>5, <3>1 DEF UsedMore, SameUsed
  <2>10. n.sd = [a \in DOMAIN m.sd \cup D |-> IF a \in D THEN Nul ELSE m.sd[a]]
    BY <2>5, <2>6, <2>7
  <2>11. Entered(m, n, x, type, size)
    <3>1. /\ IsMemory(n) /\ n.space = m.space /\ n.hint = m.hint /\ n.low = m.low
          /\ n.live = m.live /\ n.ad = m.ad /\ n.heap = c.heap
      BY <2>5, <2>6, <2>7
    <3> HIDE DEF sd
    <3> QED
      BY <2>3, <2>8, <2>9, <2>10, <3>1 DEF Entered, x
  <2>12. Good(n, {}) /\ NewEntry(m, n, x, type, size)
    <3> HIDE DEF x
    <3> QED
      BY <2>11, EnteredIs
  <2>13. x # Nowhere
    <3>1. x \in DOMAIN c.heap
      BY <2>3 DEF UsedMore
    <3>2. x \in Nat
      BY <2>3, <3>1, TilingIs
    <3> QED
      BY <3>2 DEF Nowhere
  <2> QED
    BY <2>4, <2>12, <2>13 DEF Makes, r
<1> QED
  BY <1>7, <1>8

(* An entry made after every string was kept.                              *)
LEMMA MakesAfter ==
  ASSUME NEW m, NEW k, Kept(m, k, {}), NEW r, NEW type, NEW size, Makes(k, r, type, size)
  PROVE  Makes(m, r, type, size)
<1> DEFINE n == r.memory
           x == r.found
<1>1. Kept(k, n, {}) => Kept(m, n, {})
  BY KeptOn, Zenon
<1>2. ASSUME NewEntry(k, n, x, type, size) PROVE NewEntry(m, n, x, type, size)
  <2>1. /\ SameUsed(m.heap, k.heap) /\ DOMAIN k.sd = DOMAIN m.sd
        /\ \A a \in DOMAIN m.sd \ {} : k.sd[a].len = m.sd[a].len /\ Read(k, a) = Read(m, a)
        /\ k.live = m.live /\ k.ad = m.ad
    BY DEF Kept
  <2> HIDE DEF n, x
  <2>2. UsedMore(m.heap, n.heap, x)
    BY <1>2, <2>1 DEF NewEntry, UsedMore, SameUsed
  <2> QED
    BY <1>2, <2>1, <2>2 DEF NewEntry
<1> QED
  BY <1>1, <1>2 DEF Makes

(* `lh_alloc`.                                                             *)
LEMMA LhAllocIs ==
  ASSUME NEW m, Good(m, {}), NEW type \in {"ARRAY", "FILE"}, NEW words \in Nat
  PROVE  Makes(m, LhAlloc(m, words, type), type, Smallest + words)
<1> DEFINE size == Smallest + words
           first == Made(m, type, size)
           second == MadeTaking(first, type, size)
           third == MadeCompacting(second, type, size)
<1>1. size \in Nat /\ size >= Smallest
  BY ConstantsAre DEF Smallest
<1>2. LhAlloc(m, words, type) = third
  BY DEF LhAlloc
<1> HIDE DEF size
<1>3. Makes(m, first, type, size)
  BY <1>1, MadeIs
<1> HIDE DEF first
<1>4. Makes(m, second, type, size)
  <2>1. CASE first.found # Nowhere
    <3>1. second = first
      BY <2>1, Zenon DEF MadeTaking
    <3> QED
      BY <1>3, <3>1
  <2>2. CASE first.found = Nowhere
    <3> DEFINE k == LhTake(first.memory)
    <3>1. second = Made(k, type, size)
      BY <2>2, Zenon DEF MadeTaking
    <3>2. Good(first.memory, {}) /\ Kept(m, first.memory, {})
      BY <1>3, <2>2 DEF Makes
    <3>3. Good(k, {}) /\ Kept(first.memory, k, {})
      BY <3>2, LhTakeIs
    <3> HIDE DEF second, k
    <3>4. Kept(m, k, {})
      BY <3>2, <3>3, KeptOn, Zenon
    <3>5. Makes(k, second, type, size)
      BY <1>1, <3>1, <3>3, MadeIs
    <3> QED
      BY <3>4, <3>5, MakesAfter
  <2> QED
    BY <2>1, <2>2
<1> HIDE DEF second
<1>5. Makes(m, third, type, size)
  <2>1. CASE second.found # Nowhere
    <3>1. third = second
      BY <2>1, Zenon DEF MadeCompacting
    <3> QED
      BY <1>4, <3>1
  <2>2. CASE second.found = Nowhere
    <3> DEFINE j == StrCompact(second.memory)
               k == LhTake(j)
    <3>1. third = Made(k, type, size)
      BY <2>2, Zenon DEF MadeCompacting
    <3>2. Good(second.memory, {}) /\ Kept(m, second.memory, {})
      BY <1>4, <2>2 DEF Makes
    <3>3. Good(j, {}) /\ Kept(second.memory, j, {})
      BY <3>2, StrCompactIs
    <3> HIDE DEF j
    <3>4. Good(k, {}) /\ Kept(j, k, {})
      BY <3>3, LhTakeIs
    <3> HIDE DEF third, k
    <3>5. Kept(m, j, {})
      BY <3>2, <3>3, KeptOn, Zenon
    <3>6. Kept(m, k, {})
      BY <3>4, <3>5, KeptOn, Zenon
    <3>7. Makes(k, third, type, size)
      BY <1>1, <3>1, <3>4, MadeIs
    <3> QED
      BY <3>6, <3>7, MakesAfter
  <2> QED
    BY <2>1, <2>2
<1> QED
  BY <1>2, <1>5 DEF size

(* The heap's entries in use at the top, and one free entry below.         *)
Slid(f, from) ==
  LET room == TOP - Cardinality(Words(f, Used(f))) - from
  IN  IF room > 0 THEN With(Placed(f, Ups(f)), from, FreeEntry(room)) ELSE Placed(f, Ups(f))

Slides(f, g) ==
  /\ \A a \in Used(f) : /\ Ups(f)[a] \in Used(g) /\ Ups(f)[a] \in DOMAIN g
                        /\ Ups(f)[a] \in Nat /\ a \in Nat /\ a \in DOMAIN f
                        /\ g[Ups(f)[a]] = f[a]
  /\ \A e \in Used(g) : \E a \in Used(f) : e = Ups(f)[a]

(* They tile the room, each as it was.                                     *)
LEMMA SlidIs ==
  ASSUME NEW f, NEW from, Tiling(f, from, TOP),
         \A e \in DOMAIN f : f[e] \in HeapEntries /\ f[e].size >= Smallest
  PROVE  /\ Tiling(Slid(f, from), from, TOP) /\ Slides(f, Slid(f, from))
         /\ \A e \in DOMAIN Slid(f, from) :
              Slid(f, from)[e] \in HeapEntries /\ Slid(f, from)[e].size >= Smallest
<1> DEFINE at == Ups(f)
           C == Cardinality(Words(f, Used(f)))
           lo == TOP - C
           room == TOP - C - from
           P == Placed(f, at)
           U == Used(f)
           S == Smallest
           g == Slid(f, from)
<1>1. /\ DOMAIN at = U /\ InARow(f, at, lo, TOP) /\ lo >= from
  BY UpsAre
<1>2. g = (IF room > 0 THEN With(P, from, FreeEntry(room)) ELSE P)
  BY DEF Slid
<1> HIDE DEF g
<1>3. /\ U \subseteq DOMAIN f /\ \A a \in U : ~IsFree(f[a])
      /\ from \in Nat /\ \A a \in DOMAIN f : a \in Nat /\ f[a].size \in Nat
      /\ TOP \in Nat /\ S \in Nat /\ S > 0
  <2>1. from \in Nat /\ \A a \in DOMAIN f : a \in Nat /\ f[a].size \in Nat
    BY TilingIs
  <2> QED
    BY <2>1, ConstantsAre DEF Used, Smallest
<1>4. /\ C \in Nat /\ \A R \in SUBSET DOMAIN f : Cardinality(Words(f, R)) <= TOP - from
  <2>1. C \in Nat
    BY <1>3, WordsAre
  <2>2. \A R \in SUBSET DOMAIN f : Cardinality(Words(f, R)) <= TOP - from
    BY WordsAre, Zenon
  <2> QED
    BY <2>1, <2>2
<1>5. /\ Tiling(P, lo, TOP) /\ DOMAIN P = {at[a] : a \in U}
      /\ \A a \in U : P[at[a]] = f[a]
      /\ \A a \in U : at[a] \in Nat /\ at[a] >= lo
  <2>1. /\ Tiling(P, lo, TOP) /\ DOMAIN P = {at[a] : a \in DOMAIN at}
        /\ \A a \in DOMAIN at : P[at[a]] = f[a]
    <3> HIDE DEF at, lo
    <3> QED
      BY <1>1, PlacedInARow
  <2>2. \A a \in DOMAIN at : at[a] \in Nat /\ lo <= at[a]
    <3> HIDE DEF at, lo
    <3> QED
      BY <1>1, Zenon DEF InARow
  <2> HIDE DEF U, at
  <2> QED
    BY <1>1, <1>3, <1>4, <2>1, <2>2
<1>e. \A e \in DOMAIN f : f[e] \in HeapEntries /\ f[e].size >= S
  BY DEF S
<1> HIDE DEF at, P, S, C
<1>6. \A e \in DOMAIN P : P[e] \in HeapEntries /\ P[e].size >= S /\ ~IsFree(P[e])
  BY <1>3, <1>5, <1>e
<1>7. room \in Int /\ room >= 0 /\ lo \in Nat
  BY <1>1, <1>3, <1>4
<1>8. CASE room > 0
  <2>1. room >= S
    <3>1. PICK a \in DOMAIN f : a \notin U
      <4> SUFFICES ASSUME U = DOMAIN f PROVE FALSE
        BY <1>3
      <4>1. Cardinality(Words(f, DOMAIN f)) = TOP - from
        BY AllWords
      <4>2. C = TOP - from
        BY <4>1 DEF C
      <4> QED
        BY <1>3, <1>4, <1>8, <4>2
    <3>2. Cardinality(Words(f, U \cup {a})) = C + f[a].size
      <4>1. U \in SUBSET DOMAIN f
        BY <1>3
      <4> HIDE DEF U
      <4> QED
        BY <3>1, <4>1, WordsWith DEF C, U
    <3>3. U \cup {a} \in SUBSET DOMAIN f
      BY <1>3
    <3>4. C + f[a].size <= TOP - from
      BY <1>4, <3>2, <3>3
    <3>5. f[a].size >= S /\ f[a].size \in Nat
      BY <1>3, <1>e
    <3> QED
      BY <1>3, <1>4, <3>4, <3>5
  <2> DEFINE free == FreeEntry(room)
  <2>2. g = With(P, from, free)
    BY <1>2, <1>8
  <2>3. free \in HeapEntries /\ free.size = room /\ IsFree(free) /\ free.size >= S
    BY <1>7, <2>1, FreeEntries, FreeEntryIs
  <2> HIDE DEF free
  <2>4. from < lo /\ free.size = lo - from
    BY <1>3, <1>4, <1>8, <2>3
  <2>5. Tiling(g, from, TOP) /\ from \notin DOMAIN P
    <3> HIDE DEF lo
    <3> QED
      BY <1>3, <1>5, <2>2, <2>4, HeadGrownIs
  <2>6. /\ DOMAIN g = DOMAIN P \cup {from} /\ g[from] = free
        /\ \A e \in DOMAIN P : g[e] = P[e]
    BY <2>2, <2>5 DEF With
  <2>7. \A e \in DOMAIN g : g[e] \in HeapEntries /\ g[e].size >= Smallest
    BY <1>6, <2>3, <2>6 DEF S
  <2>8. \A e : e \in Used(g) <=> e \in DOMAIN P
    BY <1>6, <2>3, <2>5, <2>6 DEF Used
  <2>9. Slides(f, g)
    <3>1. \A a \in U : at[a] \in DOMAIN P
      BY <1>5
    <3>2. \A e \in DOMAIN P : \E a \in U : e = at[a]
      BY <1>5
    <3> HIDE DEF U
    <3>3. \A a \in U : /\ at[a] \in Used(g) /\ at[a] \in DOMAIN g
                       /\ at[a] \in Nat /\ a \in Nat /\ a \in DOMAIN f /\ g[at[a]] = f[a]
      BY <1>3, <1>5, <2>6, <2>8, <3>1
    <3> QED
      BY <2>8, <3>2, <3>3 DEF Slides, at, U
  <2> QED
    BY <2>5, <2>7, <2>9 DEF g
<1>9. CASE ~(room > 0)
  <2>1. g = P /\ lo = from
    BY <1>2, <1>3, <1>4, <1>7, <1>9
  <2>2. Tiling(g, from, TOP)
    BY <1>5, <2>1
  <2>3. \A e \in DOMAIN g : g[e] \in HeapEntries /\ g[e].size >= Smallest
    BY <1>6, <2>1 DEF S
  <2>4. \A e : e \in Used(g) <=> e \in DOMAIN P
    BY <1>6, <2>1 DEF Used
  <2>5. Slides(f, g)
    <3>1. \A a \in U : at[a] \in DOMAIN P
      BY <1>5
    <3>2. \A e \in DOMAIN P : \E a \in U : e = at[a]
      BY <1>5
    <3> HIDE DEF U
    <3>3. \A a \in U : /\ at[a] \in Used(g) /\ at[a] \in DOMAIN g
                       /\ at[a] \in Nat /\ a \in Nat /\ a \in DOMAIN f /\ g[at[a]] = f[a]
      BY <1>3, <1>5, <2>1, <2>4, <3>1
    <3> QED
      BY <2>4, <3>2, <3>3 DEF Slides, at, U
  <2> QED
    BY <2>2, <2>3, <2>5 DEF g
<1> QED
  BY <1>8, <1>9

(* The owners that the entries of string space name moved by delta.        *)
OwnersShifted(m, n, S, delta) ==
  /\ IsMemory(n) /\ n.hint = m.hint /\ n.low = m.low /\ n.heap = m.heap
  /\ n.sd = m.sd /\ n.live = m.live /\ n.ad = m.ad
  /\ DOMAIN n.space = DOMAIN m.space
  /\ \A e \in DOMAIN m.space :
       n.space[e] = [holds |-> n.space[e].holds, size |-> m.space[e].size,
                     data |-> m.space[e].data]
  /\ \A e \in DOMAIN m.space : IsFree(m.space[e]) => IsFree(n.space[e])
  /\ \A a \in DOMAIN m.sd :
       m.sd[a].len > 0 =>
         n.space[EntryOf(m.sd[a])].holds = IF a \in S THEN a + delta ELSE a

(* `str_owner_moved`.                                                      *)
LEMMA OwnersMovedIs ==
  ASSUME NEW m, Good(m, {}), NEW S, S \subseteq DOMAIN m.sd, NEW delta
  PROVE  OwnersShifted(m, OwnersMoved(m, S, delta), S, delta)
<1> DEFINE theirs == {EntryOf(m.sd[a]) : a \in {b \in S : InSpace(m, m.sd[b])}}
           f == m.space
           g == [e \in DOMAIN f |->
                   IF e \in theirs THEN [f[e] EXCEPT !.holds = @ + delta] ELSE f[e]]
           n == [m EXCEPT !.space = g]
<1>1. IsMemory(m) /\ Regions(m) /\ Described(m) /\ Owning(m, {}) /\ DOMAIN m = Fields
  BY DEF Good, IsMemory
<1>2. OwnersMoved(m, S, delta) = n
  BY DEF OwnersMoved
<1>3. ASSUME NEW e \in theirs
      PROVE  e \in Used(f) /\ f[e].holds \in S
  <2>1. PICK a \in S : InSpace(m, m.sd[a]) /\ e = EntryOf(m.sd[a])
    OBVIOUS
  <2>2. a \in DOMAIN m.sd /\ m.sd[a].len > 0
    BY <2>1 DEF InSpace
  <2>3. e \in Used(f) /\ f[e].holds = a
    BY <2>1, <2>2, OwnsIs
  <2> QED
    BY <2>3
<1>4. ASSUME NEW a \in DOMAIN m.sd, m.sd[a].len > 0
      PROVE  /\ EntryOf(m.sd[a]) \in DOMAIN f /\ f[EntryOf(m.sd[a])].holds = a
             /\ EntryOf(m.sd[a]) \in theirs <=> a \in S
  <2>1. /\ EntryOf(m.sd[a]) \in DOMAIN f /\ f[EntryOf(m.sd[a])].holds = a
        /\ InSpace(m, m.sd[a])
    BY <1>4, OwnsIs
  <2>2. a \in S => EntryOf(m.sd[a]) \in theirs
    BY <2>1
  <2>3. EntryOf(m.sd[a]) \in theirs => a \in S
    <3> HIDE DEF theirs
    <3> QED
      BY <1>3, <2>1
  <2> QED
    BY <2>1, <2>2, <2>3
<1> HIDE DEF theirs
<1>5. ASSUME NEW e \in DOMAIN f
      PROVE  /\ g[e] = [holds |-> g[e].holds, size |-> f[e].size, data |-> f[e].data]
             /\ IsFree(f[e]) => IsFree(g[e])
             /\ g[e].holds = IF e \in theirs THEN f[e].holds + delta ELSE f[e].holds
  <2>1. f[e] \in SpaceEntries
    BY <1>1 DEF Regions
  <2> DEFINE y == f[e].holds
             z == f[e].size
             u == f[e].data
  <2>2. f[e] = [holds |-> y, size |-> z, data |-> u]
    BY <2>1 DEF SpaceEntries
  <2>3. CASE e \in theirs
    <3>1. g[e] = [f[e] EXCEPT !.holds = @ + delta]
      BY <2>3
    <3> HIDE DEF g, f, y, z, u
    <3>2. [f[e] EXCEPT !.holds = @ + delta] = [holds |-> y + delta, size |-> z, data |-> u]
      BY <2>2 DEF y
    <3>3. ~IsFree(f[e])
      BY <1>3, <2>3 DEF Used
    <3>4. g[e].holds = y + delta
      BY <3>1, <3>2
    <3> QED
      BY <2>3, <3>1, <3>2, <3>3, <3>4 DEF y, z, u
  <2>4. CASE e \notin theirs
    <3>1. g[e] = f[e]
      BY <2>4
    <3> HIDE DEF g, f
    <3> QED
      BY <2>2, <2>4, <3>1
  <2> QED
    BY <2>3, <2>4
<1>6. DOMAIN g = DOMAIN f
  OBVIOUS
<1> HIDE DEF g
<1>7. /\ IsMemory(n) /\ n.space = g /\ n.hint = m.hint /\ n.low = m.low /\ n.heap = m.heap
      /\ n.sd = m.sd /\ n.live = m.live /\ n.ad = m.ad
  <2>1. IsMemory(n)
    BY <1>1 DEF IsMemory
  <2> QED
    BY <1>1, <2>1 DEF Fields
<1> HIDE DEF n
<1>8. \A a \in DOMAIN m.sd :
        m.sd[a].len > 0 => g[EntryOf(m.sd[a])].holds = IF a \in S THEN a + delta ELSE a
  <2> TAKE a \in DOMAIN m.sd
  <2> SUFFICES ASSUME m.sd[a].len > 0
               PROVE  g[EntryOf(m.sd[a])].holds = IF a \in S THEN a + delta ELSE a
    OBVIOUS
  <2> DEFINE e == EntryOf(m.sd[a])
  <2>1. e \in DOMAIN f /\ f[e].holds = a /\ (e \in theirs <=> a \in S)
    BY <1>4
  <2> HIDE DEF e
  <2>2. g[e].holds = IF a \in S THEN a + delta ELSE a
    BY <1>5, <2>1
  <2> QED
    BY <2>2 DEF e
<1>9. /\ \A e \in DOMAIN m.space :
           n.space[e] = [holds |-> n.space[e].holds, size |-> m.space[e].size,
                         data |-> m.space[e].data]
      /\ \A e \in DOMAIN m.space : IsFree(m.space[e]) => IsFree(n.space[e])
  BY <1>5, <1>7
<1> QED
  BY <1>2, <1>6, <1>7, <1>8, <1>9 DEF OwnersShifted

-----------------------------------------------------------------------------
(* The program's array, and what the program sees.                         *)

ArrayIs(m) ==
  /\ m.ad = [at |-> m.ad.at, count |-> m.ad.count]
  /\ \/ m.ad.at = 0 /\ m.ad.count = 0 /\ Holding(m, "ARRAY") = {}
     \/ /\ m.ad.at \in Int /\ m.ad.count \in 1 .. MaxElements
        /\ Holding(m, "ARRAY") = {m.ad.at - HEADER}
        /\ Elements(m.ad.at, m.ad.count) \subseteq Data(m, m.ad.at - HEADER)
  /\ \A a \in ArrayWords(m) \ Elements(m.ad.at, m.ad.count) : m.sd[a].len = 0

(* The program has the same strings: its variables and temporaries, and    *)
(* the elements of its array wherever that is.                             *)
Shown(m, n) ==
  /\ n.live = m.live /\ n.ad.count = m.ad.count
  /\ \A d \in Statics : n.sd[d].len = m.sd[d].len /\ Read(n, d) = Read(m, d)
  /\ \A i \in 1 .. m.ad.count : Read(n, n.ad.at + i - 1) = Read(m, m.ad.at + i - 1)

(* The same, and the same again.                                           *)
LEMMA ShownOn ==
  ASSUME NEW m, NEW n, NEW o, Shown(m, n), Shown(n, o)
  PROVE  Shown(m, o)
BY DEF Shown

(* The elements of the array are descriptors.                              *)
LEMMA ArrayHas ==
  ASSUME NEW m, Good(m, {}), ArrayIs(m)
  PROVE  /\ m.ad.count \in 0 .. MaxElements /\ m.ad.count \in Nat /\ m.ad.at \in Int
         /\ Statics \subseteq DOMAIN m.sd
         /\ \A a \in Elements(m.ad.at, m.ad.count) :
              a \in DOMAIN m.sd /\ a \in ArrayWords(m) /\ a \in Int /\ a \notin Statics
         /\ \A i \in 1 .. m.ad.count : m.ad.at + i - 1 \in Elements(m.ad.at, m.ad.count)
<1>1. m.ad.count \in 0 .. MaxElements /\ m.ad.count \in Nat /\ m.ad.at \in Int
  BY ConstantsAre DEF ArrayIs
<1>2. /\ DOMAIN m.sd = Statics \cup ArrayWords(m)
      /\ ArrayWords(m) \subseteq Int /\ Statics \cap Int = {}
  <2>1. Described(m)
    BY DEF Good
  <2> QED
    BY <2>1, DescribedIs, SpaceAssumption
<1>3. \A a \in Elements(m.ad.at, m.ad.count) : a \in ArrayWords(m)
  <2> TAKE a \in Elements(m.ad.at, m.ad.count)
  <2>1. m.ad.count # 0
    BY <1>1 DEF Elements
  <2>2. /\ Holding(m, "ARRAY") = {m.ad.at - HEADER}
        /\ Elements(m.ad.at, m.ad.count) \subseteq Data(m, m.ad.at - HEADER)
    BY <2>1 DEF ArrayIs
  <2> QED
    BY <2>2 DEF ArrayWords
<1>4. \A i \in 1 .. m.ad.count : m.ad.at + i - 1 \in Elements(m.ad.at, m.ad.count)
  BY <1>1 DEF Elements
<1> QED
  BY <1>1, <1>2, <1>3, <1>4

(* The array is where it was, with its elements.                           *)
LEMMA KeptArray ==
  ASSUME NEW m, NEW n, ArrayIs(m), n.ad = m.ad, SameUsed(m.heap, n.heap),
         \A a \in ArrayWords(m) : a \notin Elements(m.ad.at, m.ad.count) => n.sd[a].len = 0
  PROVE  ArrayIs(n)
<1>1. /\ Holding(n, "ARRAY") = Holding(m, "ARRAY")
      /\ \A a \in Holding(m, "ARRAY") : Data(n, a) = Data(m, a)
      /\ ArrayWords(n) = ArrayWords(m)
  BY SameArrays
<1>2. \A a \in ArrayWords(n) \ Elements(n.ad.at, n.ad.count) : n.sd[a].len = 0
  BY <1>1
<1>3. \/ n.ad.at = 0 /\ n.ad.count = 0 /\ Holding(n, "ARRAY") = {}
      \/ /\ n.ad.at \in Int /\ n.ad.count \in 1 .. MaxElements
         /\ Holding(n, "ARRAY") = {n.ad.at - HEADER}
         /\ Elements(n.ad.at, n.ad.count) \subseteq Data(n, n.ad.at - HEADER)
  <2>1. CASE m.ad.at = 0 /\ m.ad.count = 0 /\ Holding(m, "ARRAY") = {}
    BY <1>1, <2>1
  <2>2. CASE /\ m.ad.at \in Int /\ m.ad.count \in 1 .. MaxElements
             /\ Holding(m, "ARRAY") = {m.ad.at - HEADER}
             /\ Elements(m.ad.at, m.ad.count) \subseteq Data(m, m.ad.at - HEADER)
    <3>1. Data(n, m.ad.at - HEADER) = Data(m, m.ad.at - HEADER)
      BY <1>1, <2>2
    <3> QED
      BY <1>1, <2>2, <3>1
  <2> QED
    BY <2>1, <2>2 DEF ArrayIs
<1>4. n.ad = [at |-> n.ad.at, count |-> n.ad.count]
  BY DEF ArrayIs
<1> QED
  BY <1>2, <1>3, <1>4 DEF ArrayIs

(* Every string kept, the program has the same.                            *)
LEMMA KeptShown ==
  ASSUME NEW m, NEW n, Good(m, {}), Good(n, {}), ArrayIs(m), Kept(m, n, {})
  PROVE  ArrayIs(n) /\ Shown(m, n)
<1>1. /\ n.live = m.live /\ n.ad = m.ad /\ SameUsed(m.heap, n.heap)
      /\ \A a \in DOMAIN m.sd : n.sd[a].len = m.sd[a].len /\ Read(n, a) = Read(m, a)
  BY DEF Kept
<1>2. /\ Statics \subseteq DOMAIN m.sd
      /\ \A i \in 1 .. m.ad.count : m.ad.at + i - 1 \in DOMAIN m.sd
      /\ DOMAIN m.sd = Statics \cup ArrayWords(m)
  <2>1. Described(m)
    BY DEF Good
  <2> QED
    BY <2>1, ArrayHas, DescribedIs
<1>3. Shown(m, n)
  BY <1>1, <1>2 DEF Shown
<1>4. \A a \in ArrayWords(m) : a \notin Elements(m.ad.at, m.ad.count) => n.sd[a].len = 0
  BY <1>1, <1>2 DEF ArrayIs
<1> QED
  BY <1>1, <1>3, <1>4, KeptArray

(* The arrays are where their entries went.                                *)
LEMMA SlidArrays ==
  ASSUME NEW m, NEW n, Tiling(m.heap, m.low, TOP), Tiling(n.heap, n.low, TOP),
         Slides(m.heap, n.heap)
  PROVE  /\ \A a \in Holding(m, "ARRAY") :
              /\ a \in Nat /\ Ups(m.heap)[a] \in Nat /\ Ups(m.heap)[a] \in Holding(n, "ARRAY")
              /\ \A x \in Int : x + (Ups(m.heap)[a] - a) \in Data(n, Ups(m.heap)[a])
                                  <=> x \in Data(m, a)
              /\ Data(m, a) \subseteq Int /\ Data(n, Ups(m.heap)[a]) \subseteq Int
         /\ \A e \in Holding(n, "ARRAY") : \E a \in Holding(m, "ARRAY") : e = Ups(m.heap)[a]
<1>1. ASSUME NEW a \in Holding(m, "ARRAY")
      PROVE  /\ a \in Nat /\ Ups(m.heap)[a] \in Nat /\ Ups(m.heap)[a] \in Holding(n, "ARRAY")
             /\ \A x \in Int : x + (Ups(m.heap)[a] - a) \in Data(n, Ups(m.heap)[a])
                                 <=> x \in Data(m, a)
             /\ Data(m, a) \subseteq Int /\ Data(n, Ups(m.heap)[a]) \subseteq Int
  <2>1. a \in Used(m.heap) /\ m.heap[a].holds = "ARRAY"
    BY SpaceAssumption DEF Holding, Used, IsFree
  <2> DEFINE u == Ups(m.heap)[a]
  <2>2. /\ u \in DOMAIN n.heap /\ u \in Nat /\ a \in Nat /\ a \in DOMAIN m.heap
        /\ n.heap[u] = m.heap[a]
    BY <2>1 DEF Slides
  <2> HIDE DEF u
  <2>3. m.heap[a].size \in Nat
    BY <2>2, TilingIs
  <2>4. /\ \A x \in Int : x + (u - a) \in Data(n, u) <=> x \in Data(m, a)
        /\ Data(m, a) \subseteq Int /\ Data(n, u) \subseteq Int
    BY <2>2, <2>3, ConstantsAre DEF Data, End
  <2>5. u \in Holding(n, "ARRAY")
    BY <2>1, <2>2 DEF Holding
  <2> QED
    BY <2>2, <2>4, <2>5 DEF u
<1>2. ASSUME NEW e \in Holding(n, "ARRAY")
      PROVE  \E a \in Holding(m, "ARRAY") : e = Ups(m.heap)[a]
  <2>1. e \in Used(n.heap) /\ n.heap[e].holds = "ARRAY"
    BY SpaceAssumption DEF Holding, Used, IsFree
  <2>2. PICK a \in Used(m.heap) : e = Ups(m.heap)[a]
    BY <2>1 DEF Slides
  <2>3. a \in DOMAIN m.heap /\ n.heap[e] = m.heap[a]
    BY <2>2 DEF Slides
  <2> QED
    BY <2>1, <2>2, <2>3 DEF Holding
<1> QED
  BY <1>1, <1>2

(* The memory with another heap.                                           *)
Reheaped(m, h) == [m EXCEPT !.heap = h]

(* It is as it was otherwise.                                              *)
LEMMA ReheapedIs ==
  ASSUME NEW m, IsMemory(m), NEW h
  PROVE  /\ IsMemory(Reheaped(m, h)) /\ Reheaped(m, h).heap = h
         /\ Reheaped(m, h).space = m.space /\ Reheaped(m, h).hint = m.hint
         /\ Reheaped(m, h).low = m.low /\ Reheaped(m, h).sd = m.sd
         /\ Reheaped(m, h).live = m.live /\ Reheaped(m, h).ad = m.ad
<1> DEFINE n == [m EXCEPT !.heap = h]
<1>1. DOMAIN m = Fields
  BY DEF IsMemory
<1>2. IsMemory(n)
  BY <1>1 DEF IsMemory
<1>3. /\ n.heap = h /\ n.space = m.space /\ n.hint = m.hint /\ n.low = m.low
      /\ n.sd = m.sd /\ n.live = m.live /\ n.ad = m.ad
  BY <1>1 DEF Fields
<1> QED
  BY <1>2, <1>3 DEF Reheaped

(* `lh_compact` where there is no array: only entries that hold nothing of *)
(* the strings' move.                                                      *)
LEMMA NoArrayIs ==
  ASSUME NEW m, Good(m, {}), Holding(m, "ARRAY") = {},
         NEW n, n = Reheaped(m, Slid(m.heap, m.low))
  PROVE  /\ Good(n, {}) /\ Holding(n, "ARRAY") = {} /\ n.ad = m.ad /\ n.live = m.live
         /\ DOMAIN n.sd = DOMAIN m.sd
         /\ \A a \in DOMAIN m.sd : n.sd[a].len = m.sd[a].len /\ Read(n, a) = Read(m, a)
<1>1. IsMemory(m) /\ Regions(m) /\ Described(m) /\ Owning(m, {})
  BY DEF Good
<1>2. /\ IsMemory(n) /\ n.heap = Slid(m.heap, m.low) /\ n.space = m.space /\ n.hint = m.hint
      /\ n.low = m.low /\ n.sd = m.sd /\ n.live = m.live /\ n.ad = m.ad
  BY <1>1, ReheapedIs
<1>3. /\ Tiling(m.heap, m.low, TOP) /\ Tiling(n.heap, n.low, TOP)
      /\ Slides(m.heap, n.heap)
      /\ \A e \in DOMAIN n.heap : n.heap[e] \in HeapEntries /\ n.heap[e].size >= Smallest
  BY <1>1, <1>2, SlidIs DEF Regions
<1>4. Holding(n, "ARRAY") = {}
  BY <1>3, SlidArrays
<1>5. ArrayWords(n) = ArrayWords(m)
  BY <1>4 DEF ArrayWords
<1> DEFINE w == [x \in DOMAIN m.sd |-> x]
<1>6. Described(n)
  BY <1>1, <1>2, <1>5 DEF Described
<1>7. \A e \in DOMAIN m.space :
        n.space[e] = [holds |-> n.space[e].holds, size |-> m.space[e].size,
                      data |-> m.space[e].data]
  <2>1. \A e \in DOMAIN m.space : m.space[e] \in SpaceEntries
    BY <1>1 DEF Regions
  <2> QED
    BY <1>2, <2>1 DEF SpaceEntries
<1>8. \A x \in DOMAIN m.sd : m.sd[x].len > 0 => n.space[EntryOf(m.sd[x])].holds = x
  BY <1>1, <1>2, OwnsIs
<1>9. Rehung(m, n, {}, w)
  BY <1>2, <1>3, <1>6, <1>7, <1>8 DEF Rehung
<1>10. Good(n, {}) /\ \A x \in DOMAIN m.sd : w[x] = x
  BY <1>9, RehungIs
<1>11. \A x \in DOMAIN w : n.sd[x].len = m.sd[w[x]].len /\ Read(n, x) = Read(m, w[x])
  BY <1>9, RehungIs
<1> QED
  BY <1>2, <1>4, <1>10, <1>11

(* Where a descriptor of the array was before it moved by delta.           *)
Before(delta, x) == IF x \in Statics THEN x ELSE x - delta

(* The descriptors of the array moved, and its own follows.                *)
ArrayMoved(m, n, a, delta) ==
  /\ IsMemory(n) /\ n.space = OwnersMoved(m, Data(m, a), delta).space
  /\ n.hint = m.hint /\ n.low = m.low /\ n.live = m.live
  /\ n.sd = [x \in Statics \cup {y + delta : y \in Data(m, a)} |-> m.sd[Before(delta, x)]]
  /\ n.ad = [m.ad EXCEPT !.at = @ + delta]

(* `moved`.                                                                *)
LEMMA MovedIs ==
  ASSUME NEW m, Good(m, {}), NEW a, Data(m, a) \subseteq DOMAIN m.sd, NEW delta, NEW h
  PROVE  /\ ArrayMoved(m, Reheaped(Moved(m, a, delta), h), a, delta)
         /\ Reheaped(Moved(m, a, delta), h).heap = h
<1> DEFINE k == OwnersMoved(m, Data(m, a), delta)
           sd == [x \in Statics \cup {y + delta : y \in Data(m, a)} |-> m.sd[Before(delta, x)]]
           n == [k EXCEPT !.sd = sd, !.ad.at = @ + delta]
<1>1. Moved(m, a, delta) = n
  BY DEF Moved, Before
<1>2. OwnersShifted(m, k, Data(m, a), delta)
  BY OwnersMovedIs
<1> HIDE DEF k, sd
<1>3. IsMemory(k) /\ k.hint = m.hint /\ k.low = m.low /\ k.live = m.live /\ k.ad = m.ad
  BY <1>2 DEF OwnersShifted
<1>4. DOMAIN k = Fields
  BY <1>3 DEF IsMemory
<1>5. IsMemory(n)
  BY <1>4 DEF IsMemory
<1>6. /\ n.space = k.space /\ n.hint = k.hint /\ n.low = k.low /\ n.live = k.live
      /\ n.sd = sd /\ n.ad = [k.ad EXCEPT !.at = @ + delta]
  BY <1>4 DEF Fields
<1> HIDE DEF n
<1> DEFINE o == Reheaped(n, h)
<1>7. /\ IsMemory(o) /\ o.heap = h /\ o.space = n.space /\ o.hint = n.hint /\ o.low = n.low
      /\ o.sd = n.sd /\ o.live = n.live /\ o.ad = n.ad
  BY <1>5, ReheapedIs
<1> HIDE DEF o
<1>8. ArrayMoved(m, o, a, delta)
  BY <1>3, <1>6, <1>7 DEF ArrayMoved, k, sd
<1> QED
  BY <1>1, <1>7, <1>8 DEF o

(* `lh_compact` where the array is at a: its elements move with it.        *)
LEMMA ArrayMovedIs ==
  ASSUME NEW m, Good(m, {}), NEW a, Holding(m, "ARRAY") = {a},
         NEW n, ArrayMoved(m, n, a, Ups(m.heap)[a] - a), n.heap = Slid(m.heap, m.low)
  PROVE  /\ Good(n, {}) /\ Holding(n, "ARRAY") = {Ups(m.heap)[a]}
         /\ a \in Int /\ Ups(m.heap)[a] \in Int /\ DOMAIN m.sd = Statics \cup Data(m, a)
         /\ \A x \in Int : x + (Ups(m.heap)[a] - a) \in Data(n, Ups(m.heap)[a])
                             <=> x \in Data(m, a)
         /\ Data(m, a) \subseteq Int /\ Data(n, Ups(m.heap)[a]) \subseteq Int
         /\ \A x \in Statics : n.sd[x].len = m.sd[x].len /\ Read(n, x) = Read(m, x)
         /\ \A x \in Data(m, a) :
              /\ n.sd[x + (Ups(m.heap)[a] - a)].len = m.sd[x].len
              /\ Read(n, x + (Ups(m.heap)[a] - a)) = Read(m, x)
<1> DEFINE u == Ups(m.heap)[a]
           D == Data(m, a)
           E == Data(n, u)
<1> DEFINE delta == u - a
<1>1. IsMemory(m) /\ Regions(m) /\ Described(m) /\ Owning(m, {})
  BY DEF Good
<1>2. /\ Tiling(m.heap, m.low, TOP) /\ Tiling(n.heap, n.low, TOP)
      /\ Slides(m.heap, n.heap) /\ n.low = m.low
      /\ \A e \in DOMAIN n.heap : n.heap[e] \in HeapEntries /\ n.heap[e].size >= Smallest
  <2>1. n.low = m.low
    BY DEF ArrayMoved
  <2> QED
    BY <1>1, <2>1, SlidIs DEF Regions
<1>3. /\ a \in Nat /\ u \in Nat /\ u \in Holding(n, "ARRAY")
      /\ \A x \in Int : x + (u - a) \in E <=> x \in D
      /\ D \subseteq Int /\ E \subseteq Int
  BY <1>2, SlidArrays
<1>4. \A e \in Holding(n, "ARRAY") : e = u
  BY <1>2, SlidArrays
<1>5. /\ Holding(n, "ARRAY") = {u} /\ ArrayWords(n) = E /\ ArrayWords(m) = D
  <2>1. Holding(n, "ARRAY") = {u}
    BY <1>3, <1>4
  <2> QED
    BY <2>1 DEF ArrayWords
<1>6. /\ DOMAIN m.sd = Statics \cup D /\ Statics \cap D = {}
      /\ \A x \in DOMAIN m.sd : m.sd[x] \in Descriptors
  <2>1. DOMAIN m.sd = Statics \cup D /\ Statics \cap D = {}
    BY <1>1, <1>5, DescribedIs
  <2> QED
    BY <1>1, <2>1, DescribedIs
<1>7. OwnersShifted(m, OwnersMoved(m, D, delta), D, delta)
  BY <1>6, OwnersMovedIs
<1>8. /\ IsMemory(n) /\ n.space = OwnersMoved(m, D, delta).space
      /\ n.hint = m.hint /\ n.low = m.low /\ n.live = m.live
      /\ n.sd = [x \in Statics \cup {y + delta : y \in D} |-> m.sd[Before(delta, x)]]
  BY DEF ArrayMoved
<1> HIDE DEF u, D, E
<1>9. /\ delta \in Int /\ \A x \in D : x + delta \in E /\ x + delta - delta = x
      /\ \A y \in E : y - delta \in D /\ y = (y - delta) + delta
  BY <1>3
<1> HIDE DEF delta
<1>10. {y + delta : y \in D} = E
  BY <1>9
<1>11. /\ DOMAIN n.sd = Statics \cup E
       /\ \A x \in Statics \cup E : n.sd[x] = m.sd[Before(delta, x)]
  BY <1>8, <1>10
<1>12. /\ \A x \in Statics : Before(delta, x) = x
       /\ \A y \in E : Before(delta, y) = y - delta /\ y \notin Statics
       /\ \A x \in Statics \cup E : Before(delta, x) \in DOMAIN m.sd
  <2>1. \A y \in E : y \notin Statics
    BY <1>3, SpaceAssumption
  <2> QED
    BY <1>6, <1>9, <2>1 DEF Before
<1>13. \A x \in D : x + delta \in E /\ Before(delta, x + delta) = x
  <2> TAKE x \in D
  <2> DEFINE y == x + delta
  <2>1. y \in E /\ y - delta = x
    <3>1. x \in Int /\ delta \in Int
      BY <1>3, <1>9
    <3>2. y \in E
      BY <1>9
    <3> QED
      BY <3>1, <3>2
  <2> HIDE DEF y
  <2>2. Before(delta, y) = y - delta
    BY <1>12, <2>1
  <2> QED
    BY <2>1, <2>2 DEF y
<1>14. Described(n)
  <2>1. n.sd = [x \in Statics \cup E |-> m.sd[Before(delta, x)]]
    BY <1>8, <1>10
  <2>2. \A x \in Statics \cup E : m.sd[Before(delta, x)] \in Descriptors
    BY <1>6, <1>12
  <2> HIDE DEF Descriptors
  <2>3. n.sd \in [Statics \cup E -> Descriptors]
    BY <2>1, <2>2
  <2> QED
    BY <1>5, <2>3 DEF Described
<1> DEFINE w == [x \in Statics \cup E |-> Before(delta, x)]
<1>15. \A x \in Statics \cup E :
         m.sd[w[x]].len > 0 => n.space[EntryOf(m.sd[w[x]])].holds = x
  <2> TAKE x \in Statics \cup E
  <2> SUFFICES ASSUME m.sd[w[x]].len > 0
               PROVE  n.space[EntryOf(m.sd[w[x]])].holds = x
    OBVIOUS
  <2> DEFINE y == w[x]
  <2>1. y \in DOMAIN m.sd /\ y = Before(delta, x) /\ m.sd[y].len > 0
    BY <1>12
  <2> HIDE DEF y
  <2>2. n.space[EntryOf(m.sd[y])].holds = IF y \in D THEN y + delta ELSE y
    BY <1>7, <1>8, <2>1 DEF OwnersShifted
  <2>3. x = IF y \in D THEN y + delta ELSE y
    <3>1. CASE x \in Statics
      BY <1>6, <1>12, <2>1, <3>1
    <3>2. CASE x \in E
      BY <1>9, <1>12, <2>1, <3>2
    <3> QED
      BY <3>1, <3>2
  <2> QED
    BY <2>2, <2>3 DEF y
<1>16. \A b \in DOMAIN m.sd : \E x \in DOMAIN w : w[x] = b
  <2> TAKE b \in DOMAIN m.sd
  <2>1. CASE b \in Statics
    BY <1>12, <2>1
  <2>2. CASE b \in D
    <3>1. b + delta \in E /\ Before(delta, b + delta) = b
      BY <1>13, <2>2
    <3> QED
      BY <3>1
  <2> QED
    BY <1>6, <2>1, <2>2
<1>17. Rehung(m, n, {}, w)
  <2>1. /\ DOMAIN n.space = DOMAIN m.space
        /\ \A e \in DOMAIN m.space :
             n.space[e] = [holds |-> n.space[e].holds, size |-> m.space[e].size,
                           data |-> m.space[e].data]
        /\ \A e \in DOMAIN m.space : IsFree(m.space[e]) => IsFree(n.space[e])
    BY <1>7, <1>8 DEF OwnersShifted
  <2>2. \A x \in DOMAIN w : /\ x \in DOMAIN n.sd /\ w[x] \in DOMAIN m.sd
                            /\ n.sd[x] = m.sd[w[x]]
    BY <1>11, <1>12
  <2>3. DOMAIN w = DOMAIN n.sd
    BY <1>11
  <2>4. \A x \in DOMAIN w :
          m.sd[w[x]].len > 0 => n.space[EntryOf(m.sd[w[x]])].holds = x
    BY <1>15
  <2> HIDE DEF w
  <2> QED
    BY <1>2, <1>8, <1>14, <1>16, <2>1, <2>2, <2>3, <2>4 DEF Rehung
<1>18. \A x \in Statics \cup E : w[x] = Before(delta, x) /\ x \in DOMAIN w
  OBVIOUS
<1> HIDE DEF w
<1>19. Good(n, {})
  BY <1>17, RehungIs
<1>20. \A x \in DOMAIN w : n.sd[x].len = m.sd[w[x]].len /\ Read(n, x) = Read(m, w[x])
  BY <1>17, RehungIs
<1>21. \A x \in Statics : n.sd[x].len = m.sd[x].len /\ Read(n, x) = Read(m, x)
  <2> TAKE x \in Statics
  <2>1. x \in DOMAIN w /\ w[x] = x
    BY <1>12, <1>18
  <2> QED
    BY <1>20, <2>1
<1>22. \A x \in D : n.sd[x + delta].len = m.sd[x].len /\ Read(n, x + delta) = Read(m, x)
  <2> TAKE x \in D
  <2>1. x + delta \in DOMAIN w /\ w[x + delta] = x
    BY <1>13, <1>18
  <2> QED
    BY <1>20, <2>1
<1> QED
  BY <1>3, <1>5, <1>6, <1>19, <1>21, <1>22 DEF u, D, E, delta

(* `lh_compact`: the program has the same strings.                         *)
LEMMA LhCompactIs ==
  ASSUME NEW m, Good(m, {}), ArrayIs(m)
  PROVE  /\ Good(LhCompact(m), {}) /\ ArrayIs(LhCompact(m)) /\ Shown(m, LhCompact(m))
<1> DEFINE arrays == Holding(m, "ARRAY")
           up == Ups(m.heap)[Max(arrays)] - Max(arrays)
           moved == IF arrays = {} THEN m ELSE Moved(m, Max(arrays), up)
           n == Reheaped(moved, Slid(m.heap, m.low))
<1>1. LhCompact(m) = n
  BY DEF LhCompact, Slid, Reheaped
<1> HIDE DEF arrays
<1>2. /\ m.ad.count \in 0 .. MaxElements /\ m.ad.count \in Nat /\ m.ad.at \in Int
      /\ Statics \subseteq DOMAIN m.sd
      /\ \A i \in 1 .. m.ad.count : /\ m.ad.at + i - 1 \in Elements(m.ad.at, m.ad.count)
                                    /\ m.ad.at + i - 1 \in DOMAIN m.sd
  BY ArrayHas
<1>3. m.ad = [at |-> m.ad.at, count |-> m.ad.count]
  BY DEF ArrayIs
<1>4. CASE m.ad.at = 0 /\ m.ad.count = 0 /\ arrays = {}
  <2>1. n = Reheaped(m, Slid(m.heap, m.low)) /\ Holding(m, "ARRAY") = {}
    BY <1>4 DEF arrays
  <2> HIDE DEF n
  <2>2. /\ Good(n, {}) /\ Holding(n, "ARRAY") = {} /\ n.ad = m.ad /\ n.live = m.live
        /\ DOMAIN n.sd = DOMAIN m.sd
        /\ \A a \in DOMAIN m.sd : n.sd[a].len = m.sd[a].len /\ Read(n, a) = Read(m, a)
    BY <2>1, NoArrayIs
  <2>3. ArrayWords(n) = {}
    BY <2>2 DEF ArrayWords
  <2>4. ArrayIs(n)
    BY <1>3, <1>4, <2>2, <2>3 DEF ArrayIs
  <2>5. Shown(m, n)
    BY <1>2, <2>2 DEF Shown
  <2> QED
    BY <1>1, <2>2, <2>4, <2>5
<1>5. CASE /\ m.ad.at \in Int /\ m.ad.count \in 1 .. MaxElements
           /\ arrays = {m.ad.at - HEADER}
           /\ Elements(m.ad.at, m.ad.count) \subseteq Data(m, m.ad.at - HEADER)
  <2> DEFINE a == m.ad.at - HEADER
             u == Ups(m.heap)[a]
             delta == u - a
  <2>1. a \in Int /\ Max(arrays) = a /\ arrays # {} /\ Holding(m, "ARRAY") = {a}
    BY <1>5, ConstantsAre, MaxOfOne DEF arrays
  <2>2. n = Reheaped(Moved(m, a, delta), Slid(m.heap, m.low))
    BY <2>1
  <2> HIDE DEF n
  <2>3. Data(m, a) \subseteq DOMAIN m.sd
    <3>1. ArrayWords(m) = Data(m, a)
      BY <2>1 DEF ArrayWords
    <3>2. Described(m)
      BY DEF Good
    <3> QED
      BY <3>1, <3>2, DescribedIs
  <2>4. ArrayMoved(m, n, a, delta) /\ n.heap = Slid(m.heap, m.low)
    <3> HIDE DEF delta, a
    <3> QED
      BY <2>2, <2>3, MovedIs
  <2>5. /\ Good(n, {}) /\ Holding(n, "ARRAY") = {u}
        /\ a \in Int /\ u \in Int /\ DOMAIN m.sd = Statics \cup Data(m, a)
        /\ \A x \in Int : x + (u - a) \in Data(n, u) <=> x \in Data(m, a)
        /\ Data(m, a) \subseteq Int /\ Data(n, u) \subseteq Int
        /\ \A x \in Statics : n.sd[x].len = m.sd[x].len /\ Read(n, x) = Read(m, x)
        /\ \A x \in Data(m, a) : /\ n.sd[x + (u - a)].len = m.sd[x].len
                                 /\ Read(n, x + (u - a)) = Read(m, x)
    <3> HIDE DEF a
    <3> QED
      BY <2>1, <2>4, ArrayMovedIs
  <2>6. /\ n.ad = [at |-> m.ad.at + delta, count |-> m.ad.count] /\ n.live = m.live
        /\ n.ad.at = m.ad.at + delta /\ n.ad.count = m.ad.count /\ n.ad.at - HEADER = u
        /\ n.ad.at \in Int
    <3>1. n.ad = [m.ad EXCEPT !.at = @ + delta] /\ n.live = m.live
      BY <2>4 DEF ArrayMoved
    <3>2. n.ad = [at |-> m.ad.at + delta, count |-> m.ad.count]
      BY <1>3, <3>1
    <3>3. m.ad.at + delta - HEADER = u /\ m.ad.at + delta \in Int /\ delta \in Int
      BY <1>2, <2>5, ConstantsAre
    <3> HIDE DEF delta, u
    <3>4. n.ad.at = m.ad.at + delta /\ n.ad.count = m.ad.count
      BY <3>2
    <3>5. n.ad.at - HEADER = u /\ n.ad.at \in Int
      BY <1>2, <3>3, <3>4, ConstantsAre
    <3> QED
      BY <3>1, <3>2, <3>4, <3>5
  <2>7. ArrayWords(n) = Data(n, u)
    BY <2>5 DEF ArrayWords
  <2> HIDE DEF a, u
  <2>8. delta \in Int
    BY <2>5
  <2>9. \A x \in Data(n, u) : /\ x - delta \in Data(m, a) /\ x \in Int
                              /\ n.sd[x].len = m.sd[x - delta].len
    <3> TAKE x \in Data(n, u)
    <3> DEFINE y == x - delta
    <3>1. x \in Int /\ y \in Int /\ y + (u - a) = x
      BY <2>5
    <3> HIDE DEF y
    <3>2. y \in Data(m, a)
      BY <2>5, <3>1
    <3>3. n.sd[x].len = m.sd[y].len
      BY <2>5, <3>1, <3>2
    <3> QED
      BY <3>1, <3>2, <3>3 DEF y
  <2>10. \A x \in ArrayWords(n) \ Elements(n.ad.at, n.ad.count) : n.sd[x].len = 0
    <3> TAKE x \in ArrayWords(n) \ Elements(n.ad.at, n.ad.count)
    <3> DEFINE y == x - delta
    <3>1. y \in Data(m, a) /\ x \in Int /\ n.sd[x].len = m.sd[y].len
      BY <2>7, <2>9
    <3>2. y \notin Elements(m.ad.at, m.ad.count)
      <4>1. ~(x >= n.ad.at /\ x <= n.ad.at + n.ad.count - 1)
        BY <1>2, <2>6, <3>1 DEF Elements
      <4> HIDE DEF delta
      <4>2. ~(y >= m.ad.at /\ y <= m.ad.at + m.ad.count - 1)
        BY <1>2, <2>6, <2>8, <3>1, <4>1
      <4> QED
        BY <1>2, <4>2 DEF Elements
    <3>3. y \in ArrayWords(m)
      BY <2>1, <3>1 DEF ArrayWords
    <3> HIDE DEF y
    <3>4. m.sd[y].len = 0
      BY <3>2, <3>3 DEF ArrayIs
    <3> QED
      BY <3>1, <3>4
  <2>11. Elements(n.ad.at, n.ad.count) \subseteq Data(n, n.ad.at - HEADER)
    <3>1. ASSUME NEW x \in Elements(n.ad.at, n.ad.count)
          PROVE  x \in Data(n, u)
      <4> DEFINE y == x - delta
      <4> HIDE DEF delta
      <4>1. x \in Int /\ y \in Int /\ y + delta = x /\ y \in Elements(m.ad.at, m.ad.count)
        BY <1>2, <2>6, <2>8 DEF Elements
      <4>2. y \in Data(m, a)
        BY <1>5, <4>1 DEF a
      <4> HIDE DEF y
      <4>3. y + (u - a) = x
        BY <4>1 DEF delta
      <4> QED
        BY <2>5, <4>1, <4>2, <4>3
    <3> QED
      BY <2>6, <3>1
  <2>12. ArrayIs(n)
    BY <1>5, <2>5, <2>6, <2>10, <2>11 DEF ArrayIs
  <2>13. \A i \in 1 .. m.ad.count : Read(n, n.ad.at + i - 1) = Read(m, m.ad.at + i - 1)
    <3> TAKE i \in 1 .. m.ad.count
    <3> DEFINE y == m.ad.at + i - 1
    <3>1. y \in Data(m, a) /\ y \in Int
      BY <1>2, <1>5, <2>5 DEF a
    <3>2. n.ad.at + i - 1 = y + (u - a)
      <4>1. i \in Int
        BY <1>2
      <4> QED
        BY <1>2, <2>5, <2>6, <4>1
    <3> HIDE DEF y
    <3>3. Read(n, y + (u - a)) = Read(m, y)
      BY <2>5, <3>1
    <3> QED
      BY <3>2, <3>3 DEF y
  <2>14. Shown(m, n)
    BY <2>5, <2>6, <2>13 DEF Shown
  <2> QED
    BY <1>1, <2>5, <2>12, <2>14
<1> QED
  BY <1>4, <1>5 DEF ArrayIs, arrays

(* FRE: what is moved and joined is not seen.                              *)
LEMMA FreIs ==
  ASSUME NEW m, Good(m, {}), ArrayIs(m)
  PROVE  LET n == StrCompact(NhCompact(m))
         IN  Good(n, {}) /\ ArrayIs(n) /\ Shown(m, n)
<1> DEFINE k == StrCompact(m)
           l == LhCompact(k)
           o == LhGive(l)
           n == StrCompact(o)
<1>1. Good(k, {}) /\ Kept(m, k, {})
  BY StrCompactIs
<1>2. ArrayIs(k) /\ Shown(m, k)
  BY <1>1, KeptShown
<1> HIDE DEF k
<1>3. Good(l, {}) /\ ArrayIs(l) /\ Shown(k, l)
  BY <1>1, <1>2, LhCompactIs
<1> HIDE DEF l
<1>4. Good(o, {}) /\ Kept(l, o, {})
  BY <1>3, LhGiveIs
<1>5. ArrayIs(o) /\ Shown(l, o)
  BY <1>3, <1>4, KeptShown
<1> HIDE DEF o
<1>6. Good(n, {}) /\ Kept(o, n, {})
  BY <1>4, StrCompactIs
<1>7. ArrayIs(n) /\ Shown(o, n)
  BY <1>4, <1>5, <1>6, KeptShown
<1> HIDE DEF n
<1>8. Shown(m, l)
  BY <1>2, <1>3, ShownOn
<1>9. Shown(m, o)
  BY <1>5, <1>8, ShownOn
<1>10. Shown(m, n)
  BY <1>7, <1>9, ShownOn
<1>11. StrCompact(NhCompact(m)) = n
  BY DEF NhCompact, k, l, o, n
<1> QED
  BY <1>6, <1>7, <1>10, <1>11

(* `close_fdb`.                                                            *)
LEMMA CloseIs ==
  ASSUME NEW m, Good(m, {}), ArrayIs(m), NEW a \in Holding(m, "FILE")
  PROVE  LET n == LhCompact(LhFree(m, a))
         IN  Good(n, {}) /\ ArrayIs(n) /\ Shown(m, n)
<1> DEFINE k == LhFree(m, a)
           n == LhCompact(k)
<1>1. a \in DOMAIN m.heap /\ m.heap[a].holds = "FILE" /\ Emptied(m, a) = {}
  BY DEF Holding, Emptied
<1>2. LhFreed(m, k, a)
  BY <1>1, LhFreeIs
<1> HIDE DEF k
<1>3. /\ Good(k, {}) /\ k.live = m.live /\ k.ad = m.ad
      /\ Used(k.heap) = Used(m.heap) \ One(a)
      /\ \A e \in Used(k.heap) : k.heap[e] = m.heap[e]
      /\ DOMAIN k.sd = DOMAIN m.sd
      /\ \A x \in DOMAIN k.sd : k.sd[x] = m.sd[x] /\ Read(k, x) = Read(m, x)
  BY <1>1, <1>2 DEF LhFreed
<1>4. Holding(k, "ARRAY") = Holding(m, "ARRAY")
  <2>1. ASSUME NEW e
        PROVE  e \in Holding(k, "ARRAY") <=> e \in Holding(m, "ARRAY")
    <3>1. e \in Holding(k, "ARRAY") <=> e \in Used(k.heap) /\ k.heap[e].holds = "ARRAY"
      BY SpaceAssumption DEF Holding, Used, IsFree
    <3>2. e \in Holding(m, "ARRAY") <=> e \in Used(m.heap) /\ m.heap[e].holds = "ARRAY"
      BY SpaceAssumption DEF Holding, Used, IsFree
    <3>3. e \in Holding(m, "ARRAY") => e # a
      BY <1>1 DEF Holding
    <3> QED
      BY <1>3, <3>1, <3>2, <3>3 DEF One
  <2> QED
    BY <2>1
<1>5. \A e \in Holding(m, "ARRAY") : Data(k, e) = Data(m, e)
  <2> TAKE e \in Holding(m, "ARRAY")
  <2>1. e \in Used(k.heap)
    BY <1>4, SpaceAssumption DEF Holding, Used, IsFree
  <2> QED
    BY <1>3, <2>1 DEF Data, End
<1>6. ArrayWords(k) = ArrayWords(m)
  BY <1>4, <1>5 DEF ArrayWords
<1>7. ArrayIs(k)
  <2>1. \A x \in ArrayWords(m) : x \in DOMAIN m.sd
    <3>1. Described(m)
      BY DEF Good
    <3> QED
      BY <3>1, DescribedIs
  <2>2. \A x \in ArrayWords(k) \ Elements(k.ad.at, k.ad.count) : k.sd[x].len = 0
    BY <1>3, <1>6, <2>1 DEF ArrayIs
  <2>3. \/ k.ad.at = 0 /\ k.ad.count = 0 /\ Holding(k, "ARRAY") = {}
        \/ /\ k.ad.at \in Int /\ k.ad.count \in 1 .. MaxElements
           /\ Holding(k, "ARRAY") = {k.ad.at - HEADER}
           /\ Elements(k.ad.at, k.ad.count) \subseteq Data(k, k.ad.at - HEADER)
    <3>1. CASE m.ad.at = 0 /\ m.ad.count = 0 /\ Holding(m, "ARRAY") = {}
      BY <1>3, <1>4, <3>1
    <3>2. CASE /\ m.ad.at \in Int /\ m.ad.count \in 1 .. MaxElements
               /\ Holding(m, "ARRAY") = {m.ad.at - HEADER}
               /\ Elements(m.ad.at, m.ad.count) \subseteq Data(m, m.ad.at - HEADER)
      <4>1. Data(k, m.ad.at - HEADER) = Data(m, m.ad.at - HEADER)
        BY <1>5, <3>2
      <4> QED
        BY <1>3, <1>4, <3>2, <4>1
    <3> QED
      BY <3>1, <3>2 DEF ArrayIs
  <2>4. k.ad = [at |-> k.ad.at, count |-> k.ad.count]
    BY <1>3 DEF ArrayIs
  <2> QED
    BY <2>2, <2>3, <2>4 DEF ArrayIs
<1>8. Shown(m, k)
  <2>1. /\ Statics \subseteq DOMAIN m.sd
        /\ \A i \in 1 .. m.ad.count : m.ad.at + i - 1 \in DOMAIN m.sd
    BY ArrayHas
  <2> QED
    BY <1>3, <2>1 DEF Shown
<1>9. Good(n, {}) /\ ArrayIs(n) /\ Shown(k, n)
  BY <1>3, <1>7, LhCompactIs
<1>10. Shown(m, n)
  BY <1>8, <1>9, ShownOn
<1> HIDE DEF n
<1> QED
  BY <1>9, <1>10 DEF n, k
-----------------------------------------------------------------------------
(* The array made, kept and erased.                                        *)

(* The memory with another array descriptor.                               *)
Readdressed(m, at, count) == [m EXCEPT !.ad = [at |-> at, count |-> count]]

(* It is as good, and every string is where it was.                        *)
LEMMA ReaddressedIs ==
  ASSUME NEW m, Good(m, {}), NEW at, NEW count
  PROVE  LET n == Readdressed(m, at, count)
         IN  /\ Good(n, {}) /\ n.ad = [at |-> at, count |-> count]
             /\ n.heap = m.heap /\ n.sd = m.sd /\ n.live = m.live
             /\ \A a \in DOMAIN m.sd : Read(n, a) = Read(m, a)
<1> DEFINE d == [at |-> at, count |-> count]
           n == [m EXCEPT !.ad = d]
<1>1. IsMemory(m) /\ Described(m) /\ DOMAIN m = Fields
  BY DEF Good, IsMemory
<1> HIDE DEF d
<1>2. IsMemory(n)
  BY <1>1 DEF IsMemory
<1>3. /\ n.ad = d /\ n.space = m.space /\ n.hint = m.hint /\ n.low = m.low
      /\ n.heap = m.heap /\ n.sd = m.sd /\ n.live = m.live
  BY <1>1 DEF Fields
<1> HIDE DEF n
<1>4. m.sd \in [DOMAIN m.sd -> Descriptors]
  BY <1>1 DEF Described
<1>5. Good(n, {})
  BY <1>2, <1>3, <1>4, ResaidIs
<1>6. \A a \in DOMAIN m.sd : Read(n, a) = Read(m, a)
  BY <1>3 DEF Read
<1> QED
  BY <1>3, <1>5, <1>6 DEF Readdressed, n, d

(* The entry of an array is gone, and its descriptors.                     *)
Gone(m, n, a) ==
  /\ Good(n, {}) /\ n.live = m.live /\ n.ad = m.ad
  /\ Used(n.heap) = Used(m.heap) \ One(a)
  /\ \A e \in Used(n.heap) : n.heap[e] = m.heap[e]
  /\ DOMAIN n.sd = DOMAIN m.sd \ Data(m, a)
  /\ \A x \in DOMAIN n.sd : n.sd[x].len = m.sd[x].len /\ Read(n, x) = Read(m, x)

(* B$ERAS.                                                                 *)
LEMMA ErasedIs ==
  ASSUME NEW m, Good(m, {}), NEW at, NEW count, at - HEADER \in Holding(m, "ARRAY"),
         Elements(at, count) \subseteq Data(m, at - HEADER),
         \A x \in Data(m, at - HEADER) : x \notin Elements(at, count) => m.sd[x].len = 0
  PROVE  Gone(m, Erased(m, at, count), at - HEADER)
<1> DEFINE a == at - HEADER
           S == Elements(at, count)
           k == Released(m, S)
           n == LhFree(k, a)
<1>1. a \in DOMAIN m.heap /\ m.heap[a].holds = "ARRAY" /\ Emptied(m, a) = Data(m, a)
  BY DEF Holding, Emptied
<1> HIDE DEF a, S
<1>2. /\ S \subseteq Data(m, a)
      /\ \A x \in Data(m, a) : x \notin S => m.sd[x].len = 0
  BY DEF a, S
<1>3. Data(m, a) \subseteq DOMAIN m.sd
  <2>1. Described(m)
    BY DEF Good
  <2>2. a \in Holding(m, "ARRAY")
    BY <1>1 DEF Holding
  <2>3. Data(m, a) \subseteq ArrayWords(m)
    BY <2>2 DEF ArrayWords
  <2> QED
    BY <2>1, <2>3, DescribedIs
<1>4. Good(k, S) /\ Kept(m, k, S) /\ k.sd = m.sd /\ k.heap = m.heap
  BY <1>2, <1>3, ReleasedIs
<1> HIDE DEF k
<1>5. Emptied(k, a) = Data(m, a) /\ a \in DOMAIN k.heap
  BY <1>1, <1>4 DEF Emptied, Data, End
<1>6. \A x \in Emptied(k, a) : x \in S \/ k.sd[x].len = 0
  BY <1>2, <1>4, <1>5
<1>7. LhFreed(k, n, a)
  BY <1>2, <1>4, <1>5, <1>6, LhFreeIs
<1> HIDE DEF n
<1>8. /\ k.live = m.live /\ k.ad = m.ad
      /\ \A x \in DOMAIN m.sd \ S : k.sd[x].len = m.sd[x].len /\ Read(k, x) = Read(m, x)
  BY <1>4 DEF Kept
<1>9. /\ Good(n, {}) /\ n.live = k.live /\ n.ad = k.ad
      /\ Used(n.heap) = Used(k.heap) \ One(a)
      /\ \A e \in Used(n.heap) : n.heap[e] = k.heap[e]
      /\ DOMAIN n.sd = DOMAIN k.sd \ Emptied(k, a)
      /\ \A x \in DOMAIN n.sd : n.sd[x] = k.sd[x] /\ Read(n, x) = Read(k, x)
  BY <1>7 DEF LhFreed
<1>10. \A x \in DOMAIN n.sd : n.sd[x].len = m.sd[x].len /\ Read(n, x) = Read(m, x)
  BY <1>2, <1>4, <1>5, <1>8, <1>9
<1>11. Gone(m, n, a)
  BY <1>4, <1>5, <1>8, <1>9, <1>10 DEF Gone
<1> QED
  BY <1>11 DEF Erased, a, S, k, n

(* What holds an array.                                                    *)
LEMMA HoldingIs ==
  ASSUME NEW m
  PROVE  \A e : e \in Holding(m, "ARRAY") <=> e \in Used(m.heap) /\ m.heap[e].holds = "ARRAY"
BY SpaceAssumption DEF Holding, Used, IsFree

(* The variables and temporaries are as they were.                         *)
StaticsKept(m, n) ==
  /\ n.live = m.live
  /\ \A d \in Statics : n.sd[d].len = m.sd[d].len /\ Read(n, d) = Read(m, d)

(* ERASE.                                                                  *)
LEMMA EraseIs ==
  ASSUME NEW m, Good(m, {}), ArrayIs(m), m.ad.count > 0
  PROVE  LET n == Readdressed(Erased(m, m.ad.at, m.ad.count), 0, 0)
         IN  Good(n, {}) /\ ArrayIs(n) /\ StaticsKept(m, n) /\ n.ad.count = 0
<1> DEFINE at == m.ad.at
           count == m.ad.count
           a == at - HEADER
           k == Erased(m, at, count)
           n == Readdressed(k, 0, 0)
<1>1. /\ at \in Int /\ count \in 1 .. MaxElements
      /\ Holding(m, "ARRAY") = {a}
      /\ Elements(at, count) \subseteq Data(m, a)
      /\ \A x \in ArrayWords(m) \ Elements(at, count) : m.sd[x].len = 0
  BY DEF ArrayIs
<1>2. ArrayWords(m) = Data(m, a)
  BY <1>1 DEF ArrayWords
<1>3. Gone(m, k, a)
  <2> HIDE DEF at, count
  <2> QED
    BY <1>1, <1>2, ErasedIs
<1> HIDE DEF k, a
<1>4. /\ Good(k, {}) /\ k.live = m.live
      /\ Used(k.heap) = Used(m.heap) \ One(a)
      /\ \A e \in Used(k.heap) : k.heap[e] = m.heap[e]
      /\ DOMAIN k.sd = DOMAIN m.sd \ Data(m, a)
      /\ \A x \in DOMAIN k.sd : k.sd[x].len = m.sd[x].len /\ Read(k, x) = Read(m, x)
  BY <1>3 DEF Gone
<1>5. /\ Good(n, {}) /\ n.ad = [at |-> 0, count |-> 0]
      /\ n.heap = k.heap /\ n.sd = k.sd /\ n.live = k.live
      /\ \A x \in DOMAIN k.sd : Read(n, x) = Read(k, x)
  BY <1>4, ReaddressedIs
<1> HIDE DEF n
<1>6. Holding(n, "ARRAY") = {}
  <2>1. \A e : e \notin Holding(n, "ARRAY")
    BY <1>1, <1>4, <1>5, HoldingIs DEF One
  <2> QED
    BY <2>1
<1>7. ArrayIs(n) /\ n.ad.count = 0
  <2>1. ArrayWords(n) = {}
    BY <1>6 DEF ArrayWords
  <2> QED
    BY <1>5, <1>6, <2>1 DEF ArrayIs
<1>8. StaticsKept(m, n)
  <2>1. Statics \subseteq DOMAIN k.sd
    <3>1. Described(m)
      BY DEF Good
    <3>2. DOMAIN m.sd = Statics \cup Data(m, a) /\ Statics \cap Data(m, a) = {}
      BY <1>2, <3>1, DescribedIs
    <3> QED
      BY <1>4, <3>2
  <2> QED
    BY <1>4, <1>5, <2>1 DEF StaticsKept
<1> QED
  BY <1>5, <1>7, <1>8 DEF n, k

(* A new array: its elements are null, and every other array is as it was. *)
Another(m, k, x, count) ==
  /\ Good(k, {}) /\ x \in Nat /\ k.live = m.live /\ k.ad = m.ad
  /\ \A a : a \in Holding(k, "ARRAY") <=> a \in Holding(m, "ARRAY") \/ a = x
  /\ x \notin Holding(m, "ARRAY")
  /\ \A a \in Holding(m, "ARRAY") : Data(k, a) = Data(m, a)
  /\ Elements(x + HEADER, count) \subseteq Data(k, x)
  /\ DOMAIN k.sd = DOMAIN m.sd \cup Data(k, x) /\ Data(k, x) \cap DOMAIN m.sd = {}
  /\ \A a \in DOMAIN m.sd : k.sd[a].len = m.sd[a].len /\ Read(k, a) = Read(m, a)
  /\ \A a \in Data(k, x) : k.sd[a].len = 0 /\ Read(k, a) = <<>>

(* A new entry of type array is one.                                       *)
LEMMA AnotherIs ==
  ASSUME NEW m, NEW k, NEW x, NEW count \in Nat, Good(k, {}),
         NewEntry(m, k, x, "ARRAY", Smallest + count)
  PROVE  Another(m, k, x, count)
<1>1. /\ k.live = m.live /\ k.ad = m.ad
      /\ UsedMore(m.heap, k.heap, x)
      /\ k.heap[x].holds = "ARRAY" /\ k.heap[x].size \in Nat
      /\ k.heap[x].size >= Smallest + count
      /\ DOMAIN k.sd = DOMAIN m.sd \cup Emptied(k, x)
      /\ Emptied(k, x) \cap DOMAIN m.sd = {}
      /\ \A a \in DOMAIN m.sd : k.sd[a].len = m.sd[a].len /\ Read(k, a) = Read(m, a)
      /\ \A a \in Emptied(k, x) : k.sd[a] = Nul
  BY DEF NewEntry
<1>2. Emptied(k, x) = Data(k, x)
  BY <1>1 DEF Emptied
<1>3. /\ x \in DOMAIN k.heap /\ x \notin Used(m.heap) /\ Used(k.heap) = Used(m.heap) \cup {x}
      /\ \A e \in Used(m.heap) : k.heap[e] = m.heap[e]
  BY <1>1 DEF UsedMore, One
<1>4. x \in Nat
  <2>1. Tiling(k.heap, k.low, TOP)
    BY DEF Good, Regions
  <2> QED
    BY <1>3, <2>1, TilingIs
<1>5. /\ x \notin Holding(m, "ARRAY")
      /\ \A a : a \in Holding(k, "ARRAY") <=> a \in Holding(m, "ARRAY") \/ a = x
  BY <1>1, <1>3, HoldingIs
<1>6. \A a \in Holding(m, "ARRAY") : Data(k, a) = Data(m, a)
  <2> TAKE a \in Holding(m, "ARRAY")
  <2>1. a \in Used(m.heap)
    BY HoldingIs
  <2>2. k.heap[a] = m.heap[a]
    BY <1>3, <2>1
  <2> QED
    BY <2>2 DEF Data, End
<1>7. Elements(x + HEADER, count) \subseteq Data(k, x)
  BY <1>1, <1>4, ConstantsAre DEF Elements, Data, End, Smallest
<1>8. \A a \in Data(k, x) : k.sd[a].len = 0 /\ Read(k, a) = <<>>
  BY <1>1, <1>2, NulIs DEF Read
<1> QED
  BY <1>1, <1>2, <1>4, <1>5, <1>6, <1>7, <1>8 DEF Another

(* DIM.                                                                    *)
LEMMA DimIs ==
  ASSUME NEW m, ArrayIs(m), Good(m, {}), m.ad.count = 0, NEW k, NEW x,
         NEW count \in 1 .. MaxElements, Another(m, k, x, count)
  PROVE  LET n == Readdressed(k, x + HEADER, count)
         IN  /\ Good(n, {}) /\ ArrayIs(n) /\ StaticsKept(m, n) /\ n.ad.count = count
             /\ \A i \in 1 .. count : Read(n, n.ad.at + i - 1) = <<>>
<1> DEFINE at == x + HEADER
           n == Readdressed(k, at, count)
<1>1. /\ Good(k, {}) /\ x \in Nat /\ k.live = m.live
      /\ \A a : a \in Holding(k, "ARRAY") <=> a \in Holding(m, "ARRAY") \/ a = x
      /\ Elements(at, count) \subseteq Data(k, x)
      /\ DOMAIN k.sd = DOMAIN m.sd \cup Data(k, x)
      /\ \A a \in DOMAIN m.sd : k.sd[a].len = m.sd[a].len /\ Read(k, a) = Read(m, a)
      /\ \A a \in Data(k, x) : k.sd[a].len = 0 /\ Read(k, a) = <<>>
  BY DEF Another
<1>2. Holding(m, "ARRAY") = {}
  BY DEF ArrayIs
<1>3. at \in Int /\ at - HEADER = x /\ count \in Nat /\ count \in Int
  BY <1>1, ConstantsAre
<1> HIDE DEF at
<1>4. /\ Good(n, {}) /\ n.ad = [at |-> at, count |-> count]
      /\ n.heap = k.heap /\ n.sd = k.sd /\ n.live = k.live
      /\ \A a \in DOMAIN k.sd : Read(n, a) = Read(k, a)
  BY <1>1, ReaddressedIs
<1> HIDE DEF n
<1>5. Holding(n, "ARRAY") = {x} /\ Data(n, x) = Data(k, x)
  <2>1. \A a : a \in Holding(n, "ARRAY") <=> a = x
    BY <1>1, <1>2, <1>4, HoldingIs
  <2> QED
    BY <1>4, <2>1 DEF Data
<1>6. ArrayWords(n) = Data(k, x)
  BY <1>5 DEF ArrayWords
<1>7. n.ad.at = at /\ n.ad.count = count
  BY <1>4
<1>8. ArrayIs(n)
  <2>1. n.ad = [at |-> n.ad.at, count |-> n.ad.count]
    BY <1>4, <1>7
  <2>2. /\ n.ad.at \in Int /\ n.ad.count \in 1 .. MaxElements
        /\ Holding(n, "ARRAY") = {n.ad.at - HEADER}
        /\ Elements(n.ad.at, n.ad.count) \subseteq Data(n, n.ad.at - HEADER)
    BY <1>1, <1>3, <1>5, <1>7
  <2>3. \A a \in ArrayWords(n) \ Elements(n.ad.at, n.ad.count) : n.sd[a].len = 0
    BY <1>1, <1>4, <1>6
  <2> QED
    BY <2>1, <2>2, <2>3 DEF ArrayIs
<1>9. StaticsKept(m, n)
  <2>1. Statics \subseteq DOMAIN m.sd
    <3>1. Described(m)
      BY DEF Good
    <3> QED
      BY <3>1, DescribedIs
  <2> QED
    BY <1>1, <1>4, <2>1 DEF StaticsKept
<1>10. \A i \in 1 .. count : Read(n, n.ad.at + i - 1) = <<>>
  <2> TAKE i \in 1 .. count
  <2>1. at + i - 1 \in Elements(at, count)
    BY <1>3 DEF Elements
  <2>2. at + i - 1 \in Data(k, x)
    BY <1>1, <2>1
  <2> QED
    BY <1>1, <1>4, <1>7, <2>2
<1> QED
  BY <1>4, <1>7, <1>8, <1>9, <1>10 DEF n, at

(* Where an element was that is kept.                                      *)
Source(from, to, kept, x) == IF x \in Elements(to, kept) THEN x - to + from ELSE x

(* The elements kept are in the new array, and no others have changed.     *)
CarriedOver(m, n, from, to, kept) ==
  /\ Good(n, {}) /\ n.heap = m.heap /\ n.live = m.live /\ n.ad = m.ad
  /\ DOMAIN n.sd = DOMAIN m.sd
  /\ \A x \in Elements(from, kept) : n.sd[x].len = 0
  /\ \A x \in DOMAIN m.sd :
       x \notin Elements(from, kept) =>
         LET y == Source(from, to, kept, x)
         IN  n.sd[x].len = m.sd[y].len /\ Read(n, x) = Read(m, y)

(* `preserve`.                                                             *)
LEMMA CarriedIs ==
  ASSUME NEW m, Good(m, {}), NEW from \in Int, NEW to \in Int, NEW kept \in Nat,
         Elements(from, kept) \subseteq DOMAIN m.sd, Elements(to, kept) \subseteq DOMAIN m.sd,
         Elements(from, kept) \cap Elements(to, kept) = {},
         \A x \in Elements(to, kept) : m.sd[x].len = 0
  PROVE  CarriedOver(m, Carried(m, from, to, kept), from, to, kept)
<1> DEFINE S == Elements(from, kept)
           T == Elements(to, kept)
           delta == to - from
           k == OwnersMoved(m, S, delta)
           src(x) == Source(from, to, kept, x)
           sd == [a \in DOMAIN m.sd |->
                    IF a \in T THEN m.sd[a - to + from] ELSE IF a \in S THEN Nul ELSE m.sd[a]]
           n == Resaid(k, sd)
<1>1. IsMemory(m) /\ Regions(m) /\ Described(m) /\ Owning(m, {})
  BY DEF Good
<1>2. OwnersShifted(m, k, S, delta)
  BY OwnersMovedIs
<1>3. /\ IsMemory(k) /\ k.hint = m.hint /\ k.low = m.low /\ k.heap = m.heap
      /\ k.sd = m.sd /\ k.live = m.live /\ k.ad = m.ad
      /\ DOMAIN k.space = DOMAIN m.space
      /\ \A e \in DOMAIN m.space :
           k.space[e] = [holds |-> k.space[e].holds, size |-> m.space[e].size,
                         data |-> m.space[e].data]
      /\ \A e \in DOMAIN m.space : IsFree(m.space[e]) => IsFree(k.space[e])
      /\ \A a \in DOMAIN m.sd :
           m.sd[a].len > 0 =>
             k.space[EntryOf(m.sd[a])].holds = IF a \in S THEN a + delta ELSE a
  BY <1>2 DEF OwnersShifted
<1>4. Carried(m, from, to, kept) = n
  <2>1. Carried(m, from, to, kept) =
          [k EXCEPT !.sd = [a \in DOMAIN k.sd |->
             IF a \in T THEN k.sd[a - to + from] ELSE IF a \in S THEN Nul ELSE k.sd[a]]]
    BY DEF Carried, Copied
  <2> HIDE DEF k, S, T
  <2> QED
    BY <1>3, <2>1 DEF Resaid
<1>5. /\ \A x \in T : /\ x \in Int /\ x - to + from \in S /\ x - to + from \in Int
                      /\ (x - to + from) + delta = x
      /\ \A x \in S : x \in Int /\ x + delta \in T /\ (x + delta) - to + from = x
  BY DEF Elements
<1> HIDE DEF k
<1>6. /\ S \subseteq DOMAIN m.sd /\ T \subseteq DOMAIN m.sd /\ S \cap T = {}
      /\ \A x \in T : m.sd[x].len = 0
  OBVIOUS
<1>7. /\ \A x \in T : src(x) = x - to + from
      /\ \A x \in DOMAIN m.sd : x \notin T => src(x) = x
  BY DEF Source
<1> HIDE DEF S, T, src
<1>8. /\ IsMemory(n) /\ n.sd = sd
      /\ n.space = k.space /\ n.hint = m.hint /\ n.low = m.low /\ n.heap = m.heap
      /\ n.live = m.live /\ n.ad = m.ad
  BY <1>3, ResaidMemory
<1>9. /\ DOMAIN sd = DOMAIN m.sd
      /\ \A x \in S : sd[x] = Nul
      /\ \A x \in DOMAIN m.sd : x \notin S => sd[x] = m.sd[src(x)] /\ src(x) \in DOMAIN m.sd
  <2>1. \A x \in S : sd[x] = Nul
    BY <1>6
  <2>2. \A x \in DOMAIN m.sd : x \notin S => sd[x] = m.sd[src(x)]
    BY <1>7
  <2>3. \A x \in DOMAIN m.sd : src(x) \in DOMAIN m.sd
    BY <1>5, <1>6, <1>7
  <2> QED
    BY <2>1, <2>2, <2>3
<1> HIDE DEF n
<1>10. sd \in [DOMAIN m.sd -> Descriptors]
  <2>1. \A x \in DOMAIN m.sd : m.sd[x] \in Descriptors
    BY <1>1, DescribedIs
  <2>2. \A x \in DOMAIN m.sd : sd[x] \in Descriptors
    <3> HIDE DEF sd
    <3> QED
      BY <1>9, <2>1, NulIs
  <2> HIDE DEF Descriptors
  <2> QED
    BY <2>2
<1> HIDE DEF sd
<1>11. Described(n)
  <2>1. ArrayWords(n) = ArrayWords(m)
    BY <1>8 DEF ArrayWords, Holding, Data
  <2>2. DOMAIN m.sd = Statics \cup ArrayWords(m)
    BY <1>1, DescribedIs
  <2> QED
    BY <1>8, <1>10, <2>1, <2>2 DEF Described
<1> DEFINE w == [x \in DOMAIN m.sd \ S |-> src(x)]
<1>12. \A x \in DOMAIN m.sd \ S :
         m.sd[src(x)].len > 0 => n.space[EntryOf(m.sd[src(x)])].holds = x
  <2> TAKE x \in DOMAIN m.sd \ S
  <2> SUFFICES ASSUME m.sd[src(x)].len > 0
               PROVE  n.space[EntryOf(m.sd[src(x)])].holds = x
    OBVIOUS
  <2> DEFINE y == src(x)
  <2>1. y \in DOMAIN m.sd /\ m.sd[y].len > 0
    BY <1>9
  <2>2. x = IF y \in S THEN y + delta ELSE y
    BY <1>5, <1>7
  <2> HIDE DEF y
  <2>3. n.space[EntryOf(m.sd[y])].holds = IF y \in S THEN y + delta ELSE y
    BY <1>3, <1>8, <2>1
  <2> QED
    BY <2>2, <2>3 DEF y
<1>13. \A a \in DOMAIN m.sd : m.sd[a].len > 0 => \E x \in DOMAIN w : w[x] = a
  <2> TAKE a \in DOMAIN m.sd
  <2> SUFFICES ASSUME m.sd[a].len > 0
               PROVE  \E x \in DOMAIN w : w[x] = a
    OBVIOUS
  <2>1. CASE a \in S
    <3> DEFINE x == a + delta
    <3>1. x \in T /\ x - to + from = a
      BY <1>5, <2>1
    <3> HIDE DEF x
    <3>2. x \in DOMAIN m.sd \ S /\ src(x) = a
      BY <1>6, <1>7, <3>1
    <3> QED
      BY <3>2
  <2>2. CASE a \notin S
    <3>1. a \notin T
      BY <1>6
    <3>2. src(a) = a
      BY <1>7, <3>1
    <3> QED
      BY <2>2, <3>2
  <2> QED
    BY <2>1, <2>2
<1>14. /\ DOMAIN w = DOMAIN m.sd \ S
       /\ \A x \in DOMAIN m.sd \ S : w[x] = src(x)
  OBVIOUS
<1> HIDE DEF w
<1>15. Rehung(m, n, {}, w)
  <2>1. /\ DOMAIN n.space = DOMAIN m.space
        /\ \A e \in DOMAIN m.space :
             n.space[e] = [holds |-> n.space[e].holds, size |-> m.space[e].size,
                           data |-> m.space[e].data]
        /\ \A e \in DOMAIN m.space : IsFree(m.space[e]) => IsFree(n.space[e])
    BY <1>3, <1>8
  <2>2. \A x \in DOMAIN w : /\ x \in DOMAIN n.sd /\ w[x] \in DOMAIN m.sd
                            /\ n.sd[x] = m.sd[w[x]]
    BY <1>8, <1>9, <1>14
  <2>3. \A x \in DOMAIN w : m.sd[w[x]].len > 0 => n.space[EntryOf(m.sd[w[x]])].holds = x
    BY <1>12, <1>14
  <2>4. \A x \in DOMAIN n.sd : x \notin DOMAIN w => n.sd[x].len = 0
    BY <1>8, <1>9, <1>14, NulIs
  <2>5. /\ Tiling(n.heap, n.low, TOP)
        /\ \A e \in DOMAIN n.heap : n.heap[e] \in HeapEntries /\ n.heap[e].size >= Smallest
    BY <1>1, <1>8 DEF Regions
  <2> QED
    BY <1>8, <1>11, <1>13, <2>1, <2>2, <2>3, <2>4, <2>5 DEF Rehung
<1>16. /\ Good(n, {})
       /\ \A x \in DOMAIN w : n.sd[x].len = m.sd[w[x]].len /\ Read(n, x) = Read(m, w[x])
  BY <1>15, RehungIs
<1>17. \A x \in DOMAIN m.sd \ S : n.sd[x].len = m.sd[src(x)].len /\ Read(n, x) = Read(m, src(x))
  BY <1>14, <1>16
<1>18. \A x \in S : n.sd[x].len = 0
  BY <1>8, <1>9, NulIs
<1>19. CarriedOver(m, n, from, to, kept)
  BY <1>8, <1>9, <1>16, <1>17, <1>18 DEF CarriedOver, S, src
<1> QED
  BY <1>4, <1>19

(* How many elements REDIM PRESERVE keeps.                                 *)
KeptOf(m, count) == IF count < m.ad.count THEN count ELSE m.ad.count

(* REDIM PRESERVE.                                                         *)
LEMMA PreserveIs ==
  ASSUME NEW m, ArrayIs(m), Good(m, {}), m.ad.count > 0, NEW k, NEW x,
         NEW count \in 1 .. MaxElements, Another(m, k, x, count)
  PROVE  LET c == Carried(k, m.ad.at, x + HEADER, KeptOf(m, count))
             n == Readdressed(Erased(c, m.ad.at, m.ad.count), x + HEADER, count)
         IN  /\ Good(n, {}) /\ ArrayIs(n) /\ StaticsKept(m, n) /\ n.ad.count = count
             /\ \A i \in 1 .. count :
                  Read(n, n.ad.at + i - 1) = IF i <= m.ad.count THEN Read(m, m.ad.at + i - 1)
                                             ELSE <<>>
<1> DEFINE at == m.ad.at
           old == m.ad.count
           a == at - HEADER
           to == x + HEADER
           kept == KeptOf(m, count)
           c == Carried(k, at, to, kept)
           e == Erased(c, at, old)
           n == Readdressed(e, to, count)
           S == Elements(at, kept)
           T == Elements(to, kept)
<1>1. /\ Good(k, {}) /\ x \in Nat /\ k.live = m.live
      /\ \A b : b \in Holding(k, "ARRAY") <=> b \in Holding(m, "ARRAY") \/ b = x
      /\ x \notin Holding(m, "ARRAY")
      /\ \A b \in Holding(m, "ARRAY") : Data(k, b) = Data(m, b)
      /\ Elements(to, count) \subseteq Data(k, x)
      /\ DOMAIN k.sd = DOMAIN m.sd \cup Data(k, x) /\ Data(k, x) \cap DOMAIN m.sd = {}
      /\ \A b \in DOMAIN m.sd : k.sd[b].len = m.sd[b].len /\ Read(k, b) = Read(m, b)
      /\ \A b \in Data(k, x) : k.sd[b].len = 0 /\ Read(k, b) = <<>>
  BY DEF Another
<1>2. /\ at \in Int /\ old \in 1 .. MaxElements
      /\ Holding(m, "ARRAY") = {a} /\ Elements(at, old) \subseteq Data(m, a)
      /\ \A b \in ArrayWords(m) \ Elements(at, old) : m.sd[b].len = 0
  BY DEF ArrayIs
<1>3. /\ old \in Nat /\ count \in Nat /\ kept \in Nat /\ to \in Int /\ to - HEADER = x
      /\ kept <= old /\ kept <= count /\ \A i \in 1 .. count : i <= kept <=> i <= old
      /\ old > 0
  BY <1>1, <1>2, ConstantsAre DEF KeptOf
<1> HIDE DEF at, old, a, to, kept
<1>4. /\ ArrayWords(m) = Data(m, a)
      /\ DOMAIN m.sd = Statics \cup Data(m, a) /\ Statics \cap Data(m, a) = {}
  <2>1. Described(m)
    BY DEF Good
  <2>2. ArrayWords(m) = Data(m, a)
    BY <1>2 DEF ArrayWords
  <2> QED
    BY <2>1, <2>2, DescribedIs
<1>5. S \subseteq Elements(at, old) /\ T \subseteq Elements(to, count)
  BY <1>2, <1>3 DEF Elements
<1> HIDE DEF S, T
<1>6. /\ S \subseteq Data(m, a) /\ S \subseteq DOMAIN k.sd
      /\ T \subseteq Data(k, x) /\ T \subseteq DOMAIN k.sd /\ S \cap T = {}
      /\ \A b \in T : k.sd[b].len = 0
  BY <1>1, <1>2, <1>4, <1>5
<1>7. CarriedOver(k, c, at, to, kept)
  BY <1>1, <1>2, <1>3, <1>6, CarriedIs DEF S, T
<1> HIDE DEF c
<1>8. /\ Good(c, {}) /\ c.heap = k.heap /\ c.live = k.live /\ DOMAIN c.sd = DOMAIN k.sd
      /\ \A y \in S : c.sd[y].len = 0
      /\ \A y \in DOMAIN k.sd :
           y \notin S => /\ c.sd[y].len = k.sd[Source(at, to, kept, y)].len
                         /\ Read(c, y) = Read(k, Source(at, to, kept, y))
  BY <1>7 DEF CarriedOver, S
<1>9. \A y \in DOMAIN k.sd :
        y \notin S /\ y \notin T => c.sd[y].len = k.sd[y].len /\ Read(c, y) = Read(k, y)
  BY <1>8 DEF Source, T
<1>10. /\ \A b : b \in Holding(c, "ARRAY") <=> b = a \/ b = x
       /\ Data(c, a) = Data(m, a) /\ Data(c, x) = Data(k, x) /\ a # x
  BY <1>1, <1>2, <1>8 DEF Holding, Data
<1>11. \A y \in Data(m, a) : y \notin Elements(at, old) => c.sd[y].len = 0
  <2> TAKE y \in Data(m, a)
  <2> SUFFICES ASSUME y \notin Elements(at, old)
               PROVE  c.sd[y].len = 0
    OBVIOUS
  <2>1. y \notin S /\ y \notin T /\ y \in DOMAIN k.sd /\ y \in DOMAIN m.sd
    BY <1>1, <1>4, <1>5, <1>6
  <2>2. m.sd[y].len = 0
    BY <1>2, <1>4
  <2> QED
    BY <1>1, <1>9, <2>1, <2>2
<1>12. Gone(c, e, a)
  <2>1. at - HEADER \in Holding(c, "ARRAY") /\ at - HEADER = a
    BY <1>10 DEF a
  <2>2. Elements(at, old) \subseteq Data(c, a)
    BY <1>2, <1>10
  <2>3. \A y \in Data(c, a) : y \notin Elements(at, old) => c.sd[y].len = 0
    BY <1>10, <1>11
  <2> QED
    BY <1>8, <2>1, <2>2, <2>3, ErasedIs
<1> HIDE DEF e
<1>13. /\ Good(e, {}) /\ e.live = c.live
       /\ Used(e.heap) = Used(c.heap) \ One(a)
       /\ \A b \in Used(e.heap) : e.heap[b] = c.heap[b]
       /\ DOMAIN e.sd = DOMAIN c.sd \ Data(c, a)
       /\ \A y \in DOMAIN e.sd : e.sd[y].len = c.sd[y].len /\ Read(e, y) = Read(c, y)
  BY <1>12 DEF Gone
<1>14. /\ Good(n, {}) /\ n.ad = [at |-> to, count |-> count]
       /\ n.heap = e.heap /\ n.sd = e.sd /\ n.live = e.live
       /\ \A y \in DOMAIN e.sd : Read(n, y) = Read(e, y)
  BY <1>13, ReaddressedIs
<1> HIDE DEF n
<1>15. n.ad.at = to /\ n.ad.count = count
  BY <1>14
<1>16. Holding(n, "ARRAY") = {x} /\ Data(n, x) = Data(k, x)
  <2>1. \A b : b \in Holding(n, "ARRAY") <=> b = x
    BY <1>10, <1>13, <1>14, HoldingIs DEF One
  <2>2. x \in Used(e.heap)
    BY <1>14, <2>1, HoldingIs
  <2>3. n.heap[x] = c.heap[x]
    BY <1>13, <1>14, <2>2
  <2> QED
    BY <1>10, <2>1, <2>3 DEF Data, End
<1>17. ArrayWords(n) = Data(k, x)
  BY <1>16 DEF ArrayWords
<1>18. \A y \in Data(k, x) : y \in DOMAIN e.sd /\ y \notin S /\ y \in DOMAIN k.sd
  BY <1>1, <1>4, <1>6, <1>8, <1>10, <1>13
<1>19. ArrayIs(n)
  <2>1. n.ad = [at |-> n.ad.at, count |-> n.ad.count]
    BY <1>14, <1>15
  <2>2. /\ n.ad.at \in Int /\ n.ad.count \in 1 .. MaxElements
        /\ Holding(n, "ARRAY") = {n.ad.at - HEADER}
        /\ Elements(n.ad.at, n.ad.count) \subseteq Data(n, n.ad.at - HEADER)
    BY <1>1, <1>3, <1>15, <1>16 DEF to
  <2>3. \A y \in ArrayWords(n) \ Elements(n.ad.at, n.ad.count) : n.sd[y].len = 0
    <3> TAKE y \in ArrayWords(n) \ Elements(n.ad.at, n.ad.count)
    <3>1. y \in Data(k, x) /\ y \notin T
      BY <1>5, <1>15, <1>17
    <3> QED
      BY <1>1, <1>9, <1>13, <1>14, <1>18, <3>1
  <2> QED
    BY <2>1, <2>2, <2>3 DEF ArrayIs
<1>20. StaticsKept(m, n)
  <2>1. \A d \in Statics : /\ d \in DOMAIN m.sd /\ d \in DOMAIN k.sd /\ d \in DOMAIN e.sd
                           /\ d \notin S /\ d \notin T
    BY <1>1, <1>4, <1>6, <1>8, <1>10, <1>13
  <2>2. \A d \in Statics : n.sd[d].len = m.sd[d].len /\ Read(n, d) = Read(m, d)
    BY <1>1, <1>9, <1>13, <1>14, <2>1
  <2>3. n.live = m.live
    BY <1>1, <1>8, <1>13, <1>14
  <2> QED
    BY <2>2, <2>3 DEF StaticsKept
<1>21. \A i \in 1 .. count :
         Read(n, n.ad.at + i - 1) = IF i <= old THEN Read(m, at + i - 1) ELSE <<>>
  <2> TAKE i \in 1 .. count
  <2> DEFINE y == to + i - 1
             z == at + i - 1
  <2>1. y \in Elements(to, count) /\ y \in Int /\ i \in Int /\ z \in Int /\ y - to + at = z
    BY <1>2, <1>3 DEF Elements
  <2>2. (y \in T <=> i <= old) /\ (i <= old => z \in Elements(at, old))
    BY <1>2, <1>3, <2>1 DEF Elements, T
  <2>3. y \in Data(k, x)
    BY <1>1, <2>1
  <2>4. Read(n, y) = Read(k, Source(at, to, kept, y))
    BY <1>8, <1>13, <1>14, <1>18, <2>3
  <2>5. CASE i <= old
    <3>1. Source(at, to, kept, y) = z
      BY <2>1, <2>2, <2>5 DEF Source, T
    <3>2. z \in DOMAIN m.sd
      BY <1>2, <1>4, <2>2, <2>5
    <3> QED
      BY <1>1, <1>15, <2>4, <2>5, <3>1, <3>2
  <2>6. CASE ~(i <= old)
    <3>1. Source(at, to, kept, y) = y
      BY <2>2, <2>6 DEF Source, T
    <3> QED
      BY <1>1, <1>15, <2>3, <2>4, <2>6, <3>1
  <2> QED
    BY <2>5, <2>6
<1> QED
  BY <1>14, <1>15, <1>19, <1>20, <1>21 DEF at, old, a, to, kept, c, e, n
-----------------------------------------------------------------------------
(* The program's strings.                                                  *)

(* The descriptor `to` has the string of the temporary t, which is free.   *)
Adopted(m, n, t, to) ==
  /\ Good(n, {}) /\ n.live = m.live \ One(t) /\ n.ad = m.ad /\ SameUsed(m.heap, n.heap)
  /\ DOMAIN n.sd = DOMAIN m.sd /\ n.sd[t] = Nul
  /\ n.sd[to].len = m.sd[t].len /\ Read(n, to) = Read(m, t)
  /\ \A x \in DOMAIN m.sd :
       x # t /\ x # to => n.sd[x].len = m.sd[x].len /\ Read(n, x) = Read(m, x)

(* `str_adopt`, once `to` gave up its own.                                 *)
Adopting(m, t, to) ==
  LET sd == m.sd[t]
  IN  [m EXCEPT !.space[EntryOf(sd)].holds = to,
                !.sd[to] = sd, !.sd[t] = Nul, !.live = @ \ {t}]

(* B$SASS of a temporary gives `to` its string.                            *)
LEMMA AdoptIs ==
  ASSUME NEW m, Good(m, {}), NEW t \in DOMAIN m.sd, NEW to \in DOMAIN m.sd, t # to,
         m.sd[t].len > 0,
         NEW r, r = Released(m, {to}), NEW n, n = Adopting(r, t, to)
  PROVE  Adopted(m, n, t, to)
<1> DEFINE X == {to}
           sd == r.sd[t]
           e == EntryOf(sd)
           entry == [r.space[e] EXCEPT !.holds = to]
           space == [r.space EXCEPT ![e] = entry]
           sds == [[r.sd EXCEPT ![to] = sd] EXCEPT ![t] = Nul]
           live == r.live \ {t}
<1>1. Good(r, X) /\ Kept(m, r, X) /\ r.sd = m.sd
  BY ReleasedIs
<1>2. IsMemory(r) /\ Regions(r) /\ Described(r) /\ DOMAIN r = Fields
  BY <1>1 DEF Good, IsMemory
<1>3. n = [r EXCEPT !.space = space, !.sd = sds, !.live = live]
  BY <1>2 DEF Adopting, Fields
<1>4. /\ e \in Used(r.space) /\ e \in DOMAIN r.space /\ r.space[e].holds = t
      /\ sd = m.sd[t]
  BY <1>1, OwnsIs
<1>5. /\ DOMAIN space = DOMAIN r.space
      /\ space[e] = entry /\ \A b \in DOMAIN r.space : b # e => space[b] = r.space[b]
  BY <1>4
<1>6. /\ DOMAIN sds = DOMAIN m.sd /\ sds[t] = Nul /\ sds[to] = m.sd[t]
      /\ \A x \in DOMAIN m.sd : x # t /\ x # to => sds[x] = m.sd[x]
  BY <1>1, <1>4
<1>7. /\ \A b \in DOMAIN r.space :
           r.space[b] = [holds |-> r.space[b].holds, size |-> r.space[b].size,
                         data |-> r.space[b].data]
      /\ entry = [holds |-> to, size |-> r.space[e].size, data |-> r.space[e].data]
  <2>1. \A b \in DOMAIN r.space : r.space[b] \in SpaceEntries
    BY <1>2 DEF Regions
  <2>2. \A b \in DOMAIN r.space :
          r.space[b] = [holds |-> r.space[b].holds, size |-> r.space[b].size,
                        data |-> r.space[b].data]
    BY <2>1 DEF SpaceEntries
  <2>3. entry = [holds |-> to, size |-> r.space[e].size, data |-> r.space[e].data]
    <3> DEFINE v == r.space[e]
    <3>1. v = [holds |-> v.holds, size |-> v.size, data |-> v.data]
      BY <1>4, <2>2
    <3>2. entry = [v EXCEPT !.holds = to]
      OBVIOUS
    <3> HIDE DEF v, entry
    <3>3. entry = [holds |-> to, size |-> v.size, data |-> v.data]
      BY <3>1, <3>2
    <3> QED
      BY <3>3 DEF v
  <2> QED
    BY <2>2, <2>3
<1> HIDE DEF e, entry, space, sds, live
<1>8. IsMemory(n)
  BY <1>2, <1>3 DEF IsMemory
<1>9. /\ n.space = space /\ n.sd = sds /\ n.live = live /\ n.hint = r.hint /\ n.low = r.low
      /\ n.heap = r.heap /\ n.ad = r.ad
  BY <1>2, <1>3 DEF Fields
<1>10. Described(n)
  <2>1. sds \in [DOMAIN m.sd -> Descriptors]
    <3>1. sds = [x \in DOMAIN m.sd |-> sds[x]]
      BY <1>1 DEF sds
    <3>2. \A x \in DOMAIN m.sd : sds[x] \in Descriptors
      <4>1. \A x \in DOMAIN m.sd : m.sd[x] \in Descriptors
        BY <1>1, <1>2, DescribedIs
      <4> QED
        BY <1>6, <4>1, NulIs
    <3> HIDE DEF Descriptors
    <3> QED
      BY <3>1, <3>2
  <2>2. ArrayWords(n) = ArrayWords(r)
    <3>1. SameUsed(r.heap, n.heap)
      BY <1>9 DEF SameUsed
    <3> QED
      BY <3>1, SameArrays
  <2>3. DOMAIN m.sd = Statics \cup ArrayWords(r)
    BY <1>1, <1>2, DescribedIs
  <2> QED
    BY <1>9, <2>1, <2>2, <2>3 DEF Described
<1> DEFINE was(x) == IF x = to THEN t ELSE x
           w == [x \in DOMAIN m.sd \ {t} |-> was(x)]
<1>11. \A x \in DOMAIN m.sd :
         x # t /\ x # to /\ m.sd[x].len > 0 =>
           /\ EntryOf(m.sd[x]) # e /\ EntryOf(m.sd[x]) \in DOMAIN r.space
           /\ r.space[EntryOf(m.sd[x])].holds = x
  <2> TAKE x \in DOMAIN m.sd
  <2> SUFFICES ASSUME x # t, x # to, m.sd[x].len > 0
               PROVE  /\ EntryOf(m.sd[x]) # e /\ EntryOf(m.sd[x]) \in DOMAIN r.space
                      /\ r.space[EntryOf(m.sd[x])].holds = x
    OBVIOUS
  <2>1. x \in DOMAIN r.sd /\ x \notin X /\ r.sd[x].len > 0 /\ r.sd[x] = m.sd[x]
    BY <1>1
  <2>2. EntryOf(r.sd[x]) \in DOMAIN r.space /\ r.space[EntryOf(r.sd[x])].holds = x
    BY <1>1, <2>1, OwnsIs
  <2> QED
    BY <1>4, <2>1, <2>2
<1>12. \A x \in DOMAIN m.sd \ {t} :
         m.sd[was(x)].len > 0 => n.space[EntryOf(m.sd[was(x)])].holds = x
  <2> TAKE x \in DOMAIN m.sd \ {t}
  <2>1. CASE x = to
    BY <1>4, <1>5, <1>7, <1>9, <2>1 DEF e
  <2>2. CASE x # to
    <3> SUFFICES ASSUME m.sd[x].len > 0
                 PROVE  n.space[EntryOf(m.sd[x])].holds = x
      BY <2>2
    <3> DEFINE b == EntryOf(m.sd[x])
    <3>1. b # e /\ b \in DOMAIN r.space /\ r.space[b].holds = x
      BY <1>11, <2>2
    <3> HIDE DEF b
    <3>2. n.space[b] = r.space[b]
      BY <1>5, <1>9, <3>1
    <3> QED
      BY <3>1, <3>2 DEF b
  <2> QED
    BY <2>1, <2>2
<1>13. Rehung(r, n, X, w)
  <2>1. /\ DOMAIN n.space = DOMAIN r.space
        /\ \A b \in DOMAIN r.space :
             n.space[b] = [holds |-> n.space[b].holds, size |-> r.space[b].size,
                           data |-> r.space[b].data]
        /\ \A b \in DOMAIN r.space : IsFree(r.space[b]) => IsFree(n.space[b])
    <3>1. ~IsFree(r.space[e])
      BY <1>4 DEF Used
    <3>2. \A b \in DOMAIN r.space :
            n.space[b] = [holds |-> n.space[b].holds, size |-> r.space[b].size,
                          data |-> r.space[b].data]
      <4> TAKE b \in DOMAIN r.space
      <4>1. CASE b = e
        <5>1. n.space[e] = [holds |-> to, size |-> r.space[e].size, data |-> r.space[e].data]
          BY <1>5, <1>7, <1>9
        <5>2. n.space[e].holds = to
          BY <5>1
        <5> QED
          BY <4>1, <5>1, <5>2
      <4>2. CASE b # e
        BY <1>5, <1>7, <1>9, <4>2
      <4> QED
        BY <4>1, <4>2
    <3> QED
      BY <1>5, <1>9, <3>1, <3>2
  <2>2. \A x \in DOMAIN w :
          /\ x \in DOMAIN n.sd /\ w[x] \in DOMAIN r.sd /\ w[x] \notin X /\ n.sd[x] = r.sd[w[x]]
          /\ r.sd[w[x]].len > 0 => n.space[EntryOf(r.sd[w[x]])].holds = x
    <3> TAKE x \in DOMAIN w
    <3>1. x \in DOMAIN m.sd \ {t} /\ w[x] = was(x)
      OBVIOUS
    <3>2. was(x) \in DOMAIN m.sd /\ was(x) \notin X /\ sds[x] = m.sd[was(x)]
      BY <1>6, <3>1
    <3> HIDE DEF w, was
    <3>3. m.sd[was(x)].len > 0 => n.space[EntryOf(m.sd[was(x)])].holds = x
      BY <1>12, <3>1
    <3> QED
      BY <1>1, <1>6, <1>9, <3>1, <3>2, <3>3
  <2>3. \A x \in DOMAIN n.sd : x \notin DOMAIN w => n.sd[x].len = 0
    BY <1>6, <1>9, NulIs
  <2>4. \A a \in DOMAIN r.sd : a \notin X /\ r.sd[a].len > 0 => \E x \in DOMAIN w : w[x] = a
    <3> TAKE a \in DOMAIN r.sd
    <3>1. CASE a = t
      <4>1. to \in DOMAIN w /\ w[to] = a
        BY <3>1
      <4> QED
        BY <4>1
    <3>2. CASE a # t /\ a # to
      <4>1. a \in DOMAIN w /\ w[a] = a
        BY <1>1, <3>2
      <4> QED
        BY <4>1
    <3> QED
      BY <3>1, <3>2
  <2> HIDE DEF w, X
  <2>5. /\ Tiling(n.heap, n.low, TOP)
        /\ \A b \in DOMAIN n.heap : n.heap[b] \in HeapEntries /\ n.heap[b].size >= Smallest
    BY <1>2, <1>9 DEF Regions
  <2> QED
    BY <1>1, <1>8, <1>9, <1>10, <2>1, <2>2, <2>3, <2>4, <2>5 DEF Rehung
<1>14. /\ \A x \in DOMAIN m.sd \ {t} : x \in DOMAIN w /\ w[x] = was(x)
       /\ was(to) = t /\ \A x : x # to => was(x) = x
  OBVIOUS
<1>20. \A a \in DOMAIN m.sd : a \in X <=> a = to
  OBVIOUS
<1> HIDE DEF w, was, X
<1>15. /\ Good(n, {})
       /\ \A x \in DOMAIN w : n.sd[x].len = r.sd[w[x]].len /\ Read(n, x) = Read(r, w[x])
  <2>1. Good(n, {})
    BY <1>13, RehungIs
  <2>2. \A x \in DOMAIN w : n.sd[x].len = r.sd[w[x]].len
    BY <1>13, RehungIs
  <2>3. \A x \in DOMAIN w : Read(n, x) = Read(r, w[x])
    BY <1>13, RehungIs
  <2> QED
    BY <2>1, <2>2, <2>3
<1>16. /\ r.live = m.live /\ r.ad = m.ad /\ SameUsed(m.heap, r.heap)
       /\ \A a \in DOMAIN m.sd :
            a # to => r.sd[a].len = m.sd[a].len /\ Read(r, a) = Read(m, a)
  BY <1>1, <1>20 DEF Kept
<1>17. n.sd[to].len = m.sd[t].len /\ Read(n, to) = Read(m, t)
  <2>1. to \in DOMAIN w /\ w[to] = t
    BY <1>14
  <2>2. r.sd[t].len = m.sd[t].len /\ Read(r, t) = Read(m, t)
    BY <1>16
  <2> QED
    BY <1>15, <2>1, <2>2
<1>18. \A x \in DOMAIN m.sd :
         x # t /\ x # to => n.sd[x].len = m.sd[x].len /\ Read(n, x) = Read(m, x)
  <2> TAKE x \in DOMAIN m.sd
  <2> SUFFICES ASSUME x # t, x # to
               PROVE  n.sd[x].len = m.sd[x].len /\ Read(n, x) = Read(m, x)
    OBVIOUS
  <2>1. x \in DOMAIN w /\ w[x] = x
    BY <1>14
  <2>2. r.sd[x].len = m.sd[x].len /\ Read(r, x) = Read(m, x)
    BY <1>16
  <2> QED
    BY <1>15, <2>1, <2>2
<1>19. n.live = m.live \ One(t) /\ n.sd[t] = Nul
  BY <1>6, <1>9, <1>16 DEF One, live
<1> QED
  BY <1>6, <1>9, <1>15, <1>16, <1>17, <1>18, <1>19 DEF Adopted
-----------------------------------------------------------------------------
(* The temporaries in use are those that have a string.                    *)
TempsAre(m) ==
  /\ m.live \subseteq ToSet(Temps)
  /\ \A t \in ToSet(Temps) : t \in m.live <=> m.sd[t].len > 0

(* The program's names are those of different descriptors.                 *)
LEMMA AddressIs ==
  ASSUME NEW m, Good(m, {}), ArrayIs(m), TempsAre(m)
  PROVE  /\ Known(m) \subseteq Names
         /\ \A d \in Known(m) : AddressOf(m, d) \in DOMAIN m.sd
         /\ \A d \in Statics : AddressOf(m, d) = d /\ d \in DOMAIN m.sd
         /\ \A d \in 1 .. m.ad.count : /\ AddressOf(m, d) = m.ad.at + d - 1 /\ d \notin Statics
                                       /\ AddressOf(m, d) \notin Statics
                                       /\ d \in 1 .. MaxElements
         /\ \A c, d \in Known(m) : AddressOf(m, c) = AddressOf(m, d) => c = d
<1>1. /\ m.ad.count \in 0 .. MaxElements /\ m.ad.count \in Nat /\ m.ad.at \in Int
      /\ Statics \subseteq DOMAIN m.sd
      /\ \A a \in Elements(m.ad.at, m.ad.count) : a \in DOMAIN m.sd /\ a \notin Statics
      /\ \A i \in 1 .. m.ad.count : m.ad.at + i - 1 \in Elements(m.ad.at, m.ad.count)
  BY ArrayHas
<1>2. Statics \cap Int = {}
  BY SpaceAssumption
<1>3. \A d \in Statics : AddressOf(m, d) = d /\ d \in DOMAIN m.sd
  BY <1>1 DEF AddressOf
<1>4. \A d \in 1 .. m.ad.count :
        /\ d \in Int /\ d \in 1 .. MaxElements /\ d \notin Statics
        /\ AddressOf(m, d) = m.ad.at + d - 1
        /\ AddressOf(m, d) \in DOMAIN m.sd /\ AddressOf(m, d) \notin Statics
  <2> TAKE d \in 1 .. m.ad.count
  <2>1. d \in Int /\ d \in 1 .. MaxElements
    BY <1>1, ConstantsAre
  <2>2. d \notin Statics
    BY <1>2, <2>1
  <2>3. AddressOf(m, d) = m.ad.at + d - 1
    BY <2>2 DEF AddressOf
  <2> QED
    BY <1>1, <2>1, <2>2, <2>3
<1>5. \A d \in Known(m) : d \in Statics \/ d \in 1 .. m.ad.count
  BY DEF Known, Statics, TempsAre
<1>6. Known(m) \subseteq Names
  BY <1>4, <1>5 DEF Names
<1>7. \A c, d \in Known(m) : AddressOf(m, c) = AddressOf(m, d) => c = d
  <2> TAKE c, d \in Known(m)
  <2> SUFFICES ASSUME AddressOf(m, c) = AddressOf(m, d)
               PROVE  c = d
    OBVIOUS
  <2>1. CASE c \in Statics
    BY <1>3, <1>4, <1>5, <2>1
  <2>2. CASE c \in 1 .. m.ad.count
    <3>1. d \in 1 .. m.ad.count
      BY <1>3, <1>4, <1>5, <2>2
    <3>2. /\ c \in Int /\ d \in Int /\ AddressOf(m, c) = m.ad.at + c - 1
          /\ AddressOf(m, d) = m.ad.at + d - 1
      BY <1>4, <2>2, <3>1
    <3>3. m.ad.at \in Int /\ m.ad.at + c - 1 = m.ad.at + d - 1
      BY <1>1, <3>2
    <3> QED
      BY <3>2, <3>3
  <2> QED
    BY <1>5, <2>1, <2>2
<1> QED
  BY <1>3, <1>4, <1>5, <1>6, <1>7

(* The descriptors with a string are the program's.                        *)
LEMMA OwnedIs ==
  ASSUME NEW m, Good(m, {}), ArrayIs(m), TempsAre(m)
  PROVE  \A a : a \in Owned(m) <=> a \in DOMAIN m.sd /\ m.sd[a].len > 0
<1>1. /\ \A d \in Known(m) : AddressOf(m, d) \in DOMAIN m.sd
      /\ \A d \in Statics : AddressOf(m, d) = d
      /\ \A d \in 1 .. m.ad.count : AddressOf(m, d) = m.ad.at + d - 1
  BY AddressIs
<1>2. ASSUME NEW a \in DOMAIN m.sd, m.sd[a].len > 0
      PROVE  \E d \in Known(m) : AddressOf(m, d) = a
  <2>1. CASE a \in Statics
    <3>1. a \in Known(m)
      BY <1>2, <2>1 DEF Known, Statics, TempsAre
    <3> QED
      BY <1>1, <2>1, <3>1
  <2>2. CASE a \notin Statics
    <3>1. a \in ArrayWords(m)
      <4>1. Described(m)
        BY DEF Good
      <4> QED
        BY <2>2, <4>1, DescribedIs
    <3>2. a \in Elements(m.ad.at, m.ad.count)
      BY <1>2, <3>1 DEF ArrayIs
    <3> DEFINE i == a - m.ad.at + 1
    <3>3. m.ad.at \in Int /\ m.ad.count \in Nat
      BY ArrayHas
    <3>4. i \in 1 .. m.ad.count /\ m.ad.at + i - 1 = a
      BY <3>2, <3>3 DEF Elements
    <3> HIDE DEF i
    <3>5. i \in Known(m) /\ AddressOf(m, i) = a
      BY <1>1, <3>4 DEF Known
    <3> QED
      BY <3>5
  <2> QED
    BY <2>1, <2>2
<1> QED
  BY <1>1, <1>2 DEF Owned

(* The words the program's strings take are those of the entries in use.   *)
LEMMA TakingIs ==
  ASSUME NEW m, Good(m, {}), ArrayIs(m), TempsAre(m)
  PROVE  /\ Taking(m) = Words(m.space, Used(m.space))
         /\ Cardinality(Taking(m)) \in Nat /\ Cardinality(Taking(m)) <= m.low
         /\ m.low \in Nat /\ m.low <= TOP
<1>1. \A a \in Owned(m) :
        /\ EntryOf(m.sd[a]) \in Used(m.space) /\ EntryOf(m.sd[a]) \in Nat
        /\ m.space[EntryOf(m.sd[a])].size = 1 + m.sd[a].len /\ m.sd[a].len \in Nat
        /\ End(m.space, EntryOf(m.sd[a])) - 1 = EntryOf(m.sd[a]) + m.sd[a].len
  <2> TAKE a \in Owned(m)
  <2>1. a \in DOMAIN m.sd /\ m.sd[a].len > 0
    BY OwnedIs
  <2> DEFINE e == EntryOf(m.sd[a])
  <2>2. e \in Used(m.space) /\ e \in Nat /\ m.space[e].size = 1 + m.sd[a].len
    BY <2>1, OwnsIs
  <2>3. m.sd[a].len \in Nat
    <3>1. Described(m)
      BY DEF Good
    <3> QED
      BY <2>1, <3>1, DescribedIs
  <2> HIDE DEF e
  <2>4. End(m.space, e) - 1 = e + m.sd[a].len
    BY <2>2, <2>3 DEF End
  <2> QED
    BY <2>2, <2>3, <2>4 DEF e
<1>2. \A e \in Used(m.space) : \E a \in Owned(m) : EntryOf(m.sd[a]) = e
  <2> TAKE e \in Used(m.space)
  <2>1. /\ m.space[e].holds \in DOMAIN m.sd /\ m.sd[m.space[e].holds].len > 0
        /\ EntryOf(m.sd[m.space[e].holds]) = e
    BY DEF Good, Owning
  <2>2. m.space[e].holds \in Owned(m)
    BY <2>1, OwnedIs
  <2> QED
    BY <2>1, <2>2
<1>3. Taking(m) = Words(m.space, Used(m.space))
  <2>1. ASSUME NEW x \in Taking(m)
        PROVE  x \in Words(m.space, Used(m.space))
    <3>1. PICK a \in Owned(m) : x \in EntryOf(m.sd[a]) .. EntryOf(m.sd[a]) + m.sd[a].len
      BY DEF Taking
    <3> QED
      BY <1>1, <3>1 DEF Words
  <2>2. ASSUME NEW x \in Words(m.space, Used(m.space))
        PROVE  x \in Taking(m)
    <3>1. PICK e \in Used(m.space) : x \in e .. End(m.space, e) - 1
      BY DEF Words
    <3>2. PICK a \in Owned(m) : EntryOf(m.sd[a]) = e
      BY <1>2
    <3>3. x \in EntryOf(m.sd[a]) .. EntryOf(m.sd[a]) + m.sd[a].len
      BY <1>1, <3>1, <3>2
    <3> QED
      BY <3>3 DEF Taking
  <2> QED
    BY <2>1, <2>2
<1>4. Tiling(m.space, 0, m.low) /\ Tiling(m.heap, m.low, TOP)
  BY DEF Good, Regions
<1>5. Used(m.space) \in SUBSET DOMAIN m.space
  BY DEF Used
<1>6. /\ Cardinality(Words(m.space, Used(m.space))) \in Nat
      /\ Cardinality(Words(m.space, Used(m.space))) <= m.low - 0
  BY <1>4, <1>5, WordsAre
<1>7. m.low \in Nat /\ m.low <= TOP
  BY <1>4, TilingIs
<1> QED
  BY <1>3, <1>6, <1>7

(* A descriptor leads to a string of its length.                           *)
LEMMA ReadIs ==
  ASSUME NEW m, Good(m, {}), NEW a \in DOMAIN m.sd
  PROVE  /\ Read(m, a) \in Strings /\ Len(Read(m, a)) = m.sd[a].len
         /\ m.sd[a].len \in 0 .. MaxLength
<1>1. m.sd[a].len \in 0 .. MaxLength /\ m.sd[a].len \in Nat
  <2>1. Described(m)
    BY DEF Good
  <2> QED
    BY <2>1, DescribedIs
<1>2. CASE m.sd[a].len = 0
  BY <1>1, <1>2, NulIs DEF Read
<1>3. CASE m.sd[a].len > 0
  <2> DEFINE e == EntryOf(m.sd[a])
  <2>1. /\ e \in DOMAIN m.space /\ Len(m.space[e].data) = m.sd[a].len
        /\ Read(m, a) = m.space[e].data
    BY <1>3, OwnsIs
  <2> HIDE DEF e
  <2>2. m.space[e] \in SpaceEntries
    BY <2>1 DEF Good, Regions
  <2>3. m.space[e].data \in Strings
    BY <2>2 DEF SpaceEntries
  <2> QED
    BY <1>1, <2>1, <2>3
<1> QED
  BY <1>1, <1>2, <1>3

(* Two strings after one another are a string, if it is not too long.      *)
LEMMA ConcatIs ==
  ASSUME NEW s \in Strings, NEW u \in Strings, Len(s) + Len(u) <= MaxLength
  PROVE  s \o u \in Strings /\ Len(s \o u) = Len(s) + Len(u)
<1>1. PICK n \in 0 .. MaxLength : s \in [1 .. n -> Characters]
  BY DEF Strings
<1>2. PICK k \in 0 .. MaxLength : u \in [1 .. k -> Characters]
  BY DEF Strings
<1>3. n \in Nat /\ k \in Nat /\ MaxLength \in Nat
  BY ConstantsAre
<1>4. s \in Seq(Characters) /\ u \in Seq(Characters) /\ Len(s) = n /\ Len(u) = k
  BY <1>1, <1>2, <1>3, LenProperties
<1>5. s \o u \in Seq(Characters) /\ Len(s \o u) = n + k
  BY <1>4
<1>6. s \o u \in [1 .. n + k -> Characters]
  BY <1>5, LenProperties
<1>7. n + k \in 0 .. MaxLength
  BY <1>3, <1>4
<1> QED
  BY <1>4, <1>5, <1>6, <1>7 DEF Strings

(* A string of one character.                                              *)
LEMMA CharacterIs ==
  ASSUME NEW c \in Characters
  PROVE  <<c>> \in Strings /\ Len(<<c>>) = 1 /\ 1 \in 0 .. MaxLength
<1>1. 1 \in 0 .. MaxLength
  BY ConstantsAre
<1>2. <<c>> \in [1 .. 1 -> Characters]
  OBVIOUS
<1> QED
  BY <1>1, <1>2 DEF Strings

-----------------------------------------------------------------------------
(* What the program gave its strings, and what it reads.                   *)

Sound(m) == Good(m, {}) /\ ArrayIs(m) /\ TempsAre(m)

(* Each string is the one given last; one there is not is empty.           *)
TextsAre(m, texts) ==
  /\ texts \in [Names -> Strings]
  /\ \A d \in Names :
       texts[d] = IF d \in Known(m) THEN Read(m, AddressOf(m, d)) ELSE <<>>

(* `Texts` with the texts there were and the memory after.                 *)
TextsAfter(m, texts, new) ==
  [d \in Names |->
     IF d \in ToSet(Temps) \ m.live THEN <<>>
     ELSE IF d \in DOMAIN new THEN new[d] ELSE texts[d]]

(* The program's strings are those it had, but for what it was given.      *)
Gives(m, n, new) ==
  /\ Sound(m) /\ Sound(n)
  /\ \A d \in Known(n) :
       Read(n, AddressOf(n, d)) = IF d \in DOMAIN new THEN new[d]
                                  ELSE IF d \in Known(m) THEN Read(m, AddressOf(m, d))
                                  ELSE <<>>
  /\ \A i \in 1 .. MaxElements :
       i \notin Known(n) => IF i \in DOMAIN new THEN new[i] = <<>> ELSE i \notin Known(m)

(* Then the texts are those given last.                                    *)
LEMMA GivesTexts ==
  ASSUME NEW m, NEW n, NEW texts, NEW new, TextsAre(m, texts), Gives(m, n, new)
  PROVE  TextsAre(n, TextsAfter(n, texts, new))
<1> DEFINE after == TextsAfter(n, texts, new)
<1>1. /\ Good(n, {}) /\ ArrayIs(n) /\ TempsAre(n)
      /\ \A d \in Known(n) :
           Read(n, AddressOf(n, d)) = IF d \in DOMAIN new THEN new[d]
                                      ELSE IF d \in Known(m) THEN Read(m, AddressOf(m, d))
                                      ELSE <<>>
      /\ \A i \in 1 .. MaxElements :
           i \notin Known(n) => IF i \in DOMAIN new THEN new[i] = <<>> ELSE i \notin Known(m)
  BY DEF Gives, Sound
<1>2. /\ Known(n) \subseteq Names
      /\ \A d \in Known(n) : AddressOf(n, d) \in DOMAIN n.sd
      /\ \A d \in Statics : d \notin 1 .. MaxElements
      /\ \A d \in Known(n) : d \in ToSet(Temps) => d \in n.live
  <2>1. Statics \cap Int = {} /\ Vars \cap ToSet(Temps) = {}
    BY SpaceAssumption
  <2>2. \A d \in Statics : d \notin Int
    BY <2>1
  <2>3. \A d \in 1 .. MaxElements : d \in Int
    BY ConstantsAre
  <2>4. \A d \in 1 .. n.ad.count : d \in Int
    BY <1>1, ArrayHas
  <2>5. \A d \in Known(n) : d \in ToSet(Temps) => d \in n.live
    BY <2>1, <2>2, <2>4 DEF Known, Statics
  <2> QED
    BY <1>1, <2>2, <2>3, <2>5, AddressIs
<1>3. \A d \in Names :
        after[d] = IF d \in ToSet(Temps) \ n.live THEN <<>>
                   ELSE IF d \in DOMAIN new THEN new[d] ELSE texts[d]
  BY DEF TextsAfter
<1>4. DOMAIN after = Names /\ after = [d \in Names |-> after[d]]
  BY DEF TextsAfter
<1> HIDE DEF after
<1>5. \A d \in Names : texts[d] = IF d \in Known(m) THEN Read(m, AddressOf(m, d)) ELSE <<>>
  BY DEF TextsAre
<1>6. ASSUME NEW d \in Names
      PROVE  after[d] = IF d \in Known(n) THEN Read(n, AddressOf(n, d)) ELSE <<>>
  <2>1. CASE d \in Known(n)
    BY <1>1, <1>2, <1>3, <1>5, <2>1
  <2>2. CASE d \notin Known(n) /\ d \in ToSet(Temps)
    BY <1>3, <2>2 DEF Known
  <2>3. CASE d \notin Known(n) /\ d \notin ToSet(Temps)
    <3>1. d \in 1 .. MaxElements
      BY <2>3 DEF Names, Statics, Known
    <3> QED
      BY <1>1, <1>3, <1>5, <2>3, <3>1
  <2> QED
    BY <2>1, <2>2, <2>3
<1>7. \A d \in Names : after[d] \in Strings
  <2> TAKE d \in Names
  <2>1. CASE d \in Known(n)
    BY <1>1, <1>2, <1>6, <2>1, ReadIs
  <2>2. CASE d \notin Known(n)
    BY <1>6, <2>2, NulIs
  <2> QED
    BY <2>1, <2>2
<1>8. after \in [Names -> Strings]
  <2> HIDE DEF Names, Strings
  <2> QED
    BY <1>4, <1>7
<1> QED
  BY <1>6, <1>8 DEF TextsAre, after

(* What the elements read, after those in new were given theirs.           *)
ElementsRead(m, n, new) ==
  /\ \A i \in 1 .. n.ad.count :
       Read(n, n.ad.at + i - 1) = IF i \in DOMAIN new THEN new[i]
                                  ELSE IF i <= m.ad.count THEN Read(m, m.ad.at + i - 1)
                                  ELSE <<>>
  /\ \A i \in 1 .. MaxElements :
       i > n.ad.count => IF i \in DOMAIN new THEN new[i] = <<>> ELSE i > m.ad.count

(* Where the variables and temporaries are as they were.                   *)
LEMMA StaticsGives ==
  ASSUME NEW m, NEW n, Sound(m), Good(n, {}), ArrayIs(n), StaticsKept(m, n),
         NEW new, \A d \in Statics : d \notin DOMAIN new, ElementsRead(m, n, new)
  PROVE  Gives(m, n, new)
<1>1. Good(m, {}) /\ ArrayIs(m) /\ TempsAre(m)
  BY DEF Sound
<1>2. /\ n.live = m.live
      /\ \A d \in Statics : n.sd[d].len = m.sd[d].len /\ Read(n, d) = Read(m, d)
  BY DEF StaticsKept
<1>3. TempsAre(n)
  BY <1>1, <1>2 DEF TempsAre, Statics
<1>4. /\ \A d \in Statics : AddressOf(m, d) = d
      /\ \A d \in 1 .. m.ad.count : /\ AddressOf(m, d) = m.ad.at + d - 1 /\ d \notin Statics
                                    /\ d \in 1 .. MaxElements
  BY <1>1, AddressIs
<1>5. /\ \A d \in Statics : AddressOf(n, d) = d
      /\ \A d \in 1 .. n.ad.count : /\ AddressOf(n, d) = n.ad.at + d - 1 /\ d \notin Statics
                                    /\ d \in 1 .. MaxElements
  BY <1>1, <1>3, AddressIs
<1>6. /\ m.ad.count \in Nat /\ n.ad.count \in Nat
      /\ \A d \in Statics : d \notin Int
  <2>1. Statics \cap Int = {}
    BY SpaceAssumption
  <2> QED
    BY <1>1, <2>1, ArrayHas
<1>7. /\ \A d \in Statics : d \in Known(n) <=> d \in Known(m)
      /\ \A i \in 1 .. MaxElements : /\ i \in Known(n) <=> i <= n.ad.count
                                     /\ i \in Known(m) <=> i <= m.ad.count
  <2>1. \A d \in Statics : d \in Known(n) <=> d \in Known(m)
    BY <1>2, <1>6 DEF Known
  <2>2. \A i \in 1 .. MaxElements : i \in Int /\ i >= 1 /\ i \notin Statics
    BY <1>6, ConstantsAre
  <2>3. Vars \subseteq Statics /\ m.live \subseteq Statics /\ n.live \subseteq Statics
    BY <1>1, <1>3 DEF TempsAre, Statics
  <2>4. \A i \in 1 .. MaxElements : /\ i \in Known(n) <=> i \in 1 .. n.ad.count
                                    /\ i \in Known(m) <=> i \in 1 .. m.ad.count
    BY <2>2, <2>3 DEF Known
  <2> QED
    BY <1>6, <2>1, <2>2, <2>4
<1>8. ASSUME NEW d \in Known(n)
      PROVE  Read(n, AddressOf(n, d)) = IF d \in DOMAIN new THEN new[d]
                                        ELSE IF d \in Known(m) THEN Read(m, AddressOf(m, d))
                                        ELSE <<>>
  <2>1. d \in Statics \/ d \in 1 .. n.ad.count
    BY <1>3 DEF Known, Statics, TempsAre
  <2>2. CASE d \in Statics
    BY <1>2, <1>4, <1>5, <1>7, <2>2
  <2>3. CASE d \in 1 .. n.ad.count
    <3>1. /\ AddressOf(n, d) = n.ad.at + d - 1 /\ d \in 1 .. MaxElements
          /\ d \in Known(m) <=> d <= m.ad.count /\ d \in Int
      BY <1>5, <1>6, <1>7, <2>3
    <3>2. Read(n, AddressOf(n, d)) = IF d \in DOMAIN new THEN new[d]
                                     ELSE IF d <= m.ad.count THEN Read(m, m.ad.at + d - 1)
                                     ELSE <<>>
      BY <2>3, <3>1 DEF ElementsRead
    <3>3. d \in Int /\ d >= 1
      BY <1>6, <2>3
    <3>4. d \in Known(m) => AddressOf(m, d) = m.ad.at + d - 1
      <4> SUFFICES ASSUME d \in Known(m)
                   PROVE  AddressOf(m, d) = m.ad.at + d - 1
        OBVIOUS
      <4>1. d \in 1 .. m.ad.count
        BY <1>6, <1>7, <3>1, <3>3
      <4> QED
        BY <1>4, <4>1
    <3>5. d \in Known(m) <=> d <= m.ad.count
      BY <1>7, <3>1
    <3> QED
      BY <3>2, <3>4, <3>5
  <2> QED
    BY <2>1, <2>2, <2>3
<1>9. ASSUME NEW i \in 1 .. MaxElements, i \notin Known(n)
      PROVE  IF i \in DOMAIN new THEN new[i] = <<>> ELSE i \notin Known(m)
  <2>1. i > n.ad.count /\ (i > m.ad.count => i \notin Known(m))
    <3>1. i \in Int
      BY ConstantsAre
    <3> QED
      BY <1>6, <1>7, <1>9, <3>1
  <2> QED
    BY <2>1 DEF ElementsRead
<1> QED
  BY <1>3, <1>8, <1>9 DEF Gives, Sound

(* Where every string is shown as it was.                                  *)
LEMMA ShownGives ==
  ASSUME NEW m, NEW n, Sound(m), Good(n, {}), ArrayIs(n), Shown(m, n),
         NEW new, DOMAIN new = {}
  PROVE  Gives(m, n, new)
<1>1. StaticsKept(m, n) /\ n.ad.count = m.ad.count /\ m.ad.count \in Nat
  BY ArrayHas DEF Shown, StaticsKept, Sound
<1>2. ElementsRead(m, n, new)
  <2>1. \A i \in 1 .. n.ad.count : i <= m.ad.count
    BY <1>1
  <2>2. \A i \in 1 .. n.ad.count : Read(n, n.ad.at + i - 1) = Read(m, m.ad.at + i - 1)
    BY <1>1 DEF Shown
  <2> QED
    BY <1>1, <2>1, <2>2 DEF ElementsRead
<1> QED
  BY <1>1, <1>2, StaticsGives

(* What was given stays so where nothing else is.                          *)
LEMMA GivesOn ==
  ASSUME NEW m, NEW k, NEW n, NEW new, NEW none, DOMAIN none = {},
         Gives(m, k, new), Gives(k, n, none), Known(n) \subseteq Known(k)
  PROVE  Gives(m, n, new)
<1>1. /\ Sound(m) /\ Sound(k) /\ Sound(n)
      /\ \A d \in Known(k) :
           Read(k, AddressOf(k, d)) = IF d \in DOMAIN new THEN new[d]
                                      ELSE IF d \in Known(m) THEN Read(m, AddressOf(m, d))
                                      ELSE <<>>
      /\ \A i \in 1 .. MaxElements :
           i \notin Known(k) => IF i \in DOMAIN new THEN new[i] = <<>> ELSE i \notin Known(m)
  BY DEF Gives
<1>2. /\ \A d \in Known(n) : Read(n, AddressOf(n, d)) = Read(k, AddressOf(k, d))
      /\ \A i \in 1 .. MaxElements : i \notin Known(n) => i \notin Known(k)
  BY DEF Gives
<1> QED
  BY <1>1, <1>2 DEF Gives

(* A variable or an element was given a string.                            *)
LEMMA StringGives ==
  ASSUME NEW m, NEW n, Sound(m), NEW d \in Known(m), d \notin m.live, NEW s,
         StringGiven(m, n, AddressOf(m, d), s),
         NEW new, \A x : x \in DOMAIN new <=> x = d, new[d] = s
  PROVE  Gives(m, n, new)
<1> DEFINE a == AddressOf(m, d)
<1>1. Good(m, {}) /\ ArrayIs(m) /\ TempsAre(m)
  BY DEF Sound
<1>2. Good(n, {}) /\ Kept(m, n, One(a)) /\ Read(n, a) = s
  BY DEF StringGiven
<1>3. /\ Known(m) \subseteq Names
      /\ \A c \in Known(m) : AddressOf(m, c) \in DOMAIN m.sd
      /\ \A c \in Statics : AddressOf(m, c) = c /\ c \in DOMAIN m.sd
      /\ \A c \in 1 .. m.ad.count : /\ AddressOf(m, c) = m.ad.at + c - 1
                                    /\ AddressOf(m, c) \notin Statics
      /\ \A b, c \in Known(m) : AddressOf(m, b) = AddressOf(m, c) => b = c
  BY <1>1, AddressIs
<1>4. d \in Vars \/ d \in 1 .. m.ad.count
  BY DEF Known
<1>5. a \notin ToSet(Temps) /\ (a \in Statics \/ a \in Elements(m.ad.at, m.ad.count))
  <2>1. Vars \cap ToSet(Temps) = {}
    BY SpaceAssumption
  <2>2. CASE d \in Vars
    BY <1>3, <2>1, <2>2 DEF Statics
  <2>3. CASE d \in 1 .. m.ad.count
    <3>1. a \notin Statics /\ a = m.ad.at + d - 1
      BY <1>3, <2>3
    <3>2. m.ad.at + d - 1 \in Elements(m.ad.at, m.ad.count)
      BY <1>1, <2>3, ArrayHas
    <3> QED
      BY <3>1, <3>2 DEF Statics
  <2> QED
    BY <1>4, <2>2, <2>3
<1> HIDE DEF a
<1>6. /\ n.live = m.live /\ n.ad = m.ad /\ SameUsed(m.heap, n.heap)
      /\ \A x \in DOMAIN m.sd :
           x # a => n.sd[x].len = m.sd[x].len /\ Read(n, x) = Read(m, x)
  BY <1>2 DEF Kept, One
<1>7. ArrayIs(n)
  <2>1. \A x \in ArrayWords(m) : x \in DOMAIN m.sd /\ x \notin Statics
    <3>1. Described(m)
      BY <1>1 DEF Good
    <3> QED
      BY <3>1, DescribedIs
  <2>2. \A x \in ArrayWords(m) : x \notin Elements(m.ad.at, m.ad.count) => n.sd[x].len = 0
    BY <1>1, <1>5, <1>6, <2>1 DEF ArrayIs
  <2> QED
    BY <1>1, <1>6, <2>2, KeptArray
<1>8. TempsAre(n)
  BY <1>1, <1>3, <1>5, <1>6 DEF TempsAre, Statics
<1>9. \A c : AddressOf(n, c) = AddressOf(m, c)
  BY <1>6 DEF AddressOf
<1>10. Known(n) = Known(m)
  BY <1>6 DEF Known
<1>11. \A c \in Known(n) :
         Read(n, AddressOf(n, c)) = IF c \in DOMAIN new THEN new[c]
                                    ELSE IF c \in Known(m) THEN Read(m, AddressOf(m, c))
                                    ELSE <<>>
  <2> TAKE c \in Known(n)
  <2>1. CASE c = d
    BY <1>2, <1>9, <2>1 DEF a
  <2>2. CASE c # d
    <3>1. c \in Known(m) /\ AddressOf(m, c) # a /\ AddressOf(m, c) \in DOMAIN m.sd
      BY <1>3, <1>10, <2>2 DEF a
    <3>2. Read(n, AddressOf(m, c)) = Read(m, AddressOf(m, c))
      BY <1>6, <3>1
    <3> QED
      BY <1>9, <2>2, <3>1, <3>2
  <2> QED
    BY <2>1, <2>2
<1> QED
  BY <1>1, <1>2, <1>7, <1>8, <1>10, <1>11 DEF Gives, Sound

(* Temporaries were freed.                                                 *)
LEMMA FreesGives ==
  ASSUME NEW m, NEW n, Sound(m), NEW F \in SUBSET m.live, Frees(m, n, F),
         NEW none, DOMAIN none = {}
  PROVE  Gives(m, n, none) /\ Known(n) \subseteq Known(m)
<1>1. Good(m, {}) /\ ArrayIs(m) /\ TempsAre(m)
  BY DEF Sound
<1>2. /\ Good(n, {}) /\ n.live = m.live \ F /\ n.ad = m.ad /\ n.heap = m.heap
      /\ \A x \in DOMAIN m.sd \ F : n.sd[x].len = m.sd[x].len /\ Read(n, x) = Read(m, x)
      /\ \A x \in F : n.sd[x] = Nul
  BY DEF Frees
<1>3. /\ \A c \in Known(m) : AddressOf(m, c) \in DOMAIN m.sd
      /\ \A c \in Statics : AddressOf(m, c) = c /\ c \in DOMAIN m.sd
      /\ \A c \in 1 .. m.ad.count : AddressOf(m, c) \notin Statics
  BY <1>1, AddressIs
<1>4. F \subseteq ToSet(Temps) /\ F \subseteq Statics /\ F \cap Vars = {}
  BY <1>1, SpaceAssumption DEF TempsAre, Statics
<1>5. ArrayIs(n)
  <2>1. \A x \in ArrayWords(m) : x \in DOMAIN m.sd /\ x \notin Statics
    <3>1. Described(m)
      BY <1>1 DEF Good
    <3> QED
      BY <3>1, DescribedIs
  <2>2. \A x \in ArrayWords(m) : x \notin Elements(m.ad.at, m.ad.count) => n.sd[x].len = 0
    BY <1>1, <1>2, <1>4, <2>1 DEF ArrayIs
  <2>3. SameUsed(m.heap, n.heap)
    BY <1>2 DEF SameUsed
  <2> QED
    BY <1>1, <1>2, <2>2, <2>3, KeptArray
<1>6. TempsAre(n)
  <2>1. \A t \in ToSet(Temps) : t \in n.live <=> n.sd[t].len > 0
    <3> TAKE t \in ToSet(Temps)
    <3>1. t \in DOMAIN m.sd /\ (t \in m.live <=> m.sd[t].len > 0)
      BY <1>1, <1>3 DEF TempsAre, Statics
    <3>2. CASE t \in F
      BY <1>2, <3>2, NulIs
    <3>3. CASE t \notin F
      BY <1>2, <3>1, <3>3
    <3> QED
      BY <3>2, <3>3
  <2> QED
    BY <1>1, <1>2, <2>1 DEF TempsAre
<1>7. \A c : AddressOf(n, c) = AddressOf(m, c)
  BY <1>2 DEF AddressOf
<1>8. /\ Known(n) \subseteq Known(m) /\ \A c \in Known(n) : c \notin F
      /\ \A i \in 1 .. MaxElements : i \in Known(m) => i \in Known(n)
  <2>1. \A i \in 1 .. MaxElements : i \notin Statics
    <3>1. Statics \cap Int = {}
      BY SpaceAssumption
    <3> QED
      BY <3>1, ConstantsAre
  <2>2. \A c \in 1 .. m.ad.count : c \notin Statics
    BY <1>1, AddressIs
  <2>3. m.live \subseteq Statics
    BY <1>1 DEF TempsAre, Statics
  <2> QED
    BY <1>2, <1>4, <2>1, <2>2, <2>3 DEF Known
<1>9. \A c \in Known(n) : Read(n, AddressOf(n, c)) = Read(m, AddressOf(m, c))
  <2> TAKE c \in Known(n)
  <2>1. c \in Known(m) /\ c \notin F
    BY <1>8
  <2>2. AddressOf(m, c) \in DOMAIN m.sd /\ AddressOf(m, c) \notin F
    <3>1. c \in Statics \/ c \in 1 .. m.ad.count
      BY <1>1, <2>1 DEF Known, Statics, TempsAre
    <3>2. AddressOf(m, c) \in DOMAIN m.sd
      BY <1>3, <2>1
    <3> QED
      BY <1>3, <1>4, <2>1, <3>1, <3>2
  <2> QED
    BY <1>2, <1>7, <2>2
<1> QED
  BY <1>2, <1>5, <1>6, <1>8, <1>9 DEF Gives, Sound

(* The memory with another temporary in use.                               *)
Occupied(m, t) == [m EXCEPT !.live = @ \cup {t}]

(* It is otherwise as it was.                                              *)
LEMMA OccupiedIs ==
  ASSUME NEW m, Good(m, {}), NEW t
  PROVE  /\ Good(Occupied(m, t), {}) /\ Occupied(m, t).live = m.live \cup One(t)
         /\ Occupied(m, t).ad = m.ad /\ Occupied(m, t).heap = m.heap
         /\ Occupied(m, t).sd = m.sd
         /\ \A a : Read(Occupied(m, t), a) = Read(m, a)
<1> DEFINE live == m.live \cup {t}
           n == [m EXCEPT !.live = live]
<1>1. IsMemory(m) /\ Described(m) /\ DOMAIN m = Fields
  BY DEF Good, IsMemory
<1>2. Occupied(m, t) = n
  BY DEF Occupied
<1> HIDE DEF live
<1>3. IsMemory(n)
  BY <1>1 DEF IsMemory
<1>4. /\ n.live = live /\ n.space = m.space /\ n.hint = m.hint /\ n.low = m.low
      /\ n.heap = m.heap /\ n.sd = m.sd /\ n.ad = m.ad
  BY <1>1 DEF Fields
<1> HIDE DEF n
<1>5. m.sd \in [DOMAIN m.sd -> Descriptors]
  BY <1>1 DEF Described
<1>6. Good(n, {})
  BY <1>3, <1>4, <1>5, ResaidIs
<1>7. \A a : Read(n, a) = Read(m, a)
  BY <1>4 DEF Read
<1> QED
  BY <1>2, <1>4, <1>6, <1>7 DEF One, live

(* B$SCAT: a free temporary was given a string, and others are freed.      *)
LEMMA JoinGives ==
  ASSUME NEW m, Sound(m), NEW t \in ToSet(Temps), t \notin m.live,
         NEW w, NEW s, StringGiven(m, w, t, s), Len(s) > 0,
         NEW S, NEW n, n = Occupied(TmpFreed(w, S), t),
         NEW new, \A x : x \in DOMAIN new <=> x = t, new[t] = s
  PROVE  Gives(m, n, new)
<1> DEFINE F == S \cap m.live
           f == TmpFreed(w, S)
<1>1. Good(m, {}) /\ ArrayIs(m) /\ TempsAre(m)
  BY DEF Sound
<1>2. /\ \A c \in Known(m) : AddressOf(m, c) \in DOMAIN m.sd
      /\ \A c \in Statics : AddressOf(m, c) = c /\ c \in DOMAIN m.sd
      /\ \A c \in 1 .. m.ad.count : c \notin Statics /\ AddressOf(m, c) \notin Statics
  BY <1>1, AddressIs
<1>3. /\ Good(w, {}) /\ Kept(m, w, One(t)) /\ Read(w, t) = s /\ w.sd[t].len = Len(s)
  BY DEF StringGiven
<1>4. /\ w.live = m.live /\ w.ad = m.ad /\ SameUsed(m.heap, w.heap)
      /\ DOMAIN w.sd = DOMAIN m.sd
      /\ \A x \in DOMAIN m.sd :
           x # t => w.sd[x].len = m.sd[x].len /\ Read(w, x) = Read(m, x)
  BY <1>3 DEF Kept, One
<1>5. /\ F \subseteq ToSet(Temps) /\ F \subseteq Statics /\ F \cap Vars = {} /\ t \notin F
      /\ t \in Statics /\ m.live \subseteq Statics
  BY <1>1, SpaceAssumption DEF TempsAre, Statics
<1>6. Frees(w, f, F)
  <2>1. w.live \subseteq DOMAIN w.sd
    BY <1>2, <1>4, <1>5
  <2>2. Frees(w, f, S \cap w.live)
    BY <1>3, <2>1, TmpFreedIs
  <2> HIDE DEF f
  <2> QED
    BY <1>4, <2>2
<1>7. /\ Good(f, {}) /\ f.live = w.live \ F /\ f.ad = w.ad /\ f.heap = w.heap
      /\ DOMAIN f.sd = DOMAIN w.sd
      /\ \A x \in DOMAIN w.sd \ F : f.sd[x].len = w.sd[x].len /\ Read(f, x) = Read(w, x)
      /\ \A x \in F : f.sd[x] = Nul
  BY <1>6 DEF Frees
<1> HIDE DEF f, F
<1>8. /\ Good(n, {}) /\ n.live = f.live \cup One(t) /\ n.ad = f.ad /\ n.heap = f.heap
      /\ n.sd = f.sd /\ \A a : Read(n, a) = Read(f, a)
  BY <1>7, OccupiedIs DEF f
<1>9. /\ n.live = (m.live \ F) \cup {t} /\ n.ad = m.ad /\ SameUsed(m.heap, n.heap)
      /\ \A x \in DOMAIN m.sd :
           x # t /\ x \notin F => n.sd[x].len = m.sd[x].len /\ Read(n, x) = Read(m, x)
      /\ \A x \in F : n.sd[x] = Nul
      /\ n.sd[t].len = Len(s) /\ Read(n, t) = s
  <2>1. n.live = (m.live \ F) \cup {t} /\ n.ad = m.ad /\ SameUsed(m.heap, n.heap)
    BY <1>4, <1>7, <1>8 DEF One
  <2>2. \A x \in DOMAIN m.sd :
          x # t /\ x \notin F => n.sd[x].len = m.sd[x].len /\ Read(n, x) = Read(m, x)
    BY <1>4, <1>7, <1>8
  <2>3. n.sd[t].len = Len(s) /\ Read(n, t) = s
    BY <1>2, <1>3, <1>4, <1>5, <1>7, <1>8
  <2> QED
    BY <1>7, <1>8, <2>1, <2>2, <2>3
<1>10. ArrayIs(n)
  <2>1. \A x \in ArrayWords(m) : x \in DOMAIN m.sd /\ x \notin Statics
    <3>1. Described(m)
      BY <1>1 DEF Good
    <3> QED
      BY <3>1, DescribedIs
  <2>2. \A x \in ArrayWords(m) : x \notin Elements(m.ad.at, m.ad.count) => n.sd[x].len = 0
    BY <1>1, <1>5, <1>9, <2>1 DEF ArrayIs
  <2> QED
    BY <1>1, <1>9, <2>2, KeptArray
<1>11. TempsAre(n)
  <2>1. \A u \in ToSet(Temps) : u \in n.live <=> n.sd[u].len > 0
    <3> TAKE u \in ToSet(Temps)
    <3>1. u \in DOMAIN m.sd /\ (u \in m.live <=> m.sd[u].len > 0)
      BY <1>1, <1>2 DEF TempsAre, Statics
    <3>2. CASE u \in F
      BY <1>5, <1>9, <3>2, NulIs
    <3>3. CASE u = t
      BY <1>9, <3>3
    <3>4. CASE u \notin F /\ u # t
      BY <1>9, <3>1, <3>4
    <3> QED
      BY <3>2, <3>3, <3>4
  <2> QED
    BY <1>1, <1>9, <2>1 DEF TempsAre
<1>12. \A c : AddressOf(n, c) = AddressOf(m, c)
  BY <1>9 DEF AddressOf
<1>13. /\ t \in Known(n) /\ \A c \in Known(n) : c # t => c \in Known(m) /\ c \notin F
       /\ \A i \in 1 .. MaxElements : i \notin Statics /\ (i \in Known(m) => i \in Known(n))
  <2>1. \A i \in 1 .. MaxElements : i \notin Statics
    <3>1. Statics \cap Int = {}
      BY SpaceAssumption
    <3> QED
      BY <3>1, ConstantsAre
  <2> QED
    BY <1>2, <1>5, <1>9, <2>1 DEF Known
<1>14. \A c \in Known(n) :
         Read(n, AddressOf(n, c)) = IF c \in DOMAIN new THEN new[c]
                                    ELSE IF c \in Known(m) THEN Read(m, AddressOf(m, c))
                                    ELSE <<>>
  <2> TAKE c \in Known(n)
  <2>1. CASE c = t
    BY <1>2, <1>5, <1>9, <1>12, <2>1
  <2>2. CASE c # t
    <3>1. c \in Known(m) /\ c \notin F /\ (c \in Statics \/ c \in 1 .. m.ad.count)
      BY <1>5, <1>13, <2>2 DEF Known, Statics
    <3>2. /\ AddressOf(m, c) \in DOMAIN m.sd /\ AddressOf(m, c) \notin F
          /\ AddressOf(m, c) # t
      BY <1>2, <1>5, <2>2, <3>1
    <3> QED
      BY <1>9, <1>12, <2>2, <3>1, <3>2
  <2> QED
    BY <2>1, <2>2
<1> QED
  BY <1>5, <1>8, <1>10, <1>11, <1>13, <1>14 DEF Gives, Sound

(* An error frees the temporaries; the room there is does not change.      *)
LEMMA RaisesIs ==
  ASSUME NEW m, NEW k, NEW new, Gives(m, k, new), NEW n, n = TmpFreed(k, k.live),
         NEW none, DOMAIN none = {}
  PROVE  Gives(m, n, new) /\ n.heap = k.heap /\ n.low = k.low
<1>1. Sound(k) /\ Good(k, {}) /\ TempsAre(k) /\ ArrayIs(k)
  BY DEF Gives, Sound
<1>2. k.live \subseteq DOMAIN k.sd
  BY <1>1, AddressIs DEF TempsAre, Statics
<1>3. Frees(k, n, k.live)
  <2>1. Frees(k, n, k.live \cap k.live)
    BY <1>1, <1>2, TmpFreedIs
  <2>2. k.live \cap k.live = k.live
    OBVIOUS
  <2> QED
    BY <2>1, <2>2
<1>4. Gives(k, n, none) /\ Known(n) \subseteq Known(k)
  BY <1>1, <1>3, FreesGives
<1>5. Gives(m, n, new)
  BY <1>4, GivesOn
<1> QED
  BY <1>3, <1>5 DEF Frees

(* Where there is no room, what was asked for and what is held are more    *)
(* than there is.                                                          *)
LEMMA NoRoomIs ==
  ASSUME NEW m, Sound(m), NEW words \in 1 .. MaxLength + 1, NoRoom(m, words)
  PROVE  /\ Run(m.heap, m.low) = {}
         /\ words + Cardinality(Taking(m)) > m.low
         /\ words + Cardinality(Taking(m)) \in 0 .. TOP + MaxLength + 1
<1>1. /\ Taking(m) = Words(m.space, Used(m.space))
      /\ Cardinality(Taking(m)) \in Nat /\ Cardinality(Taking(m)) <= m.low
      /\ m.low \in Nat /\ m.low <= TOP
  BY TakingIs DEF Sound
<1>2. /\ Run(m.heap, m.low) = {}
      /\ Cardinality(Taking(m)) + words > m.low
  BY <1>1 DEF NoRoom
<1> QED
  BY <1>1, <1>2, ConstantsAre

(* A free temporary that got no string leaves all as it was.               *)
LEMMA UnallottedIs ==
  ASSUME NEW m, NEW k, Sound(m), NEW t \in ToSet(Temps), t \notin m.live,
         Good(k, {}), Kept(m, k, One(t)), k.sd[t] = Nul,
         NEW none, DOMAIN none = {}
  PROVE  Gives(m, k, none)
<1>1. Good(m, {}) /\ ArrayIs(m) /\ TempsAre(m)
  BY DEF Sound
<1>2. t \in DOMAIN m.sd /\ m.sd[t].len = 0
  <2>1. t \in DOMAIN m.sd
    BY <1>1, AddressIs DEF Statics
  <2>2. m.sd[t].len \in Nat
    <3>1. Described(m)
      BY <1>1 DEF Good
    <3> QED
      BY <2>1, <3>1, DescribedIs
  <2> QED
    BY <1>1, <2>1, <2>2 DEF TempsAre
<1>3. k.sd[t].len = m.sd[t].len /\ Read(k, t) = Read(m, t)
  BY <1>2, NulIs DEF Read
<1>4. Kept(m, k, {})
  BY <1>3 DEF Kept, One
<1>5. ArrayIs(k) /\ Shown(m, k)
  BY <1>1, <1>4, KeptShown
<1> QED
  BY <1>5, ShownGives

(* What a statement reads.                                                 *)
LEMMA OperandIs ==
  ASSUME NEW m, NEW texts, Sound(m), TextsAre(m, texts), NEW s \in Operands(m)
  PROVE  /\ TextOf(m, s) \in Strings /\ Len(TextOf(m, s)) = Length(m, s)
         /\ Length(m, s) \in 0 .. MaxLength
         /\ TextOf(m, s) = IF s \in Characters THEN <<s>> ELSE texts[s]
         /\ s \notin Characters => s \in Known(m) /\ AddressOf(m, s) \in DOMAIN m.sd
<1>1. Good(m, {}) /\ ArrayIs(m) /\ TempsAre(m)
  BY DEF Sound
<1>2. CASE s \in Characters
  BY <1>2, CharacterIs DEF TextOf, Length
<1>3. CASE s \notin Characters
  <2>1. s \in Known(m)
    BY <1>3 DEF Operands
  <2>2. AddressOf(m, s) \in DOMAIN m.sd /\ s \in Names
    BY <1>1, <2>1, AddressIs
  <2>3. /\ Read(m, AddressOf(m, s)) \in Strings
        /\ Len(Read(m, AddressOf(m, s))) = m.sd[AddressOf(m, s)].len
        /\ m.sd[AddressOf(m, s)].len \in 0 .. MaxLength
    BY <1>1, <2>2, ReadIs
  <2>4. texts[s] = Read(m, AddressOf(m, s))
    BY <2>1, <2>2 DEF TextsAre
  <2>5. TextOf(m, s) = Read(m, AddressOf(m, s)) /\ Length(m, s) = m.sd[AddressOf(m, s)].len
    BY <1>3 DEF TextOf, Length
  <2> QED
    BY <1>3, <2>1, <2>2, <2>3, <2>4, <2>5
<1> QED
  BY <1>2, <1>3

(* It reads the same where room was made for another.                      *)
LEMMA OperandKept ==
  ASSUME NEW m, NEW k, NEW a, NEW s, Kept(m, k, One(a)),
         s \notin Characters => AddressOf(m, s) \in DOMAIN m.sd /\ AddressOf(m, s) # a
  PROVE  TextOf(k, s) = TextOf(m, s)
<1>1. /\ k.ad = m.ad
      /\ \A x \in DOMAIN m.sd : x # a => Read(k, x) = Read(m, x)
  BY DEF Kept, One
<1>2. AddressOf(k, s) = AddressOf(m, s)
  BY <1>1 DEF AddressOf
<1>3. CASE s \in Characters
  BY <1>3 DEF TextOf
<1>4. CASE s \notin Characters
  BY <1>1, <1>2, <1>4 DEF TextOf
<1> QED
  BY <1>3, <1>4

(* B$SASS of a temporary: a variable or an element has its string.         *)
LEMMA AdoptGives ==
  ASSUME NEW m, NEW n, Sound(m), NEW t \in m.live, NEW d \in Known(m), d \notin m.live,
         Adopted(m, n, t, AddressOf(m, d)),
         NEW new, \A x : x \in DOMAIN new <=> x = d, new[d] = Read(m, t)
  PROVE  Gives(m, n, new)
<1> DEFINE a == AddressOf(m, d)
<1>1. Good(m, {}) /\ ArrayIs(m) /\ TempsAre(m)
  BY DEF Sound
<1>2. /\ \A c \in Known(m) : AddressOf(m, c) \in DOMAIN m.sd
      /\ \A c \in Statics : AddressOf(m, c) = c /\ c \in DOMAIN m.sd
      /\ \A c \in 1 .. m.ad.count : /\ c \notin Statics /\ AddressOf(m, c) \notin Statics
                                    /\ AddressOf(m, c) = m.ad.at + c - 1
      /\ \A b, c \in Known(m) : AddressOf(m, b) = AddressOf(m, c) => b = c
  BY <1>1, AddressIs
<1>3. t \in ToSet(Temps) /\ t \in Statics /\ t \notin Vars /\ m.live \subseteq Statics
  BY <1>1, SpaceAssumption DEF TempsAre, Statics
<1>4. d \in Vars \/ d \in 1 .. m.ad.count
  BY DEF Known
<1>5. /\ a \notin ToSet(Temps) /\ (a \in Statics \/ a \in Elements(m.ad.at, m.ad.count))
      /\ d # t /\ a # t
  <2>1. Vars \cap ToSet(Temps) = {}
    BY SpaceAssumption
  <2>2. CASE d \in Vars
    BY <1>2, <1>3, <2>1, <2>2 DEF Statics
  <2>3. CASE d \in 1 .. m.ad.count
    <3>1. a \notin Statics /\ a = m.ad.at + d - 1 /\ d \notin Statics
      BY <1>2, <2>3
    <3>2. m.ad.at + d - 1 \in Elements(m.ad.at, m.ad.count)
      BY <1>1, <2>3, ArrayHas
    <3> QED
      BY <1>3, <3>1, <3>2 DEF Statics
  <2> QED
    BY <1>4, <2>2, <2>3
<1>6. /\ Good(n, {}) /\ n.live = m.live \ One(t) /\ n.ad = m.ad
      /\ SameUsed(m.heap, n.heap) /\ n.sd[t] = Nul
      /\ Read(n, a) = Read(m, t)
      /\ \A x \in DOMAIN m.sd :
           x # t /\ x # a => n.sd[x].len = m.sd[x].len /\ Read(n, x) = Read(m, x)
  BY DEF Adopted
<1> HIDE DEF a
<1>7. ArrayIs(n)
  <2>1. \A x \in ArrayWords(m) : x \in DOMAIN m.sd /\ x \notin Statics
    <3>1. Described(m)
      BY <1>1 DEF Good
    <3> QED
      BY <3>1, DescribedIs
  <2>2. \A x \in ArrayWords(m) : x \notin Elements(m.ad.at, m.ad.count) => n.sd[x].len = 0
    BY <1>1, <1>3, <1>5, <1>6, <2>1 DEF ArrayIs
  <2> QED
    BY <1>1, <1>6, <2>2, KeptArray
<1>8. TempsAre(n)
  <2>1. \A u \in ToSet(Temps) : u \in n.live <=> n.sd[u].len > 0
    <3> TAKE u \in ToSet(Temps)
    <3>1. u \in DOMAIN m.sd /\ (u \in m.live <=> m.sd[u].len > 0)
      BY <1>1, <1>2 DEF TempsAre, Statics
    <3>2. CASE u = t
      BY <1>6, <3>2, NulIs DEF One
    <3>3. CASE u # t
      BY <1>5, <1>6, <3>1, <3>3 DEF One
    <3> QED
      BY <3>2, <3>3
  <2> QED
    BY <1>1, <1>6, <2>1 DEF TempsAre
<1>9. \A c : AddressOf(n, c) = AddressOf(m, c)
  BY <1>6 DEF AddressOf
<1>10. /\ \A c \in Known(n) : c \in Known(m) /\ c # t
       /\ \A i \in 1 .. MaxElements : i \in Known(m) => i \in Known(n)
  <2>1. \A i \in 1 .. MaxElements : i \notin Statics
    <3>1. Statics \cap Int = {}
      BY SpaceAssumption
    <3> QED
      BY <3>1, ConstantsAre
  <2> QED
    BY <1>2, <1>3, <1>6, <2>1 DEF Known, One
<1>11. \A c \in Known(n) :
         Read(n, AddressOf(n, c)) = IF c \in DOMAIN new THEN new[c]
                                    ELSE IF c \in Known(m) THEN Read(m, AddressOf(m, c))
                                    ELSE <<>>
  <2> TAKE c \in Known(n)
  <2>1. CASE c = d
    BY <1>6, <1>9, <2>1 DEF a
  <2>2. CASE c # d
    <3>1. /\ c \in Known(m) /\ AddressOf(m, c) # a /\ AddressOf(m, c) \in DOMAIN m.sd
          /\ t \in Known(m) /\ AddressOf(m, t) = t
      BY <1>2, <1>3, <1>10, <2>2 DEF a, Known
    <3>2. AddressOf(m, c) # t
      BY <1>2, <1>10, <3>1
    <3>3. Read(n, AddressOf(m, c)) = Read(m, AddressOf(m, c))
      BY <1>6, <3>1, <3>2
    <3> QED
      BY <1>9, <2>2, <3>1, <3>3
  <2> QED
    BY <2>1, <2>2
<1>12. \A i \in 1 .. MaxElements :
         i \notin Known(n) => IF i \in DOMAIN new THEN new[i] = <<>> ELSE i \notin Known(m)
  <2>1. d \in Known(n)
    BY <1>4, <1>6 DEF Known
  <2> QED
    BY <1>10, <2>1
<1> QED
  BY <1>6, <1>7, <1>8, <1>11, <1>12 DEF Gives, Sound
-----------------------------------------------------------------------------
(* What was raised is more than the room there is.                         *)
RaisedRight(m, r) ==
  /\ r \in 0 .. TOP + MaxLength + 1
  /\ r > 0 => Run(m.heap, m.low) = {} /\ r > m.low

(* The inductive invariant.                                                *)
IInv == Sound(memory) /\ TextsAre(memory, text) /\ RaisedRight(memory, raised)

(* Nothing was raised.                                                     *)
LEMMA NothingRaised ==
  ASSUME NEW m
  PROVE  RaisedRight(m, 0)
BY ConstantsAre DEF RaisedRight

(* Nothing is given where no string is.                                    *)
LEMMA NoneGiven == DOMAIN <<>> = {}
OBVIOUS

(* What a step gives is in the texts.                                      *)
LEMMA StepIs ==
  ASSUME IInv, NEW new, Gives(memory, memory', new), text' = Texts(new),
         RaisedRight(memory', raised')
  PROVE  IInv'
<1>1. text' = TextsAfter(memory', text, new)
  BY DEF Texts, TextsAfter
<1>2. TextsAre(memory, text)
  BY DEF IInv
<1>3. TextsAre(memory', TextsAfter(memory', text, new))
  BY <1>2, GivesTexts
<1>4. Sound(memory')
  BY DEF Gives
<1> QED
  BY <1>1, <1>3, <1>4 DEF IInv

(* An error after which a string is empty, or none is given.               *)
LEMMA ErrorIs ==
  ASSUME IInv, NEW k, NEW new, Gives(memory, k, new), text' = Texts(new), RaiseError(k)
  PROVE  IInv'
<1>1. memory' = TmpFreed(k, k.live) /\ raised' = 0
  BY DEF RaiseError
<1>2. Gives(memory, memory', new)
  BY <1>1, NoneGiven, RaisesIs
<1> QED
  BY <1>1, <1>2, NothingRaised, StepIs

(* Out of string space.                                                    *)
LEMMA NoRoomError ==
  ASSUME IInv, NEW k, NEW new, Gives(memory, k, new), text' = Texts(new),
         NEW words \in 1 .. MaxLength + 1, NoRoom(k, words), RaiseNoRoom(k, words)
  PROVE  IInv'
<1>1. memory' = TmpFreed(k, k.live) /\ raised' = words + Cardinality(Taking(k))
  BY DEF RaiseNoRoom
<1>2. Gives(memory, memory', new) /\ memory'.heap = k.heap /\ memory'.low = k.low
  BY <1>1, NoneGiven, RaisesIs
<1>3. Sound(k)
  BY DEF Gives
<1>4. RaisedRight(memory', raised')
  BY <1>1, <1>2, <1>3, NoRoomIs DEF RaisedRight
<1> QED
  BY <1>2, <1>4, StepIs

(* A step the program does not see.                                        *)
LEMMA UnseenStep ==
  ASSUME IInv, Good(memory', {}), ArrayIs(memory'), Shown(memory, memory'),
         raised' = 0, text' = text
  PROVE  IInv'
<1>1. /\ Sound(memory) /\ Good(memory, {}) /\ ArrayIs(memory) /\ TempsAre(memory)
      /\ TextsAre(memory, text)
  BY DEF IInv, Sound
<1>2. Gives(memory, memory', <<>>)
  BY <1>1, NoneGiven, ShownGives
<1>3. \A d \in Names : d \in ToSet(Temps) \ memory'.live => text[d] = <<>>
  <2> TAKE d \in Names
  <2> SUFFICES ASSUME d \in ToSet(Temps) \ memory'.live
               PROVE  text[d] = <<>>
    OBVIOUS
  <2>1. d \notin memory.live /\ d \in Statics
    BY DEF Shown, Statics
  <2>2. d \notin Vars
    BY SpaceAssumption
  <2>3. d \notin 1 .. memory.ad.count
    BY <1>1, <2>1, AddressIs
  <2>4. d \notin Known(memory)
    BY <2>1, <2>2, <2>3 DEF Known
  <2> QED
    BY <1>1, <2>4 DEF TextsAre
<1>4. text = [d \in Names |-> text[d]]
  BY <1>1 DEF TextsAre
<1>5. TextsAfter(memory', text, <<>>) = text
  BY <1>3, <1>4, NoneGiven DEF TextsAfter
<1>6. TextsAre(memory', text)
  <2>1. TextsAre(memory', TextsAfter(memory', text, <<>>))
    BY <1>1, <1>2, GivesTexts
  <2> QED
    BY <1>5, <2>1
<1>7. Sound(memory')
  BY <1>2 DEF Gives
<1> QED
  BY <1>6, <1>7, NothingRaised DEF IInv

(* FRE.                                                                    *)
LEMMA FreStep ==
  ASSUME IInv, Fre
  PROVE  IInv'
<1> DEFINE n == StrCompact(NhCompact(memory))
<1>1. Good(memory, {}) /\ ArrayIs(memory) /\ memory' = n /\ raised' = 0 /\ text' = text
  BY DEF IInv, Fre, Sound
<1>2. Good(n, {}) /\ ArrayIs(n) /\ Shown(memory, n)
  BY <1>1, FreIs
<1> QED
  BY <1>1, <1>2, UnseenStep

(* CLOSE.                                                                  *)
LEMMA CloseStep ==
  ASSUME IInv, NEW a \in Holding(memory, "FILE"), Close(a)
  PROVE  IInv'
<1> DEFINE n == LhCompact(LhFree(memory, a))
<1>1. Good(memory, {}) /\ ArrayIs(memory) /\ memory' = n /\ raised' = 0 /\ text' = text
  BY DEF IInv, Close, Sound
<1>2. Good(n, {}) /\ ArrayIs(n) /\ Shown(memory, n)
  BY <1>1, CloseIs
<1> QED
  BY <1>1, <1>2, UnseenStep

(* The entry of a file is nothing to the program's strings.                *)
LEMMA FileShown ==
  ASSUME NEW m, NEW n, Good(m, {}), ArrayIs(m), NEW x, NEW size, NewEntry(m, n, x, "FILE", size)
  PROVE  ArrayIs(n) /\ Shown(m, n)
<1>1. /\ n.live = m.live /\ n.ad = m.ad
      /\ UsedMore(m.heap, n.heap, x)
      /\ n.heap[x].holds = "FILE"
      /\ \A a \in DOMAIN m.sd : n.sd[a].len = m.sd[a].len /\ Read(n, a) = Read(m, a)
  BY DEF NewEntry
<1>2. /\ x \notin Used(m.heap) /\ Used(n.heap) = Used(m.heap) \cup {x}
      /\ \A e \in Used(m.heap) : n.heap[e] = m.heap[e]
  BY <1>1 DEF UsedMore, One
<1>3. \A e : e \in Holding(n, "ARRAY") <=> e \in Holding(m, "ARRAY")
  BY <1>1, <1>2, HoldingIs
<1>4. Holding(n, "ARRAY") = Holding(m, "ARRAY")
  BY <1>3 DEF Holding
<1>5. \A e \in Holding(m, "ARRAY") : Data(n, e) = Data(m, e)
  <2> TAKE e \in Holding(m, "ARRAY")
  <2>1. n.heap[e] = m.heap[e]
    BY <1>2, HoldingIs
  <2> QED
    BY <2>1 DEF Data, End
<1>6. ArrayWords(n) = ArrayWords(m)
  BY <1>4, <1>5 DEF ArrayWords
<1>7. /\ Statics \subseteq DOMAIN m.sd /\ ArrayWords(m) \subseteq DOMAIN m.sd
      /\ \A i \in 1 .. m.ad.count : m.ad.at + i - 1 \in DOMAIN m.sd
  <2>1. Described(m)
    BY DEF Good
  <2> QED
    BY <2>1, ArrayHas, DescribedIs
<1>8. ArrayIs(n)
  <2>1. \A a \in ArrayWords(n) \ Elements(n.ad.at, n.ad.count) : n.sd[a].len = 0
    BY <1>1, <1>6, <1>7 DEF ArrayIs
  <2>2. \/ n.ad.at = 0 /\ n.ad.count = 0 /\ Holding(n, "ARRAY") = {}
        \/ /\ n.ad.at \in Int /\ n.ad.count \in 1 .. MaxElements
           /\ Holding(n, "ARRAY") = {n.ad.at - HEADER}
           /\ Elements(n.ad.at, n.ad.count) \subseteq Data(n, n.ad.at - HEADER)
    <3>1. CASE m.ad.at = 0 /\ m.ad.count = 0 /\ Holding(m, "ARRAY") = {}
      BY <1>1, <1>4, <3>1
    <3>2. CASE /\ m.ad.at \in Int /\ m.ad.count \in 1 .. MaxElements
               /\ Holding(m, "ARRAY") = {m.ad.at - HEADER}
               /\ Elements(m.ad.at, m.ad.count) \subseteq Data(m, m.ad.at - HEADER)
      <4>1. Data(n, m.ad.at - HEADER) = Data(m, m.ad.at - HEADER)
        BY <1>5, <3>2
      <4> QED
        BY <1>1, <1>4, <3>2, <4>1
    <3> QED
      BY <3>1, <3>2 DEF ArrayIs
  <2>3. n.ad = [at |-> n.ad.at, count |-> n.ad.count]
    BY <1>1 DEF ArrayIs
  <2> QED
    BY <2>1, <2>2, <2>3 DEF ArrayIs
<1>9. Shown(m, n)
  BY <1>1, <1>7 DEF Shown
<1> QED
  BY <1>8, <1>9

(* Where there was no room in the heap.                                    *)
LEMMA UnmadeIs ==
  ASSUME NEW m, Sound(m), NEW r, NEW type, NEW size, Makes(m, r, type, size),
         r.found = Nowhere
  PROVE  Gives(m, r.memory, <<>>)
<1>1. Good(m, {}) /\ ArrayIs(m) /\ Good(r.memory, {}) /\ Kept(m, r.memory, {})
  BY DEF Sound, Makes
<1>2. ArrayIs(r.memory) /\ Shown(m, r.memory)
  BY <1>1, KeptShown
<1> QED
  BY <1>1, <1>2, NoneGiven, ShownGives

(* OPEN.                                                                   *)
LEMMA OpenStep ==
  ASSUME IInv, Open
  PROVE  IInv'
<1> DEFINE done == LhAlloc(memory, FDB, "FILE")
<1>1. Sound(memory) /\ Good(memory, {}) /\ ArrayIs(memory)
  BY DEF IInv, Sound
<1>2. /\ IF done.found = Nowhere THEN RaiseError(done.memory)
         ELSE memory' = done.memory /\ raised' = 0
      /\ text' = Texts(<<>>)
  BY DEF Open
<1>3. Makes(memory, done, "FILE", Smallest + FDB)
  BY <1>1, ConstantsAre, LhAllocIs
<1> HIDE DEF done
<1>4. CASE done.found = Nowhere
  <2>1. Gives(memory, done.memory, <<>>)
    BY <1>1, <1>3, <1>4, UnmadeIs
  <2> QED
    BY <1>2, <1>4, <2>1, ErrorIs
<1>5. CASE done.found # Nowhere
  <2>1. Good(done.memory, {}) /\ NewEntry(memory, done.memory, done.found, "FILE", Smallest + FDB)
    BY <1>3, <1>5 DEF Makes
  <2>2. ArrayIs(done.memory) /\ Shown(memory, done.memory)
    BY <1>1, <2>1, FileShown
  <2>3. Gives(memory, done.memory, <<>>)
    BY <1>1, <2>1, <2>2, NoneGiven, ShownGives
  <2> QED
    BY <1>2, <1>5, <2>3, NothingRaised, StepIs
<1> QED
  BY <1>4, <1>5

(* ERASE.                                                                  *)
LEMMA EraseStep ==
  ASSUME IInv, Erase
  PROVE  IInv'
<1> DEFINE new == [i \in 1 .. MaxElements |-> <<>>]
           n == Readdressed(Erased(memory, memory.ad.at, memory.ad.count), 0, 0)
<1>1. Sound(memory) /\ Good(memory, {}) /\ ArrayIs(memory)
  BY DEF IInv, Sound
<1>2. memory.ad.count > 0 /\ memory' = n /\ raised' = 0 /\ text' = Texts(new)
  BY DEF Erase, Readdressed
<1>3. Good(n, {}) /\ ArrayIs(n) /\ StaticsKept(memory, n) /\ n.ad.count = 0
  BY <1>1, <1>2, EraseIs
<1> HIDE DEF n
<1>4. /\ \A x : x \in DOMAIN new <=> x \in 1 .. MaxElements
      /\ \A x \in 1 .. MaxElements : new[x] = <<>>
  OBVIOUS
<1> HIDE DEF new
<1>5. \A d \in Statics : d \notin DOMAIN new
  <2>1. Statics \cap Int = {}
    BY SpaceAssumption
  <2> QED
    BY <1>4, <2>1, ConstantsAre
<1>6. ElementsRead(memory, n, new)
  BY <1>3, <1>4 DEF ElementsRead
<1>7. Gives(memory, n, new)
  BY <1>1, <1>3, <1>5, <1>6, StaticsGives
<1> QED
  BY <1>2, <1>7, NothingRaised, StepIs

(* DIM.                                                                    *)
LEMMA DimStep ==
  ASSUME IInv, NEW count \in 1 .. MaxElements, Dim(count)
  PROVE  IInv'
<1> DEFINE done == LhAlloc(memory, count, "ARRAY")
           x == done.found
           n == Readdressed(done.memory, x + HEADER, count)
<1>1. Sound(memory) /\ Good(memory, {}) /\ ArrayIs(memory)
  BY DEF IInv, Sound
<1>2. /\ memory.ad.count = 0
      /\ IF done.found = Nowhere THEN RaiseError(done.memory)
         ELSE memory' = n /\ raised' = 0
      /\ text' = Texts(<<>>)
  BY DEF Dim, Readdressed
<1>3. Makes(memory, done, "ARRAY", Smallest + count) /\ count \in Nat
  BY <1>1, ConstantsAre, LhAllocIs
<1> HIDE DEF done
<1>4. CASE done.found = Nowhere
  <2>1. Gives(memory, done.memory, <<>>)
    BY <1>1, <1>3, <1>4, UnmadeIs
  <2> QED
    BY <1>2, <1>4, <2>1, ErrorIs
<1>5. CASE done.found # Nowhere
  <2>1. Good(done.memory, {}) /\ NewEntry(memory, done.memory, x, "ARRAY", Smallest + count)
    BY <1>3, <1>5 DEF Makes
  <2>2. Another(memory, done.memory, x, count)
    BY <1>3, <2>1, AnotherIs
  <2>3. /\ Good(n, {}) /\ ArrayIs(n) /\ StaticsKept(memory, n) /\ n.ad.count = count
        /\ \A i \in 1 .. count : Read(n, n.ad.at + i - 1) = <<>>
    BY <1>1, <1>2, <2>2, DimIs
  <2> HIDE DEF n
  <2>4. ElementsRead(memory, n, <<>>)
    <3>1. \A i \in 1 .. n.ad.count : ~(i <= memory.ad.count)
      BY <1>2, <1>3, <2>3
    <3>2. \A i \in 1 .. MaxElements : i > memory.ad.count
      BY <1>2, ConstantsAre
    <3> QED
      BY <2>3, <3>1, <3>2, NoneGiven DEF ElementsRead
  <2>5. Gives(memory, n, <<>>)
    BY <1>1, <2>3, <2>4, NoneGiven, StaticsGives
  <2> QED
    BY <1>2, <1>5, <2>5, NothingRaised, StepIs
<1> QED
  BY <1>4, <1>5

(* REDIM PRESERVE.                                                         *)
LEMMA PreserveStep ==
  ASSUME IInv, NEW count \in 1 .. MaxElements, Preserve(count)
  PROVE  IInv'
<1> DEFINE done == LhAlloc(memory, count, "ARRAY")
           x == done.found
           c == Carried(done.memory, memory.ad.at, x + HEADER, KeptOf(memory, count))
           n == Readdressed(Erased(c, memory.ad.at, memory.ad.count), x + HEADER, count)
           new == [i \in count + 1 .. MaxElements |-> <<>>]
<1>1. Sound(memory) /\ Good(memory, {}) /\ ArrayIs(memory)
  BY DEF IInv, Sound
<1>2. /\ memory.ad.count > 0
      /\ IF done.found = Nowhere
         THEN RaiseError(done.memory) /\ text' = Texts(<<>>)
         ELSE memory' = n /\ raised' = 0 /\ text' = Texts(new)
  BY DEF Preserve, Readdressed, KeptOf
<1>3. Makes(memory, done, "ARRAY", Smallest + count) /\ count \in Nat
  BY <1>1, ConstantsAre, LhAllocIs
<1> HIDE DEF done
<1>4. CASE done.found = Nowhere
  <2>1. Gives(memory, done.memory, <<>>)
    BY <1>1, <1>3, <1>4, UnmadeIs
  <2> QED
    BY <1>2, <1>4, <2>1, ErrorIs
<1>5. CASE done.found # Nowhere
  <2>1. Good(done.memory, {}) /\ NewEntry(memory, done.memory, x, "ARRAY", Smallest + count)
    BY <1>3, <1>5 DEF Makes
  <2>2. Another(memory, done.memory, x, count)
    BY <1>3, <2>1, AnotherIs
  <2>3. /\ Good(n, {}) /\ ArrayIs(n) /\ StaticsKept(memory, n) /\ n.ad.count = count
        /\ \A i \in 1 .. count :
             Read(n, n.ad.at + i - 1) = IF i <= memory.ad.count
                                        THEN Read(memory, memory.ad.at + i - 1) ELSE <<>>
    BY <1>1, <1>2, <2>2, PreserveIs
  <2> HIDE DEF n
  <2>4. /\ \A i \in 1 .. count : i \notin DOMAIN new
        /\ \A i \in 1 .. MaxElements : i > count => i \in DOMAIN new /\ new[i] = <<>>
        /\ \A i \in DOMAIN new : i \in Int
    BY <1>3, ConstantsAre
  <2> HIDE DEF new
  <2>5. \A d \in Statics : d \notin DOMAIN new
    <3>1. Statics \cap Int = {}
      BY SpaceAssumption
    <3> QED
      BY <2>4, <3>1
  <2>6. ElementsRead(memory, n, new)
    BY <2>3, <2>4 DEF ElementsRead
  <2>7. Gives(memory, n, new)
    BY <1>1, <2>3, <2>5, <2>6, StaticsGives
  <2> QED
    BY <1>2, <1>5, <2>7, NothingRaised, StepIs
<1> QED
  BY <1>4, <1>5

(* B$STDL.                                                                 *)
LEMMA DeleteStep ==
  ASSUME IInv, NEW v \in Vars, Delete(v)
  PROVE  IInv'
<1> DEFINE n == [Released(memory, {v}) EXCEPT !.sd[v] = Nul]
           new == [x \in {v} |-> <<>>]
<1>1. Sound(memory) /\ Good(memory, {}) /\ ArrayIs(memory) /\ TempsAre(memory)
  BY DEF IInv, Sound
<1>2. memory' = n /\ raised' = 0 /\ text' = Texts(new)
  BY DEF Delete
<1>3. /\ v \in DOMAIN memory.sd /\ AddressOf(memory, v) = v /\ v \in Known(memory)
      /\ v \notin memory.live
  <2>1. v \in Statics /\ v \in Known(memory)
    BY DEF Statics, Known
  <2>2. v \notin memory.live
    BY <1>1, SpaceAssumption DEF TempsAre
  <2> QED
    BY <1>1, <2>1, <2>2, AddressIs
<1>4. StringGiven(memory, n, v, <<>>)
  BY <1>1, <1>3, GivenUpIs
<1>5. (\A x : x \in DOMAIN new <=> x = v) /\ new[v] = <<>>
  OBVIOUS
<1> HIDE DEF n, new
<1>6. Gives(memory, n, new)
  BY <1>1, <1>3, <1>4, <1>5, StringGives
<1> QED
  BY <1>2, <1>6, NothingRaised, StepIs

(* A temporary freed.                                                      *)
LEMMA ConsumeStep ==
  ASSUME IInv, NEW t \in memory.live, Consume(t)
  PROVE  IInv'
<1> DEFINE n == TmpFreed(memory, {t})
<1>1. Sound(memory) /\ Good(memory, {}) /\ ArrayIs(memory) /\ TempsAre(memory)
  BY DEF IInv, Sound
<1>2. memory' = n /\ raised' = 0 /\ text' = Texts(<<>>)
  BY DEF Consume
<1>3. memory.live \subseteq DOMAIN memory.sd
  BY <1>1, AddressIs DEF TempsAre, Statics
<1>4. Frees(memory, n, {t} \cap memory.live)
  BY <1>1, <1>3, TmpFreedIs
<1>5. {t} \cap memory.live \in SUBSET memory.live
  OBVIOUS
<1> HIDE DEF n
<1>6. Gives(memory, n, <<>>)
  BY <1>1, <1>4, <1>5, NoneGiven, FreesGives
<1> QED
  BY <1>2, <1>6, NothingRaised, StepIs

(* The first free temporary is one.                                        *)
LEMMA FreeTempIs ==
  ASSUME NEW m, FreeTemps(m) # {}
  PROVE  LET t == Temps[Min(FreeTemps(m))] IN t \in ToSet(Temps) /\ t \notin m.live
<1> DEFINE S == FreeTemps(m)
<1>1. S \subseteq DOMAIN Temps /\ \A i \in S : Temps[i] \notin m.live
  BY DEF FreeTemps
<1>2. DOMAIN Temps \subseteq Nat
  <2>1. Temps \in Seq(ToSet(Temps))
    BY SpaceAssumption
  <2>2. DOMAIN Temps = 1 .. Len(Temps) /\ Len(Temps) \in Nat
    BY <2>1, LenProperties
  <2> QED
    BY <2>2
<1> HIDE DEF S
<1>3. Min(S) \in S
  <2>1. S \in SUBSET Nat /\ S # {}
    BY <1>1, <1>2 DEF S
  <2>2. \E x \in S : \A y \in S : x <= y
    BY <2>1, LeastOf
  <2> QED
    BY <2>2 DEF Min
<1>4. Temps[Min(S)] \in ToSet(Temps)
  BY <1>1, <1>3 DEF ToSet
<1> QED
  BY <1>1, <1>3, <1>4 DEF S

(* A string given once its descriptor had none.                            *)
LEMMA GivenAfter ==
  ASSUME NEW m, NEW k, NEW n, NEW a, NEW s, Kept(m, k, One(a)), StringGiven(k, n, a, s)
  PROVE  StringGiven(m, n, a, s)
<1>1. Kept(k, n, One(a))
  BY DEF StringGiven
<1>2. Kept(m, n, One(a))
  BY <1>1, KeptOn, Zenon
<1> QED
  BY <1>2 DEF StringGiven

(* B$SASS of a temporary.                                                  *)
LEMMA AdoptStep ==
  ASSUME IInv, NEW t \in memory.live, NEW d \in Known(memory), Adopt(t, d)
  PROVE  IInv'
<1> DEFINE to == AddressOf(memory, d)
           n == Adopting(Released(memory, {to}), t, to)
           new == [x \in {d} |-> text[t]]
<1>1. /\ Sound(memory) /\ Good(memory, {}) /\ ArrayIs(memory) /\ TempsAre(memory)
      /\ TextsAre(memory, text)
  BY DEF IInv, Sound
<1>2. memory' = n /\ raised' = 0 /\ text' = Texts(new) /\ d \notin memory.live
  BY DEF Adopt, Adopting
<1>3. /\ t \in DOMAIN memory.sd /\ AddressOf(memory, t) = t /\ t \in Known(memory)
      /\ t \in Names /\ to \in DOMAIN memory.sd /\ t # to /\ memory.sd[t].len > 0
  <2>1. t \in ToSet(Temps) /\ t \in Statics /\ t \in Known(memory) /\ t \in Names
    BY <1>1 DEF TempsAre, Statics, Known, Names
  <2>2. t \in DOMAIN memory.sd /\ AddressOf(memory, t) = t /\ to \in DOMAIN memory.sd
    BY <1>1, <2>1, AddressIs
  <2>3. t # to
    BY <1>1, <1>2, <2>1, <2>2, AddressIs
  <2> QED
    BY <1>1, <2>1, <2>2, <2>3 DEF TempsAre
<1>4. Adopted(memory, n, t, to)
  <2> HIDE DEF to
  <2> QED
    BY <1>1, <1>3, AdoptIs
<1>5. text[t] = Read(memory, t)
  BY <1>1, <1>3 DEF TextsAre
<1>6. (\A x : x \in DOMAIN new <=> x = d) /\ new[d] = Read(memory, t)
  BY <1>5
<1> HIDE DEF n, new
<1>7. Gives(memory, n, new)
  BY <1>1, <1>2, <1>4, <1>6, AdoptGives
<1> QED
  BY <1>2, <1>7, NothingRaised, StepIs

(* B$SASS of any other string.                                             *)
LEMMA AssignStep ==
  ASSUME IInv, NEW s \in Operands(memory), NEW d \in Known(memory), Assign(s, d)
  PROVE  IInv'
<1> DEFINE to == AddressOf(memory, d)
           len == Length(memory, s)
           k == Released(memory, {to})
           done == StrAlloc(k, to, len)
           up == [k EXCEPT !.sd[to] = Nul]
           string == TextOf(done.memory, s)
           empty == [x \in {d} |-> <<>>]
           new == [x \in {d} |-> Given(s)]
<1>1. /\ Sound(memory) /\ Good(memory, {}) /\ ArrayIs(memory) /\ TempsAre(memory)
      /\ TextsAre(memory, text)
  BY DEF IInv, Sound
<1>2. /\ d \notin memory.live /\ s \notin memory.live \cup {d}
      /\ IF len = 0
         THEN memory' = up /\ raised' = 0 /\ text' = Texts(empty)
         ELSE IF done.found = Nowhere
         THEN RaiseNoRoom(done.memory, len + 1) /\ text' = Texts(empty)
         ELSE memory' = Written(done, string) /\ raised' = 0 /\ text' = Texts(new)
  BY DEF Assign
<1>3. to \in DOMAIN memory.sd
  BY <1>1, AddressIs
<1>4. /\ TextOf(memory, s) \in Strings /\ Len(TextOf(memory, s)) = len
      /\ len \in 0 .. MaxLength
      /\ TextOf(memory, s) = Given(s)
      /\ s \notin Characters => s \in Known(memory) /\ AddressOf(memory, s) \in DOMAIN memory.sd
  BY <1>1, OperandIs DEF Given
<1>5. s \notin Characters => AddressOf(memory, s) # to
  BY <1>1, <1>2, <1>4, AddressIs
<1>6. /\ \A x : x \in DOMAIN empty <=> x = d
      /\ empty[d] = <<>>
      /\ \A x : x \in DOMAIN new <=> x = d
      /\ new[d] = Given(s)
  OBVIOUS
<1>7. Good(k, One(to)) /\ Kept(memory, k, One(to)) /\ k.sd = memory.sd
  <2> HIDE DEF to
  <2>1. Good(k, {to}) /\ Kept(memory, k, {to}) /\ k.sd = memory.sd
    BY <1>1, <1>3, ReleasedIs
  <2>2. One(to) = {to}
    BY DEF One
  <2> HIDE DEF k
  <2> QED
    BY <2>1, <2>2
<1> HIDE DEF empty, new
<1>8. CASE len = 0
  <2>1. StringGiven(memory, up, to, <<>>)
    <3> HIDE DEF to
    <3> QED
      BY <1>1, <1>3, GivenUpIs
  <2> HIDE DEF up
  <2>2. Gives(memory, up, empty)
    BY <1>1, <1>2, <1>6, <2>1, StringGives
  <2> HIDE DEF len
  <2>3. memory' = up /\ raised' = 0 /\ text' = Texts(empty)
    BY <1>2, <1>8
  <2> QED
    BY <2>2, <2>3, NothingRaised, StepIs
<1>9. CASE len # 0
  <2>1. len \in 1 .. MaxLength /\ len + 1 \in 1 .. MaxLength + 1
    BY <1>4, <1>9, ConstantsAre
  <2> HIDE DEF k
  <2>2. Allocated(k, to, len, done)
    <3> HIDE DEF to, len
    <3> QED
      BY <1>3, <1>7, <2>1, StrAllocIs
  <2> HIDE DEF done
  <2>3. CASE done.found = Nowhere
    <3>1. /\ Good(done.memory, {}) /\ Kept(k, done.memory, One(to))
          /\ done.memory.sd[to] = Nul /\ NoRoom(done.memory, len + 1)
      BY <2>2, <2>3 DEF Allocated
    <3>2. StringGiven(k, done.memory, to, <<>>)
      BY <3>1, NulIs DEF StringGiven, Read
    <3>3. StringGiven(memory, done.memory, to, <<>>)
      BY <1>7, <3>2, GivenAfter
    <3>4. Gives(memory, done.memory, empty)
      BY <1>1, <1>2, <1>6, <3>3, StringGives
    <3> HIDE DEF len
    <3>5. RaiseNoRoom(done.memory, len + 1) /\ text' = Texts(empty)
      BY <1>2, <1>9, <2>3
    <3> QED
      BY <2>1, <3>1, <3>4, <3>5, NoRoomError
  <2>4. CASE done.found # Nowhere
    <3>1. /\ Kept(k, done.memory, One(to))
          /\ \A u \in Strings : Len(u) = len => StringGiven(k, Written(done, u), to, u)
      BY <2>2, <2>4 DEF Allocated
    <3>2. Kept(memory, done.memory, One(to))
      BY <1>7, <3>1, KeptOn, Zenon
    <3>3. string = Given(s)
      BY <1>4, <1>5, <3>2, OperandKept
    <3>4. StringGiven(k, Written(done, string), to, string)
      BY <1>4, <3>1, <3>3
    <3> HIDE DEF string
    <3>5. StringGiven(memory, Written(done, string), to, string)
      BY <1>7, <3>4, GivenAfter
    <3>6. Gives(memory, Written(done, string), new)
      BY <1>1, <1>2, <1>6, <3>3, <3>5, StringGives
    <3> HIDE DEF len
    <3>7. memory' = Written(done, string) /\ raised' = 0 /\ text' = Texts(new)
      BY <1>2, <1>9, <2>4
    <3> QED
      BY <3>6, <3>7, NothingRaised, StepIs
  <2> QED
    BY <2>3, <2>4
<1> QED
  BY <1>8, <1>9

(* A free temporary has no string, and is none of what is read.            *)
LEMMA FreeTempFits ==
  ASSUME NEW m, Sound(m), NEW t \in ToSet(Temps), t \notin m.live
  PROVE  /\ Good(m, One(t)) /\ t \in DOMAIN m.sd
         /\ \A s \in Known(m) : AddressOf(m, s) # t
<1>1. Good(m, {}) /\ ArrayIs(m) /\ TempsAre(m)
  BY DEF Sound
<1>2. t \in Statics /\ t \notin Vars
  BY SpaceAssumption DEF Statics
<1>3. /\ \A d \in Statics : AddressOf(m, d) = d /\ d \in DOMAIN m.sd
      /\ \A d \in 1 .. m.ad.count : d \notin Statics /\ AddressOf(m, d) \notin Statics
  BY <1>1, AddressIs
<1>4. \A s \in Known(m) : AddressOf(m, s) # t
  <2> TAKE s \in Known(m)
  <2>1. CASE s \in 1 .. m.ad.count
    BY <1>2, <1>3, <2>1
  <2>2. CASE s \in Vars
    BY <1>2, <1>3, <2>2 DEF Statics
  <2>3. CASE s \in m.live
    BY <1>1, <1>3, <2>3 DEF Statics, TempsAre
  <2> QED
    BY <2>1, <2>2, <2>3 DEF Known
<1>5. ~(m.sd[t].len > 0)
  BY <1>1 DEF TempsAre
<1>6. Owning(m, One(t))
  <2>1. Owning(m, {})
    BY <1>1 DEF Good
  <2>2. \A a \in DOMAIN m.sd \ One(t) : m.sd[a].len > 0 => Owns(m, a)
    BY <2>1 DEF Owning
  <2>3. ASSUME NEW e \in Used(m.space)
        PROVE  /\ m.space[e].holds \in DOMAIN m.sd \ One(t)
               /\ m.sd[m.space[e].holds].len > 0
               /\ EntryOf(m.sd[m.space[e].holds]) = e
    <3>1. /\ m.space[e].holds \in DOMAIN m.sd
          /\ m.sd[m.space[e].holds].len > 0
          /\ EntryOf(m.sd[m.space[e].holds]) = e
      BY <2>1 DEF Owning
    <3>2. m.space[e].holds # t
      BY <1>5, <3>1
    <3> QED
      BY <3>1, <3>2 DEF One
  <2> QED
    BY <2>2, <2>3 DEF Owning
<1> QED
  BY <1>1, <1>2, <1>3, <1>4, <1>6 DEF Good

(* B$SCAT.                                                                 *)
LEMMA JoinStep ==
  ASSUME IInv, NEW l \in Operands(memory), NEW r \in Operands(memory), Join(l, r)
  PROVE  IInv'
<1> DEFINE len == Length(memory, l) + Length(memory, r)
           t == Temps[Min(FreeTemps(memory))]
           done == StrAlloc(memory, t, len)
           joined == TextOf(done.memory, l) \o TextOf(done.memory, r)
           w == Written(done, joined)
           n == Occupied(TmpFreed(w, {l, r}), t)
           both == Given(l) \o Given(r)
           new == [x \in {t} |-> both]
<1>1. /\ Sound(memory) /\ Good(memory, {}) /\ ArrayIs(memory) /\ TempsAre(memory)
      /\ TextsAre(memory, text)
  BY DEF IInv, Sound
<1>2. /\ len \in 1 .. MaxLength
      /\ IF FreeTemps(memory) = {}
         THEN RaiseError(memory) /\ text' = Texts(<<>>)
         ELSE IF done.found = Nowhere
         THEN RaiseNoRoom(done.memory, len + 1) /\ text' = Texts(<<>>)
         ELSE memory' = n /\ raised' = 0 /\ text' = Texts(new)
  BY DEF Join, Occupied
<1>3. CASE FreeTemps(memory) = {}
  <2>1. RaiseError(memory) /\ text' = Texts(<<>>)
    BY <1>2, <1>3
  <2>2. Kept(memory, memory, {})
    BY KeptSame
  <2>3. Shown(memory, memory)
    BY <1>1, <2>2, KeptShown
  <2>4. Gives(memory, memory, <<>>)
    BY <1>1, <2>3, NoneGiven, ShownGives
  <2> QED
    BY <2>1, <2>4, ErrorIs
<1>4. CASE FreeTemps(memory) # {}
  <2>1. t \in ToSet(Temps) /\ t \notin memory.live
    BY <1>4, FreeTempIs
  <2>2. (\A x : x \in DOMAIN new <=> x = t) /\ new[t] = both
    OBVIOUS
  <2> HIDE DEF t, new
  <2>3. /\ Good(memory, One(t)) /\ t \in DOMAIN memory.sd
        /\ \A s \in Known(memory) : AddressOf(memory, s) # t
    BY <1>1, <2>1, FreeTempFits
  <2>4. Allocated(memory, t, len, done)
    <3> HIDE DEF len
    <3> QED
      BY <1>2, <2>3, StrAllocIs
  <2>5. len + 1 \in 1 .. MaxLength + 1
    <3> HIDE DEF len
    <3> QED
      BY <1>2, ConstantsAre
  <2> HIDE DEF done
  <2>6. CASE done.found = Nowhere
    <3>1. /\ Good(done.memory, {}) /\ Kept(memory, done.memory, One(t))
          /\ done.memory.sd[t] = Nul /\ NoRoom(done.memory, len + 1)
      BY <2>4, <2>6 DEF Allocated
    <3>2. Gives(memory, done.memory, <<>>)
      BY <1>1, <2>1, <3>1, NoneGiven, UnallottedIs
    <3> HIDE DEF len
    <3>3. RaiseNoRoom(done.memory, len + 1) /\ text' = Texts(<<>>)
      BY <1>2, <1>4, <2>6
    <3> QED
      BY <2>5, <3>1, <3>2, <3>3, NoRoomError
  <2>7. CASE done.found # Nowhere
    <3>1. /\ Kept(memory, done.memory, One(t))
          /\ \A u \in Strings : Len(u) = len => StringGiven(memory, Written(done, u), t, u)
      BY <2>4, <2>7 DEF Allocated
    <3>2. \A s \in Operands(memory) :
            /\ TextOf(memory, s) \in Strings /\ Len(TextOf(memory, s)) = Length(memory, s)
            /\ TextOf(memory, s) = Given(s)
            /\ TextOf(done.memory, s) = TextOf(memory, s)
      <4> TAKE s \in Operands(memory)
      <4>1. /\ TextOf(memory, s) \in Strings /\ Len(TextOf(memory, s)) = Length(memory, s)
            /\ TextOf(memory, s) = Given(s)
            /\ s \notin Characters =>
                 s \in Known(memory) /\ AddressOf(memory, s) \in DOMAIN memory.sd
        BY <1>1, OperandIs DEF Given
      <4>2. TextOf(done.memory, s) = TextOf(memory, s)
        BY <2>3, <3>1, <4>1, OperandKept
      <4> QED
        BY <4>1, <4>2
    <3>3. joined = both
      BY <3>2
    <3>4. both \in Strings /\ Len(both) = len
      <4>1. /\ Given(l) \in Strings /\ Len(Given(l)) = Length(memory, l)
            /\ Given(r) \in Strings /\ Len(Given(r)) = Length(memory, r)
        BY <3>2
      <4>2. Len(Given(l)) + Len(Given(r)) <= MaxLength
        BY <1>2, <4>1, ConstantsAre
      <4> QED
        BY <4>1, <4>2, ConcatIs
    <3> HIDE DEF both, joined, len
    <3>5. StringGiven(memory, w, t, both)
      BY <3>1, <3>3, <3>4
    <3>6. Len(both) > 0
      BY <1>2, <3>4, ConstantsAre
    <3> HIDE DEF w
    <3>7. Gives(memory, n, new)
      BY <1>1, <2>1, <2>2, <3>5, <3>6, JoinGives, Zenon
    <3>8. memory' = n /\ raised' = 0 /\ text' = Texts(new)
      BY <1>2, <1>4, <2>7
    <3> HIDE DEF n
    <3> QED
      BY <3>7, <3>8, NothingRaised, StepIs
  <2> QED
    BY <2>6, <2>7
<1> QED
  BY <1>3, <1>4

(* The first memory.                                                       *)
LEMMA StartIs == Sound(Start)
<1> DEFINE m == Start
<1>1. /\ m.space = [a \in {0} |-> FreeEntry(TOP)] /\ m.hint = 0 /\ m.low = TOP
      /\ m.heap = [a \in {} |-> FreeEntry(0)]
      /\ m.sd = [d \in Statics |-> Nul] /\ m.live = {}
      /\ m.ad = [at |-> 0, count |-> 0]
      /\ IsMemory(m)
  BY DEF Start, IsMemory, Fields
<1> HIDE DEF m
<1>2. /\ DOMAIN m.space = {0} /\ m.space[0] = FreeEntry(TOP)
      /\ DOMAIN m.heap = {} /\ DOMAIN m.sd = Statics
      /\ \A d \in Statics : m.sd[d] = Nul
      /\ m.ad.at = 0 /\ m.ad.count = 0
  BY <1>1
<1>3. Nul \in Descriptors /\ Nul.len = 0
  BY ConstantsAre DEF Nul, Descriptors
<1>4. /\ FreeEntry(TOP).size = TOP /\ IsFree(FreeEntry(TOP))
      /\ FreeEntry(TOP) \in SpaceEntries
  <2>1. FreeEntry(TOP) = [holds |-> None, size |-> TOP, data |-> <<>>]
    BY DEF FreeEntry
  <2>2. <<>> \in Strings
    BY NulIs
  <2> QED
    BY <2>1, <2>2, FreeEntryIs, ConstantsAre DEF SpaceEntries
<1>5. Tiling(m.space, 0, m.low)
  <2>1. /\ 0 \in Nat /\ m.low \in Nat /\ 0 <= m.low /\ 0 \in DOMAIN m.space \cup {m.low}
    BY <1>1, <1>2, ConstantsAre
  <2>2. \A a \in DOMAIN m.space :
          /\ a \in Nat /\ 0 <= a /\ a < m.low
          /\ m.space[a].size \in Nat /\ m.space[a].size > 0
          /\ m.space[a].size + a \in DOMAIN m.space \cup {m.low}
          /\ \A b \in DOMAIN m.space : b > a => b >= m.space[a].size + a
    BY <1>1, <1>2, <1>4, ConstantsAre
  <2> QED
    BY <2>1, <2>2, TilingFrom
<1>6. Tiling(m.heap, m.low, TOP)
  <2>1. m.low \in Nat /\ TOP \in Nat /\ m.low <= TOP /\ m.low \in DOMAIN m.heap \cup {TOP}
    BY <1>1, ConstantsAre
  <2>2. \A a \in DOMAIN m.heap :
          /\ a \in Nat /\ m.low <= a /\ a < TOP
          /\ m.heap[a].size \in Nat /\ m.heap[a].size > 0
          /\ m.heap[a].size + a \in DOMAIN m.heap \cup {TOP}
          /\ \A b \in DOMAIN m.heap : b > a => b >= m.heap[a].size + a
    BY <1>2
  <2> QED
    BY <2>1, <2>2, TilingFrom
<1>7. Used(m.space) = {} /\ Used(m.heap) = {}
  BY <1>2, <1>4 DEF Used
<1>8. Holding(m, "ARRAY") = {} /\ ArrayWords(m) = {}
  BY <1>2 DEF Holding, ArrayWords
<1>9. Good(m, {})
  <2>1. Regions(m)
    BY <1>1, <1>2, <1>4, <1>5, <1>6 DEF Regions
  <2>2. Described(m)
    BY <1>1, <1>3, <1>8 DEF Described
  <2>3. Owning(m, {})
    BY <1>2, <1>3, <1>7 DEF Owning
  <2> QED
    BY <1>1, <2>1, <2>2, <2>3 DEF Good
<1>10. ArrayIs(m)
  BY <1>1, <1>2, <1>8 DEF ArrayIs
<1>11. TempsAre(m)
  BY <1>1, <1>2, <1>3 DEF TempsAre, Statics
<1> QED
  BY <1>9, <1>10, <1>11 DEF Sound, m

(* The inductive invariant holds at first.                                 *)
LEMMA Initially == Init => IInv
<1> SUFFICES ASSUME Init PROVE IInv
  OBVIOUS
<1>1. /\ memory = Start /\ text = [d \in Names |-> <<>>] /\ raised = 0
  BY DEF Init
<1>2. Sound(memory) /\ Good(memory, {}) /\ ArrayIs(memory) /\ TempsAre(memory)
  BY <1>1, StartIs DEF Sound
<1>3. /\ memory.ad.count = 0 /\ memory.live = {}
      /\ memory.sd = [d \in Statics |-> Nul]
  BY <1>1 DEF Start
<1>4. \A d \in Known(memory) : Read(memory, AddressOf(memory, d)) = <<>>
  <2> TAKE d \in Known(memory)
  <2>1. d \in Statics
    BY <1>3 DEF Known, Statics
  <2>2. AddressOf(memory, d) = d /\ memory.sd[d].len = 0
    BY <1>2, <1>3, <2>1, NulIs, AddressIs
  <2> QED
    BY <2>2 DEF Read
<1>5. <<>> \in Strings
  BY NulIs
<1>6. TextsAre(memory, text)
  BY <1>1, <1>4, <1>5 DEF TextsAre
<1> QED
  BY <1>1, <1>2, <1>6, NothingRaised DEF IInv

(* Every step preserves it.                                                *)
LEMMA NextStep == IInv /\ [Next]_vars => IInv'
<1> SUFFICES ASSUME IInv, [Next]_vars PROVE IInv'
  OBVIOUS
<1>1. ASSUME NEW t \in memory.live, NEW d \in Known(memory), Adopt(t, d) PROVE IInv'
  BY <1>1, AdoptStep
<1>2. ASSUME NEW s \in Operands(memory), NEW d \in Known(memory), Assign(s, d) PROVE IInv'
  BY <1>2, AssignStep
<1>3. ASSUME NEW l \in Operands(memory), NEW r \in Operands(memory), Join(l, r) PROVE IInv'
  BY <1>3, JoinStep
<1>4. ASSUME NEW t \in memory.live, Consume(t) PROVE IInv'
  BY <1>4, ConsumeStep
<1>5. ASSUME NEW v \in Vars, Delete(v) PROVE IInv'
  BY <1>5, DeleteStep
<1>6. ASSUME NEW n \in 1 .. MaxElements, Dim(n) PROVE IInv'
  BY <1>6, DimStep
<1>7. ASSUME NEW n \in 1 .. MaxElements, Preserve(n) PROVE IInv'
  BY <1>7, PreserveStep
<1>8. ASSUME Erase PROVE IInv'
  BY <1>8, EraseStep
<1>9. ASSUME Open PROVE IInv'
  BY <1>9, OpenStep
<1>10. ASSUME Fre PROVE IInv'
  BY <1>10, FreStep
<1>11. ASSUME NEW a \in Holding(memory, "FILE"), Close(a) PROVE IInv'
  BY <1>11, CloseStep
<1>12. CASE UNCHANGED vars
  <2>1. memory' = memory /\ text' = text /\ raised' = raised
    BY <1>12 DEF vars
  <2> QED
    BY <2>1 DEF IInv
<1> QED
  BY <1>1, <1>2, <1>3, <1>4, <1>5, <1>6, <1>7, <1>8, <1>9, <1>10, <1>11, <1>12 DEF Next
-----------------------------------------------------------------------------
(* The inductive invariant holds in every state.                           *)
THEOREM Invariant == Spec => []IInv
<1>1. Init => IInv
  BY Initially
<1>2. IInv /\ [Next]_vars => IInv'
  BY NextStep
<1> QED
  BY <1>1, <1>2, PTL DEF Spec

(* The entries of both regions are next to one another, the hint is at     *)
(* one, and the temporaries, the texts and what is raised are in bounds.   *)
THEOREM TypesAreRight == Spec => []TypeOK
<1>1. ASSUME IInv PROVE TypeOK
  <2>1. /\ Regions(memory) /\ TempsAre(memory) /\ TextsAre(memory, text)
        /\ RaisedRight(memory, raised)
    BY <1>1 DEF IInv, Sound, Good
  <2> QED
    BY <2>1 DEF TypeOK, Regions, Tiling, TempsAre, TextsAre, RaisedRight
<1> QED
  BY <1>1, Invariant, PTL

(* Each string is the one its variable, temporary or element was given     *)
(* last, its entry and its descriptor lead to each other, and every entry  *)
(* in use is such a string's.                                              *)
THEOREM StringsKept == Spec => []StringsAreKept
<1>1. ASSUME IInv PROVE StringsAreKept
  <2>1. /\ Good(memory, {}) /\ ArrayIs(memory) /\ TempsAre(memory)
        /\ TextsAre(memory, text)
    BY <1>1 DEF IInv, Sound
  <2>2. \A d \in Known(memory) : Read(memory, AddressOf(memory, d)) = text[d]
    BY <2>1, AddressIs DEF TextsAre
  <2>3. \A a : a \in Owned(memory) <=> a \in DOMAIN memory.sd /\ memory.sd[a].len > 0
    BY <2>1, OwnedIs
  <2>4. \A a \in Owned(memory) :
          /\ memory.space[EntryOf(memory.sd[a])].holds = a
          /\ memory.space[EntryOf(memory.sd[a])].size = 1 + memory.sd[a].len
    BY <2>1, <2>3, OwnsIs
  <2>5. \A e \in Used(memory.space) :
          /\ memory.space[e].holds \in DOMAIN memory.sd
          /\ memory.sd[memory.space[e].holds].len > 0
          /\ EntryOf(memory.sd[memory.space[e].holds]) = e
    BY <2>1 DEF Good, Owning
  <2>6. \A e \in Used(memory.space) :
          /\ memory.space[e].holds \in Owned(memory)
          /\ memory.space[e].size = 1 + memory.sd[memory.space[e].holds].len
    BY <2>3, <2>4, <2>5
  <2> QED
    BY <2>2, <2>4, <2>6 DEF StringsAreKept
<1> QED
  BY <1>1, Invariant, PTL

(* Out of string space is raised only when what the program held and what  *)
(* it asked for are more than string space, with no room next to it.       *)
THEOREM RoomFound == Spec => []RoomIsFound
<1>1. ASSUME IInv PROVE RoomIsFound
  BY <1>1 DEF IInv, RaisedRight, RoomIsFound
<1> QED
  BY <1>1, Invariant, PTL
=============================================================================
