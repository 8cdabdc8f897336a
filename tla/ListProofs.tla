----------------------------- MODULE ListProofs -----------------------------
(***************************************************************************)
(* Facts about sorted and filtered arrays, and the induction they need.    *)
(* The library's induction theorems take an operator; the one here takes   *)
(* a set, and rests on the least element of a set of numbers.              *)
(***************************************************************************)
EXTENDS Lists, FiniteSetTheorems, FunctionTheorems, WellFoundedInduction, TLAPS

LEMMA Smallest ==
    ASSUME NEW T \in SUBSET Nat, T # {}
    PROVE  \E x \in T : \A y \in T : x <= y
<1>1. PICK x \in T : \A y \in T : <<y, x>> \notin OpToRel(<, Nat)
  BY NatLessThanWellFounded, WFMin
<1>2. ASSUME NEW y \in T PROVE x <= y
  <2>1. <<y, x>> \notin OpToRel(<, Nat)
    BY <1>1
  <2>2. ~(y < x)
    BY <2>1, Zenon DEF OpToRel
  <2>3. QED  BY <2>2
<1>3. QED  BY <1>2

(* Induction up to n. *)
LEMMA UpTo ==
    ASSUME NEW n \in Nat, NEW T, 0 \in T,
           \A i \in 0 .. n - 1 : i \in T => i + 1 \in T
    PROVE  0 .. n \subseteq T
<1> DEFINE U == {i \in 0 .. n : i \notin T}
<1>1. SUFFICES ASSUME U # {} PROVE FALSE
  OBVIOUS
<1>2. U \in SUBSET Nat
  OBVIOUS
<1>3. PICK x \in U : \A y \in U : x <= y
  <2> HIDE DEF U
  <2>1. QED  BY <1>1, <1>2, Smallest
<1>4. x - 1 \in 0 .. n - 1 /\ x - 1 \in T
  BY <1>3
<1>5. QED  BY <1>4

LEMMA CardinalityUpTo ==
    ASSUME NEW n \in Nat
    PROVE  IsFiniteSet(1 .. n) /\ Cardinality(1 .. n) = n
<1>1. IsFiniteSet(1 .. n) /\ Cardinality(1 .. n) = IF 1 > n THEN 0 ELSE n - 1 + 1
  BY FS_Interval
<1>2. QED  BY <1>1

(* A finite set has a smallest subset among those of any collection. *)
LEMMA SmallestSubset ==
    ASSUME NEW S, IsFiniteSet(S), NEW G \in SUBSET (SUBSET S), G # {}
    PROVE  \E s \in G : \A x \in s : s \ {x} \notin G
<1> DEFINE T == {Cardinality(s) : s \in G}
<1>1. \A s \in SUBSET S : IsFiniteSet(s) /\ Cardinality(s) \in Nat
  BY FS_Subset, FS_CardinalityType
<1>2. T \in SUBSET Nat /\ T # {}
  BY <1>1
<1> HIDE DEF T
<1>3. PICK m \in T : \A k \in T : m <= k
  BY <1>2, Smallest
<1>4. PICK s \in G : m = Cardinality(s)
  BY <1>3 DEF T
<1>5. ASSUME NEW x \in s, s \ {x} \in G PROVE FALSE
  <2>1. IsFiniteSet(s) /\ Cardinality(s) \in Nat
    BY <1>1
  <2>2. Cardinality(s \ {x}) = Cardinality(s) - 1
    BY <2>1, FS_RemoveElement
  <2>3. Cardinality(s \ {x}) \in T
    BY <1>5 DEF T
  <2>4. m <= Cardinality(s) - 1
    BY <1>3, <2>2, <2>3
  <2>5. QED  BY <1>4, <2>1, <2>4
<1>6. QED  BY <1>5

(* Induction over the subsets of a finite set. *)
LEMMA BySubsets ==
    ASSUME NEW S, IsFiniteSet(S), NEW G, {} \in G,
           \A s \in SUBSET S : \A x \in S : s \in G => s \cup {x} \in G
    PROVE  S \in G
<1> DEFINE U == {s \in SUBSET S : s \notin G}
<1>1. SUFFICES ASSUME U # {} PROVE FALSE
  OBVIOUS
<1>2. U \in SUBSET (SUBSET S)
  OBVIOUS
<1>3. PICK u \in U : \A x \in u : u \ {x} \notin U
  <2> HIDE DEF U
  <2>1. QED  BY <1>1, <1>2, SmallestSubset
<1>4. PICK x \in u : TRUE
  BY <1>3
<1>5. u \ {x} \in G /\ u \ {x} \in SUBSET S /\ x \in S
  BY <1>3, <1>4
<1>6. (u \ {x}) \cup {x} = u
  BY <1>4
<1>7. QED  BY <1>3, <1>5, <1>6

-----------------------------------------------------------------------------
(* Ascending.                                                              *)

LEMMA RankGrows ==
    ASSUME NEW S \in SUBSET Int, IsFiniteSet(S), NEW x \in S, NEW y \in S, x < y
    PROVE  Rank(x, S) < Rank(y, S)
<1> DEFINE A == {z \in S : z <= x}
           B == {z \in S : z <= y}
<1>1. A \in SUBSET B /\ B \in SUBSET S /\ y \in B /\ y \notin A
  <2>1. \A z \in S : z \in Int
    OBVIOUS
  <2>2. \A z \in S : z <= x => z <= y
    BY <2>1
  <2>3. y <= y /\ ~(y <= x)
    BY <2>1
  <2>4. QED  BY <2>2, <2>3
<1>2. IsFiniteSet(B) /\ IsFiniteSet(A)
  BY <1>1, FS_Subset
<1> HIDE DEF A, B
<1>3. Cardinality(A) <= Cardinality(B) /\ Cardinality(A) # Cardinality(B)
  BY <1>1, <1>2, FS_Subset
<1>4. Cardinality(A) \in Nat /\ Cardinality(B) \in Nat
  BY <1>2, FS_CardinalityType
<1>5. QED  BY <1>3, <1>4 DEF Rank, A, B

LEMMA RankOnto ==
    ASSUME NEW S \in SUBSET Int, IsFiniteSet(S)
    PROVE  /\ \A x \in S : Rank(x, S) \in 1 .. Cardinality(S)
           /\ \A n \in 1 .. Cardinality(S) : \E x \in S : Rank(x, S) = n
<1> DEFINE n == Cardinality(S)
           rank == [x \in S |-> Rank(x, S)]
<1>1. n \in Nat
  BY FS_CardinalityType
<1>2. ASSUME NEW x \in S PROVE Rank(x, S) \in 1 .. n
  <2> DEFINE A == {z \in S : z <= x}
  <2>1. A \in SUBSET S /\ x \in A
    OBVIOUS
  <2>2. IsFiniteSet(A) /\ Cardinality(A) <= n
    BY <2>1, FS_Subset
  <2>3. Cardinality(A) \in Nat /\ Cardinality(A) # 0
    BY <2>1, <2>2, FS_CardinalityType, FS_EmptySet
  <2>4. QED  BY <1>1, <2>2, <2>3 DEF Rank
<1>3. rank \in [S -> 1 .. n]
  BY <1>2
<1>4. \A x, y \in S : rank[x] = rank[y] => x = y
  <2>1. SUFFICES ASSUME NEW x \in S, NEW y \in S, Rank(x, S) = Rank(y, S), x # y
                 PROVE  FALSE
    OBVIOUS
  <2>2. Rank(x, S) \in Int /\ Rank(y, S) \in Int
    BY <1>2
  <2>3. x < y \/ y < x
    BY <2>1
  <2>4. QED  BY <2>1, <2>2, <2>3, RankGrows
<1> HIDE DEF rank
<1>5. rank \in Injection(S, 1 .. n)
  BY <1>3, <1>4, Fun_IsInj
<1>6. IsFiniteSet(1 .. n) /\ Cardinality(1 .. n) = n
  BY <1>1, CardinalityUpTo
<1>7. rank \in Surjection(S, 1 .. n)
  BY <1>5, <1>6, FS_Injection
<1>8. \A i \in 1 .. n : \E x \in S : rank[x] = i
  BY <1>7, Fun_SurjectionProperties
<1>9. QED  BY <1>2, <1>8 DEF rank

(* Ascending(S) enumerates S from below. *)
LEMMA AscendingSorts ==
    ASSUME NEW S \in SUBSET Int, IsFiniteSet(S)
    PROVE  /\ Cardinality(S) \in Nat
           /\ Ascending(S) \in [1 .. Cardinality(S) -> S]
           /\ \A i, j \in 1 .. Cardinality(S) : i < j => Ascending(S)[i] < Ascending(S)[j]
           /\ \A x \in S : \E i \in 1 .. Cardinality(S) : Ascending(S)[i] = x
<1> DEFINE n == Cardinality(S)
           a == Ascending(S)
<1>1. n \in Nat
  BY FS_CardinalityType
<1>2. ASSUME NEW i \in 1 .. n PROVE a[i] \in S /\ Rank(a[i], S) = i
  <2>1. \E x \in S : Rank(x, S) = i
    BY RankOnto
  <2>2. QED  BY <2>1 DEF Ascending
<1>3. a \in [1 .. n -> S]
  BY <1>2 DEF Ascending
<1>4. ASSUME NEW i \in 1 .. n, NEW j \in 1 .. n, i < j PROVE a[i] < a[j]
  <2>1. a[i] \in S /\ a[j] \in S /\ Rank(a[i], S) = i /\ Rank(a[j], S) = j
    BY <1>2
  <2>2. a[j] < a[i] => j < i
    BY <2>1, RankGrows
  <2>3. a[i] # a[j]
    BY <1>4, <2>1
  <2>4. a[i] \in Int /\ a[j] \in Int
    BY <2>1
  <2> HIDE DEF a
  <2>5. QED  BY <1>4, <2>2, <2>3, <2>4
<1>5. ASSUME NEW x \in S PROVE \E i \in 1 .. n : a[i] = x
  <2> DEFINE i == Rank(x, S)
  <2>1. i \in 1 .. n
    BY RankOnto
  <2>2. a[i] \in S /\ Rank(a[i], S) = i
    BY <1>2, <2>1
  <2>3. a[i] < x => Rank(a[i], S) < i
    BY <2>2, RankGrows
  <2>4. x < a[i] => i < Rank(a[i], S)
    BY <2>2, RankGrows
  <2>5. a[i] \in Int /\ x \in Int
    BY <2>2
  <2>6. a[i] = x
    <3> HIDE DEF i, a
    <3>1. ~(i < i)
      BY <2>1
    <3>2. QED  BY <2>2, <2>3, <2>4, <2>5, <3>1
  <2>7. QED  BY <2>1, <2>6
<1>6. QED  BY <1>1, <1>3, <1>4, <1>5

(* and is the only sequence to do so. *)
LEMMA AscendingUnique ==
    ASSUME NEW n \in Nat, NEW S \in SUBSET Int, NEW f \in [1 .. n -> S],
           \A i, j \in 1 .. n : i < j => f[i] < f[j],
           \A x \in S : \E i \in 1 .. n : f[i] = x
    PROVE  IsFiniteSet(S) /\ Cardinality(S) = n /\ Ascending(S) = f
<1>1. \A i, j \in 1 .. n : f[i] = f[j] => i = j
  <2>1. SUFFICES ASSUME NEW i \in 1 .. n, NEW j \in 1 .. n, f[i] = f[j], i # j
                 PROVE  FALSE
    OBVIOUS
  <2>2. i < j \/ j < i
    BY <2>1
  <2>3. f[i] \in Int
    OBVIOUS
  <2>4. QED  BY <2>1, <2>2, <2>3
<1>2. ASSUME NEW m \in 0 .. n
      PROVE  /\ IsFiniteSet({f[i] : i \in 1 .. m})
             /\ Cardinality({f[i] : i \in 1 .. m}) = m
  <2> DEFINE T == {f[i] : i \in 1 .. m}
             g == [i \in 1 .. m |-> f[i]]
  <2>1. g \in [1 .. m -> T] /\ \A i, j \in 1 .. m : g[i] = g[j] => i = j
    BY <1>1
  <2>2. \A t \in T : \E i \in 1 .. m : g[i] = t
    OBVIOUS
  <2> HIDE DEF g, T
  <2>3. g \in Bijection(1 .. m, T)
    BY <2>1, <2>2, Fun_IsBij
  <2>4. ExistsBijection(1 .. m, T)
    BY <2>3 DEF ExistsBijection
  <2>5. IsFiniteSet(1 .. m) /\ Cardinality(1 .. m) = m
    BY CardinalityUpTo
  <2>6. IsFiniteSet(T) /\ Cardinality(T) = m
    BY <2>4, <2>5, FS_Bijection
  <2>7. QED  BY <2>6 DEF T
<1>3. S = {f[i] : i \in 1 .. n}
  OBVIOUS
<1>4. IsFiniteSet(S) /\ Cardinality(S) = n
  BY <1>2, <1>3
<1>5. ASSUME NEW i \in 1 .. n PROVE Rank(f[i], S) = i
  <2>1. {y \in S : y <= f[i]} = {f[j] : j \in 1 .. i}
    <3>1. ASSUME NEW j \in 1 .. n PROVE f[j] <= f[i] <=> j <= i
      <4>1. f[i] \in Int /\ f[j] \in Int
        OBVIOUS
      <4>2. i < j => f[i] < f[j]
        OBVIOUS
      <4>3. j < i => f[j] < f[i]
        OBVIOUS
      <4>4. QED  BY <4>1, <4>2, <4>3
    <3>2. QED  BY <1>3, <3>1
  <2>2. Rank(f[i], S) = Cardinality({f[j] : j \in 1 .. i})
    BY <2>1, Zenon DEF Rank
  <2>3. i \in 0 .. n
    OBVIOUS
  <2>4. QED  BY <1>2, <2>2, <2>3
<1>6. ASSUME NEW i \in 1 .. n PROVE Ascending(S)[i] = f[i]
  <2>1. \A x \in S : Rank(x, S) = i => x = f[i]
    BY <1>3, <1>5
  <2>2. Ascending(S)[i] = CHOOSE x \in S : Rank(x, S) = i
    BY <1>4 DEF Ascending
  <2>3. QED  BY <1>5, <2>1, <2>2
<1>7. Ascending(S) \in [1 .. n -> S]
  BY <1>4, AscendingSorts
<1>8. Ascending(S) = f
  BY <1>6, <1>7
<1>9. QED  BY <1>4, <1>8

-----------------------------------------------------------------------------
(* Within.                                                                 *)

(* Where Within(s, T) takes its entries from. *)
Picks(k, m, s, T) ==
    /\ k \in [1 .. m -> 1 .. Len(s)]
    /\ \A i, j \in 1 .. m : i < j => k[i] < k[j]
    /\ \A i \in 1 .. m : s[k[i]] \in T
    /\ \A n \in 1 .. Len(s) : s[n] \in T => \E i \in 1 .. m : k[i] = n

LEMMA WithinPicks ==
    ASSUME NEW V, NEW s \in Seq(V), NEW T
    PROVE  \E m \in Nat : \E k : /\ Picks(k, m, s, T)
                                 /\ Within(s, T) = [n \in 1 .. m |-> s[k[n]]]
<1> DEFINE I == {i \in DOMAIN s : s[i] \in T}
           k == Ascending(I)
           m == Cardinality(I)
<1>1. DOMAIN s = 1 .. Len(s) /\ Len(s) \in Nat
  OBVIOUS
<1>2. IsFiniteSet(1 .. Len(s))
  BY <1>1, FS_Interval
<1>3. I \in SUBSET (1 .. Len(s)) /\ I \in SUBSET Int
  BY <1>1
<1>4. IsFiniteSet(I)
  BY <1>2, <1>3, FS_Subset
<1>5. /\ m \in Nat /\ k \in [1 .. m -> I]
      /\ \A i, j \in 1 .. m : i < j => k[i] < k[j]
      /\ \A x \in I : \E i \in 1 .. m : k[i] = x
  <2> HIDE DEF I
  <2>1. QED  BY <1>3, <1>4, AscendingSorts
<1>6. Within(s, T) = [n \in DOMAIN k |-> s[k[n]]]
  BY DEF Within
<1>7. DOMAIN k = 1 .. m
  BY <1>5
<1> HIDE DEF k, m
<1>8. Picks(k, m, s, T)
  BY <1>1, <1>5 DEF Picks
<1>9. QED  BY <1>5, <1>6, <1>7, <1>8

LEMMA WithinUnique ==
    ASSUME NEW V, NEW s \in Seq(V), NEW T, NEW m \in Nat, NEW k, Picks(k, m, s, T)
    PROVE  Within(s, T) = [n \in 1 .. m |-> s[k[n]]]
<1> DEFINE I == {i \in DOMAIN s : s[i] \in T}
<1>1. DOMAIN s = 1 .. Len(s) /\ Len(s) \in Nat
  OBVIOUS
<1>2. I \in SUBSET Int
  BY <1>1
<1>3. /\ k \in [1 .. m -> I]
      /\ \A i, j \in 1 .. m : i < j => k[i] < k[j]
      /\ \A x \in I : \E i \in 1 .. m : k[i] = x
  BY <1>1 DEF Picks
<1>4. Ascending(I) = k
  <2> HIDE DEF I
  <2>1. QED  BY <1>2, <1>3, AscendingUnique
<1>5. DOMAIN k = 1 .. m
  BY <1>3
<1>6. Within(s, T) = [n \in DOMAIN Ascending(I) |-> s[Ascending(I)[n]]]
  BY DEF Within
<1> HIDE DEF I
<1>7. QED  BY <1>4, <1>5, <1>6

(* What is in a filtered array, and in which shape. *)
LEMMA WithinFacts ==
    ASSUME NEW V, NEW s \in Seq(V), NEW T
    PROVE  /\ Within(s, T) \in Seq(V)
           /\ Len(Within(s, T)) <= Len(s)
           /\ ToSet(Within(s, T)) = ToSet(s) \cap T
           /\ IsInjective(s) => IsInjective(Within(s, T))
<1>0. PICK m \in Nat : \E k : /\ Picks(k, m, s, T)
                              /\ Within(s, T) = [n \in 1 .. m |-> s[k[n]]]
  BY WithinPicks
<1>1. PICK k : Picks(k, m, s, T) /\ Within(s, T) = [n \in 1 .. m |-> s[k[n]]]
  BY <1>0
<1> DEFINE w == Within(s, T)
<1>2. /\ k \in [1 .. m -> 1 .. Len(s)]
      /\ \A i, j \in 1 .. m : i < j => k[i] < k[j]
      /\ \A i \in 1 .. m : s[k[i]] \in T
      /\ \A n \in 1 .. Len(s) : s[n] \in T => \E i \in 1 .. m : k[i] = n
  BY <1>1 DEF Picks
<1>3. w \in [1 .. m -> V] /\ \A n \in 1 .. m : w[n] = s[k[n]]
  BY <1>1, <1>2
<1> HIDE DEF w
<1>4. w \in Seq(V) /\ Len(w) = m /\ DOMAIN w = 1 .. m
  BY <1>3
<1>5. \A i, j \in 1 .. m : k[i] = k[j] => i = j
  <2>1. SUFFICES ASSUME NEW i \in 1 .. m, NEW j \in 1 .. m, k[i] = k[j], i # j
                 PROVE  FALSE
    OBVIOUS
  <2>2. i < j \/ j < i
    BY <2>1
  <2>3. k[i] \in Int
    BY <1>2
  <2>4. QED  BY <1>2, <2>1, <2>2, <2>3
<1>6. m <= Len(s)
  <2>1. k \in Injection(1 .. m, 1 .. Len(s))
    BY <1>2, <1>5, Fun_IsInj
  <2>2. /\ IsFiniteSet(1 .. Len(s)) /\ Cardinality(1 .. Len(s)) = Len(s)
        /\ Cardinality(1 .. m) = m
    BY CardinalityUpTo
  <2>3. QED  BY <2>1, <2>2, FS_Injection
<1>7. ToSet(w) = ToSet(s) \cap T
  <2>1. ToSet(w) \subseteq ToSet(s) \cap T
    BY <1>2, <1>3, <1>4 DEF ToSet
  <2>2. ASSUME NEW n \in 1 .. Len(s), s[n] \in T PROVE s[n] \in ToSet(w)
    <3>1. PICK i \in 1 .. m : k[i] = n
      BY <1>2, <2>2
    <3>2. w[i] = s[n] /\ i \in DOMAIN w
      BY <1>3, <1>4, <3>1
    <3>3. QED  BY <3>2 DEF ToSet
  <2>3. ToSet(s) = {s[n] : n \in 1 .. Len(s)}
    BY DEF ToSet
  <2>4. QED  BY <2>1, <2>2, <2>3
<1>8. IsInjective(s) => IsInjective(w)
  BY <1>2, <1>3, <1>4, <1>5 DEF IsInjective
<1>9. QED  BY <1>4, <1>6, <1>7, <1>8 DEF w

LEMMA WithinSame ==
    ASSUME NEW V, NEW s \in Seq(V), NEW T, ToSet(s) \subseteq T
    PROVE  Within(s, T) = s
<1> DEFINE k == [n \in 1 .. Len(s) |-> n]
<1>1. \A n \in 1 .. Len(s) : s[n] \in T
  BY DEF ToSet
<1>2. Picks(k, Len(s), s, T)
  BY <1>1 DEF Picks
<1>3. Within(s, T) = [n \in 1 .. Len(s) |-> s[k[n]]]
  <2> HIDE DEF k
  <2>1. QED  BY <1>2, WithinUnique
<1>4. QED  BY <1>3

LEMMA WithinNone ==
    ASSUME NEW V, NEW s \in Seq(V), NEW T, ToSet(s) \cap T = {}
    PROVE  Within(s, T) = <<>>
<1> DEFINE w == Within(s, T)
<1>1. w \in Seq(V) /\ ToSet(w) = {}
  BY WithinFacts
<1> HIDE DEF w
<1>2. \A j \in 1 .. Len(w) : w[j] \in ToSet(w)
  BY <1>1 DEF ToSet
<1>3. Len(w) = 0
  BY <1>1, <1>2
<1>4. w = <<>>
  BY <1>1, <1>3
<1>5. QED  BY <1>4 DEF w

LEMMA WithinAgrees ==
    ASSUME NEW s, NEW T, NEW U, ToSet(s) \cap T = ToSet(s) \cap U
    PROVE  Within(s, T) = Within(s, U)
<1>1. \A i \in DOMAIN s : s[i] \in ToSet(s)
  BY DEF ToSet
<1>2. {i \in DOMAIN s : s[i] \in T} = {i \in DOMAIN s : s[i] \in U}
  BY <1>1
<1>3. QED  BY <1>2, Zenon DEF Within

(* Picking twice is picking once. *)
LEMMA WithinTwice ==
    ASSUME NEW V, NEW s \in Seq(V), NEW T, NEW U
    PROVE  Within(Within(s, T), U) = Within(s, T \cap U)
<1> DEFINE w == Within(s, T)
<1>1. PICK m \in Nat : \E k : Picks(k, m, s, T) /\ w = [n \in 1 .. m |-> s[k[n]]]
  BY WithinPicks
<1>2. PICK k : Picks(k, m, s, T) /\ w = [n \in 1 .. m |-> s[k[n]]]
  BY <1>1
<1>3. w \in Seq(V)
  BY WithinFacts
<1> HIDE DEF w
<1>4. PICK p \in Nat : \E l : Picks(l, p, w, U) /\ Within(w, U) = [n \in 1 .. p |-> w[l[n]]]
  BY <1>3, WithinPicks
<1>5. PICK l : Picks(l, p, w, U) /\ Within(w, U) = [n \in 1 .. p |-> w[l[n]]]
  BY <1>4
<1>6. Len(w) = m /\ \A n \in 1 .. m : w[n] = s[k[n]]
  BY <1>2, <1>3
<1>7. /\ k \in [1 .. m -> 1 .. Len(s)]
      /\ \A i, j \in 1 .. m : i < j => k[i] < k[j]
      /\ \A i \in 1 .. m : s[k[i]] \in T
      /\ \A n \in 1 .. Len(s) : s[n] \in T => \E i \in 1 .. m : k[i] = n
  BY <1>2 DEF Picks
<1>8. /\ l \in [1 .. p -> 1 .. m]
      /\ \A i, j \in 1 .. p : i < j => l[i] < l[j]
      /\ \A i \in 1 .. p : w[l[i]] \in U
      /\ \A n \in 1 .. m : w[n] \in U => \E i \in 1 .. p : l[i] = n
  BY <1>5, <1>6 DEF Picks
<1> DEFINE r == [n \in 1 .. p |-> k[l[n]]]
<1>9. r \in [1 .. p -> 1 .. Len(s)]
  BY <1>7, <1>8
<1>10. \A i, j \in 1 .. p : i < j => r[i] < r[j]
  BY <1>7, <1>8
<1>11. \A i \in 1 .. p : s[r[i]] \in T \cap U
  BY <1>6, <1>7, <1>8
<1>12. ASSUME NEW n \in 1 .. Len(s), s[n] \in T \cap U
       PROVE  \E i \in 1 .. p : r[i] = n
  <2>1. PICK j \in 1 .. m : k[j] = n
    BY <1>7, <1>12
  <2>2. PICK i \in 1 .. p : l[i] = j
    BY <1>6, <1>8, <1>12, <2>1
  <2>3. QED  BY <2>1, <2>2
<1>13. Picks(r, p, s, T \cap U)
  BY <1>9, <1>10, <1>11, <1>12, Zenon DEF Picks
<1>14. Within(s, T \cap U) = [n \in 1 .. p |-> s[r[n]]]
  <2> HIDE DEF r
  <2>1. QED  BY <1>13, WithinUnique
<1>15. \A n \in 1 .. p : w[l[n]] = s[r[n]]
  BY <1>6, <1>8
<1> HIDE DEF r
<1>16. QED  BY <1>5, <1>14, <1>15 DEF w

LEMMA ConcatEntries ==
    ASSUME NEW V, NEW s \in Seq(V), NEW t \in Seq(V)
    PROVE  /\ s \o t \in Seq(V) /\ Len(s \o t) = Len(s) + Len(t)
           /\ s \o t = [n \in 1 .. Len(s) + Len(t) |->
                            IF n <= Len(s) THEN s[n] ELSE t[n - Len(s)]]
<1>1. /\ s \o t \in Seq(V) /\ Len(s \o t) = Len(s) + Len(t)
      /\ \A i \in 1 .. Len(s) : (s \o t)[i] = s[i]
      /\ \A i \in 1 .. Len(t) : (s \o t)[Len(s) + i] = t[i]
      /\ Len(s) \in Nat /\ Len(t) \in Nat
  OBVIOUS
<1> DEFINE c == s \o t
<1> HIDE DEF c
<1>2. c = [n \in 1 .. Len(s) + Len(t) |-> c[n]]
  <2>1. c \in Seq(V) /\ Len(c) = Len(s) + Len(t)
    BY <1>1 DEF c
  <2>2. c \in [1 .. Len(c) -> V]
    BY <2>1
  <2>3. QED  BY <2>1, <2>2
<1>3. ASSUME NEW n \in 1 .. Len(s) + Len(t)
      PROVE  c[n] = IF n <= Len(s) THEN s[n] ELSE t[n - Len(s)]
  <2>1. CASE n <= Len(s)
    BY <1>1, <2>1 DEF c
  <2>2. CASE n > Len(s)
    <3>1. n - Len(s) \in 1 .. Len(t) /\ Len(s) + (n - Len(s)) = n
      BY <1>1, <2>2
    <3>2. QED  BY <1>1, <2>2, <3>1 DEF c
  <2>3. QED  BY <1>1, <2>1, <2>2
<1>4. QED  BY <1>1, <1>2, <1>3 DEF c

LEMMA ConcatSet ==
    ASSUME NEW V, NEW s \in Seq(V), NEW t \in Seq(V)
    PROVE  ToSet(s \o t) = ToSet(s) \cup ToSet(t)
<1>1. /\ s \o t \in Seq(V) /\ Len(s \o t) = Len(s) + Len(t)
      /\ \A i \in 1 .. Len(s) : (s \o t)[i] = s[i]
      /\ \A i \in 1 .. Len(t) : (s \o t)[Len(s) + i] = t[i]
  OBVIOUS
<1>2. ASSUME NEW i \in 1 .. Len(s) + Len(t)
      PROVE  (s \o t)[i] \in ToSet(s) \cup ToSet(t)
  <2>1. CASE i <= Len(s)
    BY <1>1, <2>1 DEF ToSet
  <2>2. CASE i > Len(s)
    <3>1. i - Len(s) \in 1 .. Len(t) /\ Len(s) + (i - Len(s)) = i
      BY <2>2
    <3>2. (s \o t)[i] = t[i - Len(s)]
      BY <1>1, <3>1
    <3>3. QED  BY <3>1, <3>2 DEF ToSet
  <2>3. QED  BY <2>1, <2>2
<1>3. ASSUME NEW i \in 1 .. Len(s) PROVE s[i] \in ToSet(s \o t)
  <2>1. i \in 1 .. Len(s \o t)
    BY <1>1
  <2>2. QED  BY <1>1, <2>1 DEF ToSet
<1>4. ASSUME NEW i \in 1 .. Len(t) PROVE t[i] \in ToSet(s \o t)
  <2>1. Len(s) + i \in 1 .. Len(s \o t)
    BY <1>1
  <2>2. QED  BY <1>1, <2>1 DEF ToSet
<1>5. /\ ToSet(s \o t) = {(s \o t)[i] : i \in 1 .. Len(s) + Len(t)}
      /\ ToSet(s) = {s[i] : i \in 1 .. Len(s)}
      /\ ToSet(t) = {t[i] : i \in 1 .. Len(t)}
  BY <1>1 DEF ToSet
<1>6. QED  BY <1>2, <1>3, <1>4, <1>5

LEMMA WithinConcat ==
    ASSUME NEW V, NEW s \in Seq(V), NEW t \in Seq(V), NEW T
    PROVE  Within(s \o t, T) = Within(s, T) \o Within(t, T)
<1>0. PICK m \in Nat : \E k : /\ Picks(k, m, s, T)
                              /\ Within(s, T) = [n \in 1 .. m |-> s[k[n]]]
  BY WithinPicks
<1>1. PICK k : Picks(k, m, s, T) /\ Within(s, T) = [n \in 1 .. m |-> s[k[n]]]
  BY <1>0
<1>00. PICK p \in Nat : \E l : /\ Picks(l, p, t, T)
                               /\ Within(t, T) = [n \in 1 .. p |-> t[l[n]]]
  BY WithinPicks
<1>2. PICK l : Picks(l, p, t, T) /\ Within(t, T) = [n \in 1 .. p |-> t[l[n]]]
  BY <1>00
<1> DEFINE r == [n \in 1 .. m + p |-> IF n <= m THEN k[n] ELSE Len(s) + l[n - m]]
           st == s \o t
<1>3. /\ k \in [1 .. m -> 1 .. Len(s)]
      /\ \A i, j \in 1 .. m : i < j => k[i] < k[j]
      /\ \A i \in 1 .. m : s[k[i]] \in T
      /\ \A n \in 1 .. Len(s) : s[n] \in T => \E i \in 1 .. m : k[i] = n
  BY <1>1 DEF Picks
<1>4. /\ l \in [1 .. p -> 1 .. Len(t)]
      /\ \A i, j \in 1 .. p : i < j => l[i] < l[j]
      /\ \A i \in 1 .. p : t[l[i]] \in T
      /\ \A n \in 1 .. Len(t) : t[n] \in T => \E i \in 1 .. p : l[i] = n
  BY <1>2 DEF Picks
<1>5. /\ st \in Seq(V) /\ Len(st) = Len(s) + Len(t)
      /\ \A i \in 1 .. Len(s) : st[i] = s[i]
      /\ \A i \in 1 .. Len(t) : st[Len(s) + i] = t[i]
      /\ Len(s) \in Nat /\ Len(t) \in Nat
  OBVIOUS
<1>6. ASSUME NEW n \in 1 .. m + p
      PROVE  \/ n <= m /\ n \in 1 .. m /\ r[n] = k[n]
             \/ n > m /\ n - m \in 1 .. p /\ r[n] = Len(s) + l[n - m]
  OBVIOUS
<1>7. ASSUME NEW n \in 1 .. m PROVE r[n] = k[n] /\ n \in 1 .. m + p
  OBVIOUS
<1>8. ASSUME NEW n \in 1 .. p PROVE r[m + n] = Len(s) + l[n] /\ m + n \in 1 .. m + p
  <2>1. m + n \in 1 .. m + p /\ ~(m + n <= m) /\ (m + n) - m = n
    OBVIOUS
  <2>2. QED  BY <2>1
<1>9. \A n \in 1 .. m : k[n] \in Int /\ 1 <= k[n] /\ k[n] <= Len(s)
  BY <1>3
<1>10. \A n \in 1 .. p : l[n] \in Int /\ 1 <= l[n] /\ l[n] <= Len(t)
  BY <1>4
<1>11. DOMAIN r = 1 .. m + p
  OBVIOUS
<1> HIDE DEF r, st
<1>12. \A n \in 1 .. m + p : r[n] \in 1 .. Len(st)
  <2>1. SUFFICES ASSUME NEW n \in 1 .. m + p PROVE r[n] \in 1 .. Len(st)
    OBVIOUS
  <2>2. CASE n <= m
    <3>1. n \in 1 .. m /\ r[n] = k[n]
      BY <1>6, <2>2
    <3>2. k[n] \in Int /\ 1 <= k[n] /\ k[n] <= Len(s)
      BY <1>9, <3>1
    <3>3. QED  BY <1>5, <3>1, <3>2
  <2>3. CASE n > m
    <3>1. n - m \in 1 .. p /\ r[n] = Len(s) + l[n - m]
      BY <1>6, <2>3
    <3>2. l[n - m] \in Int /\ 1 <= l[n - m] /\ l[n - m] <= Len(t)
      BY <1>10, <3>1
    <3>3. QED  BY <1>5, <3>1, <3>2
  <2>4. QED  BY <2>2, <2>3
<1>13. ASSUME NEW i \in 1 .. m + p, NEW j \in 1 .. m + p, i < j PROVE r[i] < r[j]
  <2>1. CASE j <= m
    BY <1>3, <1>6, <1>13, <2>1
  <2>2. CASE i <= m /\ j > m
    BY <1>5, <1>6, <1>9, <1>10, <2>2
  <2>3. CASE i > m
    <3>1. i - m \in 1 .. p /\ j - m \in 1 .. p /\ i - m < j - m
      BY <1>13, <2>3
    <3>2. l[i - m] < l[j - m] /\ l[i - m] \in Int /\ l[j - m] \in Int
      BY <1>4, <1>10, <3>1
    <3>3. r[i] = Len(s) + l[i - m] /\ r[j] = Len(s) + l[j - m]
      BY <1>6, <1>13, <2>3
    <3>4. QED  BY <1>5, <3>2, <3>3
  <2>4. QED  BY <1>13, <2>1, <2>2, <2>3
<1>14. \A n \in 1 .. m + p : st[r[n]] = (IF n <= m THEN s[k[n]] ELSE t[l[n - m]])
  BY <1>3, <1>4, <1>5, <1>6
<1>15. \A n \in 1 .. m + p : st[r[n]] \in T
  <2>1. SUFFICES ASSUME NEW n \in 1 .. m + p PROVE st[r[n]] \in T
    OBVIOUS
  <2>2. CASE n <= m
    BY <1>3, <1>6, <1>14, <2>2
  <2>3. CASE n > m
    <3>1. n - m \in 1 .. p
      BY <1>6, <2>3
    <3>2. st[r[n]] = t[l[n - m]]
      BY <1>14, <2>3
    <3>3. QED  BY <1>4, <3>1, <3>2
  <2>4. QED  BY <2>2, <2>3
<1>16. ASSUME NEW n \in 1 .. Len(st), st[n] \in T
       PROVE  \E i \in 1 .. m + p : r[i] = n
  <2>1. CASE n <= Len(s)
    <3>1. n \in 1 .. Len(s) /\ s[n] \in T
      BY <1>5, <1>16, <2>1
    <3>2. PICK i \in 1 .. m : k[i] = n
      BY <1>3, <3>1
    <3>3. QED  BY <1>7, <3>2
  <2>2. CASE n > Len(s)
    <3>1. n - Len(s) \in 1 .. Len(t) /\ Len(s) + (n - Len(s)) = n
      BY <1>5, <2>2
    <3>2. t[n - Len(s)] \in T
      BY <1>5, <1>16, <3>1
    <3>3. PICK i \in 1 .. p : l[i] = n - Len(s)
      BY <1>4, <3>1, <3>2
    <3>4. QED  BY <1>8, <3>1, <3>3
  <2>3. QED  BY <1>5, <2>1, <2>2
<1>17. Picks(r, m + p, st, T)
  <2>1. r \in [1 .. m + p -> 1 .. Len(st)]
    <3>1. r = [n \in 1 .. m + p |-> r[n]]
      BY DEF r
    <3>2. QED  BY <1>12, <3>1
  <2>2. QED  BY <1>13, <1>15, <1>16, <2>1 DEF Picks
<1>18. Within(st, T) = [n \in 1 .. m + p |-> st[r[n]]]
  BY <1>5, <1>17, WithinUnique
<1>19. Within(st, T) = [n \in 1 .. m + p |-> IF n <= m THEN s[k[n]] ELSE t[l[n - m]]]
  BY <1>14, <1>18
<1> DEFINE a == Within(s, T)
           b == Within(t, T)
<1>20. /\ a \in Seq(V) /\ Len(a) = m /\ \A n \in 1 .. m : a[n] = s[k[n]]
       /\ b \in Seq(V) /\ Len(b) = p /\ \A n \in 1 .. p : b[n] = t[l[n]]
  <2>1. a \in [1 .. m -> V]
    BY <1>1, <1>3
  <2>2. b \in [1 .. p -> V]
    BY <1>2, <1>4
  <2>3. a \in Seq(V) /\ Len(a) = m /\ b \in Seq(V) /\ Len(b) = p
    <3> HIDE DEF a, b
    <3>1. QED  BY <2>1, <2>2
  <2>4. QED  BY <1>1, <1>2, <2>3
<1> HIDE DEF a, b
<1>21. a \o b = [n \in 1 .. m + p |-> IF n <= m THEN a[n] ELSE b[n - m]]
  <2>1. a \in Seq(V) /\ b \in Seq(V) /\ Len(a) = m /\ Len(b) = p
    BY <1>20
  <2>2. a \o b = [n \in 1 .. Len(a) + Len(b) |-> IF n <= Len(a) THEN a[n] ELSE b[n - Len(a)]]
    BY <2>1, ConcatEntries
  <2>3. QED  BY <2>1, <2>2, Zenon
<1>22. a \o b = [n \in 1 .. m + p |-> IF n <= m THEN s[k[n]] ELSE t[l[n - m]]]
  <2>1. \A n \in 1 .. m + p : (IF n <= m THEN a[n] ELSE b[n - m])
                               = (IF n <= m THEN s[k[n]] ELSE t[l[n - m]])
    BY <1>6, <1>20
  <2>2. QED  BY <1>21, <2>1
<1>23. QED  BY <1>19, <1>22 DEF a, b, st

LEMMA WithoutFacts ==
    ASSUME NEW V, NEW s \in Seq(V), NEW T
    PROVE  /\ Without(s, T) \in Seq(V)
           /\ Len(Without(s, T)) <= Len(s)
           /\ ToSet(Without(s, T)) = ToSet(s) \ T
           /\ IsInjective(s) => IsInjective(Without(s, T))
<1> DEFINE U == ToSet(s) \ T
<1>1. ToSet(s) \cap U = ToSet(s) \ T
  OBVIOUS
<1> HIDE DEF U
<1>2. QED  BY <1>1, WithinFacts DEF Without, U

LEMMA WithoutSame ==
    ASSUME NEW V, NEW s \in Seq(V), NEW T, ToSet(s) \cap T = {}
    PROVE  Without(s, T) = s
<1>1. ToSet(s) \subseteq ToSet(s) \ T
  OBVIOUS
<1>2. QED  BY <1>1, WithinSame DEF Without

LEMMA WithoutTwice ==
    ASSUME NEW V, NEW s \in Seq(V), NEW T, NEW U
    PROVE  Without(Without(s, T), U) = Without(s, T \cup U)
<1> DEFINE A == ToSet(s) \ T
           B == ToSet(Without(s, T)) \ U
           C == ToSet(s) \ (T \cup U)
<1>1. ToSet(Without(s, T)) = ToSet(s) \ T
  BY WithoutFacts
<1>2. A \cap B = C
  BY <1>1
<1> HIDE DEF A, B, C
<1>3. Within(Within(s, A), B) = Within(s, C)
  BY <1>2, WithinTwice
<1>4. QED  BY <1>3, Zenon DEF Without, A, B, C

LEMMA WithoutConcat ==
    ASSUME NEW V, NEW s \in Seq(V), NEW t \in Seq(V), NEW T
    PROVE  Without(s \o t, T) = Without(s, T) \o Without(t, T)
<1> DEFINE U == ToSet(s \o t) \ T
<1>1. U = (ToSet(s) \cup ToSet(t)) \ T
  BY ConcatSet
<1>2. /\ ToSet(s) \cap U = ToSet(s) \cap (ToSet(s) \ T)
      /\ ToSet(t) \cap U = ToSet(t) \cap (ToSet(t) \ T)
  BY <1>1
<1> HIDE DEF U
<1>3. Within(s, U) = Without(s, T) /\ Within(t, U) = Without(t, T)
  BY <1>2, WithinAgrees DEF Without
<1>4. Within(s \o t, U) = Within(s, U) \o Within(t, U)
  BY WithinConcat
<1>5. Without(s \o t, T) = Within(s \o t, U)
  BY Zenon DEF Without, U
<1>6. QED  BY <1>3, <1>4, <1>5

-----------------------------------------------------------------------------
(* Arrays in which nothing occurs twice.                                   *)

LEMMA ConcatInjective ==
    ASSUME NEW V, NEW s \in Seq(V), NEW t \in Seq(V),
           IsInjective(s), IsInjective(t), ToSet(s) \cap ToSet(t) = {}
    PROVE  IsInjective(s \o t)
<1>1. /\ s \o t \in Seq(V) /\ Len(s \o t) = Len(s) + Len(t)
      /\ s \o t = [n \in 1 .. Len(s) + Len(t) |->
                     IF n <= Len(s) THEN s[n] ELSE t[n - Len(s)]]
  BY ConcatEntries
<1> DEFINE c == s \o t
<1>2. /\ DOMAIN c = 1 .. Len(s) + Len(t)
      /\ \A n \in 1 .. Len(s) + Len(t) :
            c[n] = IF n <= Len(s) THEN s[n] ELSE t[n - Len(s)]
  BY <1>1
<1> HIDE DEF c
<1>3. \A i \in 1 .. Len(s), j \in 1 .. Len(t) : s[i] # t[j]
  BY DEF ToSet
<1>4. ASSUME NEW a \in 1 .. Len(s) + Len(t), NEW b \in 1 .. Len(s) + Len(t), c[a] = c[b]
      PROVE  a = b
  <2>1. CASE a <= Len(s) /\ b <= Len(s)
    <3>1. a \in DOMAIN s /\ b \in DOMAIN s
      BY <2>1
    <3>2. QED  BY <1>2, <1>4, <2>1, <3>1 DEF IsInjective
  <2>2. CASE a > Len(s) /\ b > Len(s)
    <3>1. a - Len(s) \in DOMAIN t /\ b - Len(s) \in DOMAIN t
      BY <2>2
    <3>2. t[a - Len(s)] = t[b - Len(s)]
      BY <1>2, <1>4, <2>2
    <3>3. a - Len(s) = b - Len(s)
      BY <3>1, <3>2 DEF IsInjective
    <3>4. QED  BY <3>3
  <2>3. CASE a <= Len(s) /\ b > Len(s)
    <3>1. a \in 1 .. Len(s) /\ b - Len(s) \in 1 .. Len(t)
      BY <2>3
    <3>2. QED  BY <1>2, <1>3, <1>4, <2>3, <3>1
  <2>4. CASE a > Len(s) /\ b <= Len(s)
    <3>1. b \in 1 .. Len(s) /\ a - Len(s) \in 1 .. Len(t)
      BY <2>4
    <3>2. QED  BY <1>2, <1>3, <1>4, <2>4, <3>1
  <2>5. QED  BY <2>1, <2>2, <2>3, <2>4
<1>5. IsInjective(c)
  BY <1>2, <1>4 DEF IsInjective
<1>6. QED  BY <1>5 DEF c

LEMMA InjectiveLength ==
    ASSUME NEW V, NEW s \in Seq(V), IsInjective(s)
    PROVE  IsFiniteSet(ToSet(s)) /\ Cardinality(ToSet(s)) = Len(s)
<1> DEFINE T == ToSet(s)
<1>1. s \in [1 .. Len(s) -> T] /\ Len(s) \in Nat /\ DOMAIN s = 1 .. Len(s)
  BY DEF ToSet
<1>2. \A i, j \in 1 .. Len(s) : s[i] = s[j] => i = j
  BY <1>1 DEF IsInjective
<1>3. \A x \in T : \E i \in 1 .. Len(s) : s[i] = x
  BY <1>1 DEF ToSet
<1> HIDE DEF T
<1>4. s \in Bijection(1 .. Len(s), T)
  BY <1>1, <1>2, <1>3, Fun_IsBij
<1>5. ExistsBijection(1 .. Len(s), T)
  BY <1>4 DEF ExistsBijection
<1>6. IsFiniteSet(1 .. Len(s)) /\ Cardinality(1 .. Len(s)) = Len(s)
  BY <1>1, CardinalityUpTo
<1>7. IsFiniteSet(T) /\ Cardinality(T) = Len(s)
  BY <1>5, <1>6, FS_Bijection
<1>8. QED  BY <1>7 DEF T

LEMMA AppendedIs ==
    ASSUME NEW V, NEW s \in Seq(V), NEW x \in V
    PROVE  Append(s, x) = s \o <<x>>
OBVIOUS

LEMMA AppendedSet ==
    ASSUME NEW V, NEW s \in Seq(V), NEW x \in V
    PROVE  /\ ToSet(Append(s, x)) = ToSet(s) \cup {x}
           /\ IsInjective(s) /\ x \notin ToSet(s) => IsInjective(Append(s, x))
<1> DEFINE t == <<x>>
<1>1. t \in Seq(V) /\ ToSet(t) = {x} /\ IsInjective(t)
  BY DEF ToSet, IsInjective
<1>2. Append(s, x) = s \o t
  OBVIOUS
<1> HIDE DEF t
<1>3. ToSet(s \o t) = ToSet(s) \cup {x}
  <2>1. ToSet(s \o t) = ToSet(s) \cup ToSet(t)
    BY <1>1, ConcatSet
  <2>2. QED  BY <1>1, <2>1
<1>4. ASSUME IsInjective(s), x \notin ToSet(s) PROVE IsInjective(s \o t)
  <2>1. ToSet(s) \cap ToSet(t) = {}
    BY <1>1, <1>4
  <2>2. QED  BY <1>1, <1>4, <2>1, ConcatInjective
<1>5. QED  BY <1>2, <1>3, <1>4

(* The sorted array of a finite set of numbers. *)
LEMMA AscendingFacts ==
    ASSUME NEW S \in SUBSET Int, IsFiniteSet(S)
    PROVE  /\ Ascending(S) \in Seq(S) /\ Len(Ascending(S)) = Cardinality(S)
           /\ ToSet(Ascending(S)) = S /\ IsInjective(Ascending(S))
<1> DEFINE a == Ascending(S)
           n == Cardinality(S)
<1>1. /\ n \in Nat /\ a \in [1 .. n -> S]
      /\ \A i, j \in 1 .. n : i < j => a[i] < a[j]
      /\ \A x \in S : \E i \in 1 .. n : a[i] = x
  BY AscendingSorts
<1> HIDE DEF a, n
<1>2. a \in Seq(S) /\ Len(a) = n /\ DOMAIN a = 1 .. n
  BY <1>1
<1>3. ToSet(a) = S
  BY <1>1, <1>2 DEF ToSet
<1>4. \A i, j \in 1 .. n : a[i] = a[j] => i = j
  <2>1. SUFFICES ASSUME NEW i \in 1 .. n, NEW j \in 1 .. n, a[i] = a[j], i # j
                 PROVE  FALSE
    OBVIOUS
  <2>2. i < j \/ j < i
    BY <1>1, <2>1
  <2>3. a[i] \in Int
    BY <1>1
  <2>4. QED  BY <1>1, <2>1, <2>2, <2>3
<1>5. QED  BY <1>2, <1>3, <1>4 DEF a, n, IsInjective

-----------------------------------------------------------------------------
(* Arrays put together and taken apart.                                    *)

LEMMA ConcatParts ==
    ASSUME NEW V, NEW s \in Seq(V), NEW t \in Seq(V)
    PROVE  /\ SubSeq(s \o t, 1, Len(s)) = s
           /\ SubSeq(s \o t, Len(s) + 1, Len(s \o t)) = t
<1> DEFINE st == s \o t
<1>1. /\ st \in Seq(V) /\ Len(st) = Len(s) + Len(t)
      /\ \A n \in 1 .. Len(s) : st[n] = s[n]
      /\ \A n \in 1 .. Len(t) : st[Len(s) + n] = t[n]
      /\ Len(s) \in Nat /\ Len(t) \in Nat
  OBVIOUS
<1> HIDE DEF st
<1>2. SubSeq(st, 1, Len(s)) = [n \in 1 .. Len(s) |-> st[n]]
  <2>1. \A n \in 1 .. Len(s) : n + 1 - 1 = n
    OBVIOUS
  <2>2. SubSeq(st, 1, Len(s)) = [n \in 1 .. Len(s) |-> st[n + 1 - 1]]
    BY <1>1
  <2>3. QED  BY <2>1, <2>2
<1>3. SubSeq(st, Len(s) + 1, Len(st)) = [n \in 1 .. Len(t) |-> st[Len(s) + n]]
  BY <1>1
<1>4. QED  BY <1>1, <1>2, <1>3 DEF st

LEMMA SplitAt ==
    ASSUME NEW V, NEW s \in Seq(V), NEW k \in 0 .. Len(s)
    PROVE  \E p \in Seq(V) : \E q \in Seq(V) : s = p \o q /\ Len(p) = k
<1> DEFINE p == SubSeq(s, 1, k)
           q == SubSeq(s, k + 1, Len(s))
<1>1. /\ p \in Seq(V) /\ Len(p) = k /\ \A n \in 1 .. k : p[n] = s[n]
      /\ q \in Seq(V) /\ Len(q) = Len(s) - k
      /\ \A n \in 1 .. Len(s) - k : q[n] = s[k + n]
  OBVIOUS
<1> HIDE DEF p, q
<1>2. p \o q = [n \in 1 .. Len(p) + Len(q) |-> IF n <= Len(p) THEN p[n] ELSE q[n - Len(p)]]
  BY <1>1, ConcatEntries
<1>3. p \o q = [n \in 1 .. Len(s) |-> s[n]]
  <2>1. ASSUME NEW n \in 1 .. Len(s)
        PROVE  (IF n <= k THEN p[n] ELSE q[n - k]) = s[n]
    <3>1. CASE n <= k
      BY <1>1, <3>1
    <3>2. CASE n > k
      <4>1. n - k \in 1 .. Len(s) - k /\ k + (n - k) = n
        BY <3>2
      <4>2. QED  BY <1>1, <3>2, <4>1
    <3>3. QED  BY <3>1, <3>2
  <2>2. Len(p) + Len(q) = Len(s)
    BY <1>1
  <2>3. QED  BY <1>1, <1>2, <2>1, <2>2
<1>4. s = [n \in 1 .. Len(s) |-> s[n]]
  OBVIOUS
<1>5. QED  BY <1>1, <1>3, <1>4

LEMMA InjectiveParts ==
    ASSUME NEW V, NEW s \in Seq(V), NEW t \in Seq(V), IsInjective(s \o t)
    PROVE  IsInjective(s) /\ IsInjective(t) /\ ToSet(s) \cap ToSet(t) = {}
<1> DEFINE c == s \o t
<1>1. /\ c \in Seq(V) /\ Len(c) = Len(s) + Len(t)
      /\ \A n \in 1 .. Len(s) : c[n] = s[n]
      /\ \A n \in 1 .. Len(t) : c[Len(s) + n] = t[n]
      /\ Len(s) \in Nat /\ Len(t) \in Nat
  OBVIOUS
<1>2. \A i, j \in 1 .. Len(s) + Len(t) : c[i] = c[j] => i = j
  BY <1>1 DEF IsInjective
<1> HIDE DEF c
<1>3. IsInjective(s)
  <2>1. \A i \in 1 .. Len(s) : i \in 1 .. Len(s) + Len(t)
    BY <1>1
  <2>2. QED  BY <1>1, <1>2, <2>1 DEF IsInjective
<1>4. IsInjective(t)
  <2>1. SUFFICES ASSUME NEW i \in 1 .. Len(t), NEW j \in 1 .. Len(t), t[i] = t[j]
                 PROVE  i = j
    BY DEF IsInjective
  <2>2. Len(s) + i \in 1 .. Len(s) + Len(t) /\ Len(s) + j \in 1 .. Len(s) + Len(t)
    BY <1>1
  <2>3. Len(s) + i = Len(s) + j
    BY <1>1, <1>2, <2>1, <2>2
  <2>4. QED  BY <1>1, <2>3
<1>5. ASSUME NEW i \in 1 .. Len(s), NEW j \in 1 .. Len(t) PROVE s[i] # t[j]
  <2>1. i \in 1 .. Len(s) + Len(t) /\ Len(s) + j \in 1 .. Len(s) + Len(t) /\ i # Len(s) + j
    BY <1>1
  <2>2. QED  BY <1>1, <1>2, <2>1
<1>6. ToSet(s) \cap ToSet(t) = {}
  BY <1>5 DEF ToSet
<1>7. QED  BY <1>3, <1>4, <1>6

LEMMA InsertedBehind ==
    ASSUME NEW V, NEW p \in Seq(V), NEW q \in Seq(V), NEW h
    PROVE  InsertAt(p \o q, Len(p) + 1, h) = (p \o <<h>>) \o q
<1>1. (Len(p) + 1) - 1 = Len(p)
  OBVIOUS
<1>2. /\ SubSeq(p \o q, 1, (Len(p) + 1) - 1) = p
      /\ SubSeq(p \o q, Len(p) + 1, Len(p \o q)) = q
  BY <1>1, ConcatParts
<1>3. QED  BY <1>2, Zenon DEF InsertAt

LEMMA Inserted ==
    ASSUME NEW V, NEW s \in Seq(V), IsInjective(s), NEW h \in V, h \notin ToSet(s),
           NEW i \in 1 .. Len(s) + 1
    PROVE  /\ InsertAt(s, i, h) \in Seq(V) /\ IsInjective(InsertAt(s, i, h))
           /\ ToSet(InsertAt(s, i, h)) = ToSet(s) \cup {h}
<1>1. i - 1 \in 0 .. Len(s)
  OBVIOUS
<1>2. PICK p \in Seq(V) : \E q \in Seq(V) : s = p \o q /\ Len(p) = i - 1
  BY <1>1, SplitAt
<1>3. PICK q \in Seq(V) : s = p \o q /\ Len(p) = i - 1
  BY <1>2
<1>4. Len(p) + 1 = i
  BY <1>3
<1>5. InsertAt(s, i, h) = (p \o <<h>>) \o q
  BY <1>3, <1>4, InsertedBehind
<1>6. /\ IsInjective(p) /\ IsInjective(q) /\ ToSet(p) \cap ToSet(q) = {}
      /\ ToSet(s) = ToSet(p) \cup ToSet(q)
  BY <1>3, InjectiveParts, ConcatSet
<1>7. Append(p, h) = p \o <<h>>
  BY AppendedIs
<1> DEFINE a == p \o <<h>>
<1>8. a \in Seq(V) /\ IsInjective(a) /\ ToSet(a) = ToSet(p) \cup {h}
  <2>1. h \notin ToSet(p)
    BY <1>6
  <2>2. IsInjective(Append(p, h)) /\ ToSet(Append(p, h)) = ToSet(p) \cup {h}
    BY <1>6, <2>1, AppendedSet
  <2>3. a \in Seq(V)
    OBVIOUS
  <2>4. QED  BY <1>7, <2>2, <2>3
<1> HIDE DEF a
<1>9. a \o q \in Seq(V) /\ ToSet(a \o q) = ToSet(s) \cup {h} /\ IsInjective(a \o q)
  <2>1. ToSet(a) \cap ToSet(q) = {}
    BY <1>6, <1>8
  <2>2. QED  BY <1>6, <1>8, <2>1, ConcatSet, ConcatInjective
<1>10. QED  BY <1>5, <1>9 DEF a

-----------------------------------------------------------------------------
(* Numbers.                                                                *)

LEMMA MinOfTwo ==
    ASSUME NEW m \in Int, NEW n \in Int
    PROVE  Min({m, n}) \in {m, n} /\ Min({m, n}) <= m /\ Min({m, n}) <= n
<1>1. \E x \in {m, n} : \A y \in {m, n} : x <= y
  OBVIOUS
<1>2. Min({m, n}) \in {m, n} /\ \A y \in {m, n} : Min({m, n}) <= y
  BY <1>1, Zenon DEF Min
<1>3. QED  BY <1>2

(* A subset of a certain size. *)
LEMMA SubsetOfSize ==
    ASSUME NEW S, IsFiniteSet(S), NEW k, NEW T \in kSubset(k, S)
    PROVE  T \subseteq S /\ IsFiniteSet(T) /\ Cardinality(T) = k
<1>1. T \in SUBSET S /\ Cardinality(T) = k
  BY DEF kSubset
<1>2. QED  BY <1>1, FS_Subset

LEMMA Divided ==
    ASSUME NEW a \in Nat, NEW b \in Nat \ {0}
    PROVE  /\ a \div b \in Nat /\ a % b \in 0 .. b - 1
           /\ a = b * (a \div b) + (a % b)
OBVIOUS

LEMMA Quotient ==
    ASSUME NEW b \in Nat \ {0}, NEW q \in Nat, NEW z \in 0 .. b - 1, NEW c \in Nat, c = b * q + z
    PROVE  c \div b = q
<1> DEFINE p == c \div b
           r == c % b
<1>1. p \in Nat /\ r \in 0 .. b - 1 /\ c = b * p + r
  BY Divided
<1> HIDE DEF p, r
<1>2. b * p + r = b * q + z
  BY <1>1
<1>3. ASSUME p < q PROVE FALSE
  <2>1. PICK d \in Nat : q = p + 1 + d
    <3>1. q - p - 1 \in Nat /\ q = p + 1 + (q - p - 1)
      BY <1>1, <1>3
    <3>2. QED  BY <3>1
  <2>2. b * q = b * p + b + b * d /\ b * d >= 0 /\ b * p \in Int /\ b * d \in Int
    BY <1>1, <2>1
  <2>3. QED  BY <1>1, <1>2, <2>2
<1>4. ASSUME q < p PROVE FALSE
  <2>1. PICK d \in Nat : p = q + 1 + d
    <3>1. p - q - 1 \in Nat /\ p = q + 1 + (p - q - 1)
      BY <1>1, <1>4
    <3>2. QED  BY <3>1
  <2>2. b * p = b * q + b + b * d /\ b * d >= 0 /\ b * q \in Int /\ b * d \in Int
    BY <1>1, <2>1
  <2>3. QED  BY <1>1, <1>2, <2>2
<1>5. QED  BY <1>1, <1>3, <1>4 DEF p

(* A row of C cells is a whole number of widgets of g cells. *)
LEMMA WholeWidgets ==
    ASSUME NEW g \in Nat \ {0}, NEW C \in Nat \ {0}, C % g = 0, NEW n \in Nat
    PROVE  ((n * g) % C) + g <= C
<1> DEFINE m == C \div g
           q == (n * g) \div C
           x == (n * g) % C
<1>1. C = g * m /\ m \in Nat
  BY Divided
<1>2. n * g \in Nat /\ n * g = C * q + x /\ q \in Nat /\ x \in 0 .. C - 1
  <2>1. n * g \in Nat
    OBVIOUS
  <2>2. QED  BY <2>1, Divided
<1> HIDE DEF m, q, x
<1> DEFINE y == n - m * q
<1>3. y \in Int /\ x = g * y
  <2>1. m * q \in Int
    BY <1>1, <1>2
  <2>2. (g * m) * q = g * (m * q)
    BY <1>1, <1>2
  <2>3. g * (n - m * q) = n * g - g * (m * q)
    BY <2>1
  <2>4. QED  BY <1>1, <1>2, <2>1, <2>2, <2>3
<1> HIDE DEF y
<1>4. y < m
  <2>1. SUFFICES ASSUME y >= m PROVE FALSE
    BY <1>1, <1>3
  <2>2. PICK d \in Nat : y = m + d
    <3>1. y - m \in Nat /\ y = m + (y - m)
      BY <1>1, <1>3, <2>1
    <3>2. QED  BY <3>1
  <2>3. g * y = g * m + g * d /\ g * d >= 0 /\ g * d \in Int
    BY <1>1, <2>2
  <2>4. QED  BY <1>1, <1>2, <1>3, <2>3
<1>5. PICK d \in Nat : m = y + 1 + d
  <2>1. m - y - 1 \in Nat /\ m = y + 1 + (m - y - 1)
    BY <1>1, <1>3, <1>4
  <2>2. QED  BY <2>1
<1>6. g * m = g * y + g + g * d /\ g * d >= 0 /\ g * d \in Int
  BY <1>3, <1>5
<1>7. x + g <= C
  BY <1>1, <1>2, <1>3, <1>6
<1>8. QED  BY <1>7 DEF x

LEMMA MaxOfTwo ==
    ASSUME NEW m \in Int, NEW n \in Int
    PROVE  Max({m, n}) \in {m, n} /\ Max({m, n}) >= m /\ Max({m, n}) >= n
<1>1. \E x \in {m, n} : \A y \in {m, n} : x >= y
  OBVIOUS
<1>2. Max({m, n}) \in {m, n} /\ \A y \in {m, n} : Max({m, n}) >= y
  BY <1>1, Zenon DEF Max
<1>3. QED  BY <1>2

-----------------------------------------------------------------------------
(* Sorted arrays.                                                          *)

(* Every entry of s stands in the relation R to those after it. *)
Sorted(s, R) == \A i \in 1 .. Len(s) : \A j \in i + 1 .. Len(s) : <<s[i], s[j]>> \in R

LEMMA SortedWithin ==
    ASSUME NEW V, NEW s \in Seq(V), NEW R, Sorted(s, R), NEW T
    PROVE  Sorted(Within(s, T), R)
<1>1. PICK m \in Nat : \E k : /\ Picks(k, m, s, T)
                              /\ Within(s, T) = [n \in 1 .. m |-> s[k[n]]]
  BY WithinPicks
<1>2. PICK k : Picks(k, m, s, T) /\ Within(s, T) = [n \in 1 .. m |-> s[k[n]]]
  BY <1>1
<1>3. /\ k \in [1 .. m -> 1 .. Len(s)]
      /\ \A i, j \in 1 .. m : i < j => k[i] < k[j]
  BY <1>2 DEF Picks
<1> DEFINE w == Within(s, T)
<1>4. Len(w) = m /\ \A n \in 1 .. m : w[n] = s[k[n]]
  BY <1>2
<1> HIDE DEF w
<1>5. ASSUME NEW i \in 1 .. m, NEW j \in i + 1 .. m PROVE <<w[i], w[j]>> \in R
  <2>1. j \in 1 .. m /\ i < j
    OBVIOUS
  <2>2. k[i] \in 1 .. Len(s) /\ k[j] \in 1 .. Len(s) /\ k[i] < k[j]
    BY <1>3, <2>1
  <2>3. k[j] \in k[i] + 1 .. Len(s)
    BY <2>2
  <2>4. <<s[k[i]], s[k[j]]>> \in R
    BY <2>2, <2>3 DEF Sorted
  <2>5. QED  BY <1>4, <2>1, <2>4
<1>6. QED  BY <1>4, <1>5 DEF Sorted, w

LEMMA SortedConcat ==
    ASSUME NEW V, NEW s \in Seq(V), NEW t \in Seq(V), NEW R, Sorted(s, R), Sorted(t, R),
           \A x \in ToSet(s) : \A y \in ToSet(t) : <<x, y>> \in R
    PROVE  Sorted(s \o t, R)
<1> DEFINE c == s \o t
           a == Len(s)
           b == Len(t)
<1>1. /\ Len(c) = a + b /\ a \in Nat /\ b \in Nat
      /\ \A n \in 1 .. a : c[n] = s[n]
      /\ \A n \in 1 .. b : c[a + n] = t[n]
  OBVIOUS
<1>2. (\A n \in 1 .. a : s[n] \in ToSet(s)) /\ (\A n \in 1 .. b : t[n] \in ToSet(t))
  BY DEF ToSet
<1>3. /\ \A i \in 1 .. a : \A j \in i + 1 .. a : <<s[i], s[j]>> \in R
      /\ \A i \in 1 .. b : \A j \in i + 1 .. b : <<t[i], t[j]>> \in R
  BY DEF Sorted
<1> HIDE DEF a, b, c
<1>4. ASSUME NEW i \in 1 .. a + b, NEW j \in i + 1 .. a + b PROVE <<c[i], c[j]>> \in R
  <2>1. CASE j <= a
    <3>1. i \in 1 .. a /\ j \in 1 .. a /\ j \in i + 1 .. a
      BY <1>1, <2>1
    <3>2. QED  BY <1>1, <1>3, <3>1
  <2>2. CASE i <= a /\ j > a
    <3>1. i \in 1 .. a /\ j - a \in 1 .. b /\ a + (j - a) = j
      BY <1>1, <2>2
    <3>2. c[i] = s[i] /\ c[j] = t[j - a]
      BY <1>1, <3>1
    <3>3. s[i] \in ToSet(s) /\ t[j - a] \in ToSet(t)
      BY <1>2, <3>1
    <3>4. QED  BY <3>2, <3>3
  <2>3. CASE i > a
    <3> DEFINE p == i - a
               q == j - a
    <3>1. p \in 1 .. b /\ q \in 1 .. b /\ q \in p + 1 .. b /\ a + p = i /\ a + q = j
      BY <1>1, <2>3
    <3> HIDE DEF p, q
    <3>2. c[i] = t[p] /\ c[j] = t[q]
      BY <1>1, <3>1
    <3>3. QED  BY <1>3, <3>1, <3>2
  <2>4. QED  BY <1>1, <2>1, <2>2, <2>3
<1>5. QED  BY <1>1, <1>4 DEF Sorted, c

(* What stands in front of a sorted array stands in R to what is behind.   *)
LEMMA SortedParts ==
    ASSUME NEW V, NEW s \in Seq(V), NEW t \in Seq(V), NEW R, Sorted(s \o t, R)
    PROVE  /\ Sorted(s, R) /\ Sorted(t, R)
           /\ \A x \in ToSet(s) : \A y \in ToSet(t) : <<x, y>> \in R
<1> DEFINE c == s \o t
           a == Len(s)
           b == Len(t)
<1>1. /\ Len(c) = a + b /\ a \in Nat /\ b \in Nat
      /\ \A n \in 1 .. a : c[n] = s[n]
      /\ \A n \in 1 .. b : c[a + n] = t[n]
  OBVIOUS
<1>2. ToSet(s) = {s[n] : n \in 1 .. a} /\ ToSet(t) = {t[n] : n \in 1 .. b}
  BY DEF ToSet
<1>3. \A i \in 1 .. a + b : \A j \in i + 1 .. a + b : <<c[i], c[j]>> \in R
  BY <1>1 DEF Sorted
<1>4. Sorted(s, R) <=> \A i \in 1 .. a : \A j \in i + 1 .. a : <<s[i], s[j]>> \in R
  BY DEF Sorted
<1>5. Sorted(t, R) <=> \A i \in 1 .. b : \A j \in i + 1 .. b : <<t[i], t[j]>> \in R
  BY DEF Sorted
<1> HIDE DEF a, b, c
<1>6. ASSUME NEW i \in 1 .. a, NEW j \in i + 1 .. a PROVE <<s[i], s[j]>> \in R
  <2>1. i \in 1 .. a + b /\ j \in i + 1 .. a + b /\ j \in 1 .. a
    BY <1>1
  <2>2. QED  BY <1>1, <1>3, <2>1
<1>7. ASSUME NEW i \in 1 .. b, NEW j \in i + 1 .. b PROVE <<t[i], t[j]>> \in R
  <2>1. a + i \in 1 .. a + b /\ a + j \in (a + i) + 1 .. a + b /\ j \in 1 .. b
    BY <1>1
  <2>2. <<c[a + i], c[a + j]>> \in R
    BY <1>3, <2>1
  <2>3. QED  BY <1>1, <2>1, <2>2
<1>8. ASSUME NEW i \in 1 .. a, NEW j \in 1 .. b PROVE <<s[i], t[j]>> \in R
  <2>1. i \in 1 .. a + b /\ a + j \in i + 1 .. a + b
    BY <1>1
  <2>2. <<c[i], c[a + j]>> \in R
    BY <1>3, <2>1
  <2>3. QED  BY <1>1, <2>2
<1>9. \A x \in ToSet(s) : \A y \in ToSet(t) : <<x, y>> \in R
  BY <1>2, <1>8
<1>10. QED  BY <1>4, <1>5, <1>6, <1>7, <1>9
=============================================================================
