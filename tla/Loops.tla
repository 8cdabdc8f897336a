-------------------------------- MODULE Loops --------------------------------
(***************************************************************************)
(* FoldLeft is the loop it stands for: there is a run of it that begins    *)
(* with the base, makes one step for each entry of the sequence and ends   *)
(* with the result.  A proof about a loop cites this fact for the loop's   *)
(* step, as an instance of this module, and goes on by induction along the *)
(* run.                                                                    *)
(***************************************************************************)
EXTENDS ListProofs

CONSTANT Step(_, _)

Loop(base, s) == FoldLeft(Step, base, s)

(* One function that folds every subset of the positions: what FoldLeft     *)
(* chooses exists.                                                         *)
FoldsSets(f, base, s, n) ==
    f = [x \in SUBSET (1 .. n) |->
            IF x = {} THEN base ELSE Step(f[x \ {Max(x)}], s[Max(x)])]

LEMMA MaxOfSome ==
    ASSUME NEW n \in Nat, NEW x \in SUBSET (1 .. n), x # {}
    PROVE  Max(x) \in x /\ \A y \in x : y <= Max(x)
<1> DEFINE T == {n - y : y \in x}
<1>1. T \in SUBSET Nat /\ T # {}
  OBVIOUS
<1> HIDE DEF T
<1>2. PICK t \in T : \A u \in T : t <= u
  BY <1>1, Smallest
<1>3. PICK m \in x : t = n - m
  BY <1>2 DEF T
<1>4. ASSUME NEW y \in x PROVE m >= y
  <2>1. n - y \in T
    BY DEF T
  <2>2. n - m <= n - y
    BY <1>2, <1>3, <2>1
  <2>3. QED  BY <2>2
<1>5. \E z \in x : \A y \in x : z >= y
  BY <1>4
<1>6. Max(x) \in x /\ \A y \in x : Max(x) >= y
  BY <1>5, Zenon DEF Max
<1>7. \A y \in x : y \in Int
  OBVIOUS
<1>8. QED  BY <1>6, <1>7

LEMMA MaxUnique ==
    ASSUME NEW n \in Nat, NEW x \in SUBSET (1 .. n), NEW m \in x, \A y \in x : y <= m
    PROVE  Max(x) = m
<1>1. Max(x) \in x /\ m <= Max(x)
  BY MaxOfSome
<1>2. \A y \in x : y \in Int
  OBVIOUS
<1>3. Max(x) <= m
  BY <1>1
<1>4. \A p, q \in Int : p <= q /\ q <= p => p = q
  OBVIOUS
<1>5. QED  BY <1>1, <1>2, <1>3, <1>4

LEMMA FoldsSetsExist ==
    ASSUME NEW base, NEW s, NEW n \in Nat
    PROVE  \E f : FoldsSets(f, base, s, n)
<1> DEFINE T == {m \in 0 .. n : \E f : FoldsSets(f, base, s, m)}
<1>1. 0 \in T
  <2> DEFINE f == [x \in SUBSET (1 .. 0) |-> base]
  <2>1. \A x \in SUBSET (1 .. 0) : x = {}
    OBVIOUS
  <2>2. f = [x \in SUBSET (1 .. 0) |->
                IF x = {} THEN base ELSE Step(f[x \ {Max(x)}], s[Max(x)])]
    BY <2>1
  <2>3. QED  BY <2>2 DEF FoldsSets
<1>2. ASSUME NEW m \in 0 .. n - 1, m \in T PROVE m + 1 \in T
  <2>1. PICK f : FoldsSets(f, base, s, m)
    BY <1>2
  <2>2. \A x \in SUBSET (1 .. m) :
            f[x] = IF x = {} THEN base ELSE Step(f[x \ {Max(x)}], s[Max(x)])
    <3> DEFINE b == [x \in SUBSET (1 .. m) |->
                        IF x = {} THEN base ELSE Step(f[x \ {Max(x)}], s[Max(x)])]
    <3>1. f = b
      BY <2>1, Zenon DEF FoldsSets
    <3>2. \A x \in SUBSET (1 .. m) : b[x] =
            IF x = {} THEN base ELSE Step(f[x \ {Max(x)}], s[Max(x)])
      OBVIOUS
    <3> HIDE DEF b
    <3>3. QED  BY <3>1, <3>2
  <2> DEFINE g == [x \in SUBSET (1 .. m + 1) |->
                     IF m + 1 \in x THEN Step(f[x \ {m + 1}], s[m + 1]) ELSE f[x]]
  <2>3. \A x \in SUBSET (1 .. m + 1) :
            /\ m + 1 \in x => x \ {m + 1} \in SUBSET (1 .. m)
            /\ m + 1 \notin x => x \in SUBSET (1 .. m)
    OBVIOUS
  <2>4. \A x \in SUBSET (1 .. m + 1) :
            g[x] = IF m + 1 \in x THEN Step(f[x \ {m + 1}], s[m + 1]) ELSE f[x]
    OBVIOUS
  <2>5. \A x \in SUBSET (1 .. m) : g[x] = f[x]
    BY <2>4
  <2>6. g = [x \in SUBSET (1 .. m + 1) |-> g[x]]
    OBVIOUS
  <2> HIDE DEF g
  <2>7. ASSUME NEW x \in SUBSET (1 .. m + 1)
        PROVE  g[x] = IF x = {} THEN base ELSE Step(g[x \ {Max(x)}], s[Max(x)])
    <3>1. CASE m + 1 \in x
      <4>1. Max(x) = m + 1
        <5>1. m + 1 \in Nat /\ \A y \in x : y <= m + 1
          OBVIOUS
        <5>2. QED  BY <3>1, <5>1, MaxUnique
      <4>2. g[x \ {m + 1}] = f[x \ {m + 1}]
        BY <2>3, <2>5, <3>1
      <4>3. QED  BY <2>4, <3>1, <4>1, <4>2
    <3>2. CASE m + 1 \notin x
      <4>1. x \in SUBSET (1 .. m) /\ g[x] = f[x]
        BY <2>3, <2>4, <3>2
      <4>2. x \ {Max(x)} \in SUBSET (1 .. m)
        BY <4>1
      <4>3. g[x \ {Max(x)}] = f[x \ {Max(x)}]
        BY <2>5, <4>2
      <4>4. QED  BY <2>2, <4>1, <4>3
    <3>3. QED  BY <3>1, <3>2
  <2>8. g = [x \in SUBSET (1 .. m + 1) |->
                IF x = {} THEN base ELSE Step(g[x \ {Max(x)}], s[Max(x)])]
    BY <2>6, <2>7
  <2>9. FoldsSets(g, base, s, m + 1)
    BY <2>8, Zenon DEF FoldsSets
  <2>10. QED  BY <2>9
<1>3. n \in T
  <2> HIDE DEF T
  <2>1. n \in 0 .. n
    OBVIOUS
  <2>2. QED  BY <1>1, <1>2, <2>1, UpTo
<1>4. QED  BY <1>3

LEMMA LoopRuns ==
    ASSUME NEW W, NEW s \in Seq(W), NEW base
    PROVE  \E run : /\ run[0] = base
                    /\ \A i \in 1 .. Len(s) : run[i] = Step(run[i - 1], s[i])
                    /\ Loop(base, s) = run[Len(s)]
<1> DEFINE n == Len(s)
           iter == CHOOSE f : FoldsSets(f, base, s, n)
<1>1. n \in Nat /\ DOMAIN s = 1 .. n
  OBVIOUS
<1>2. FoldsSets(iter, base, s, n)
  BY <1>1, FoldsSetsExist
<1>3. Loop(base, s) = iter[1 .. n]
  <2>1. Loop(base, s) = (CHOOSE f : FoldsSets(f, base, s, n))[DOMAIN s]
    BY <1>1, Zenon DEF Loop, FoldLeft, MapThenFoldSet, FoldsSets
  <2>2. QED  BY <1>1, <2>1
<1> HIDE DEF iter
<1>4. \A x \in SUBSET (1 .. n) :
          iter[x] = IF x = {} THEN base ELSE Step(iter[x \ {Max(x)}], s[Max(x)])
  <2> DEFINE body == [x \in SUBSET (1 .. n) |->
                 IF x = {} THEN base ELSE Step(iter[x \ {Max(x)}], s[Max(x)])]
  <2>1. iter = body
    BY <1>2, Zenon DEF FoldsSets
  <2>2. \A x \in SUBSET (1 .. n) : body[x] =
                 IF x = {} THEN base ELSE Step(iter[x \ {Max(x)}], s[Max(x)])
    OBVIOUS
  <2> HIDE DEF body
  <2>3. QED  BY <2>1, <2>2
<1>5. iter[1 .. 0] = base
  <2>1. 1 .. 0 = {} /\ {} \in SUBSET (1 .. n)
    OBVIOUS
  <2>2. QED  BY <1>4, <2>1
<1>6. ASSUME NEW i \in 1 .. n PROVE iter[1 .. i] = Step(iter[1 .. i - 1], s[i])
  <2>1. 1 .. i \in SUBSET (1 .. n) /\ i \in 1 .. i
    BY <1>1
  <2>2. Max(1 .. i) = i
    <3>1. \A y \in 1 .. i : y <= i
      OBVIOUS
    <3>2. QED  BY <1>1, <2>1, <3>1, MaxUnique
  <2>3. (1 .. i) \ {i} = 1 .. i - 1
    OBVIOUS
  <2>4. QED  BY <1>4, <2>1, <2>2, <2>3
<1> DEFINE run == [i \in 0 .. n |-> iter[1 .. i]]
<1>7. \A i \in 0 .. n : run[i] = iter[1 .. i]
  OBVIOUS
<1> HIDE DEF run
<1>8. \A i \in 1 .. n : i \in 0 .. n /\ i - 1 \in 0 .. n
  BY <1>1
<1>9. run[0] = base /\ Loop(base, s) = run[n]
  BY <1>1, <1>3, <1>5, <1>7
<1>10. \A i \in 1 .. n : run[i] = Step(run[i - 1], s[i])
  BY <1>6, <1>7, <1>8
<1>11. QED  BY <1>9, <1>10

(* The loop has an invariant: sets I[0], I[1], ..., one for each number of  *)
(* steps made.                                                              *)
THEOREM LoopKeeps ==
    ASSUME NEW W, NEW s \in Seq(W), NEW I, NEW base \in I[0],
           \A i \in 1 .. Len(s) : \A v \in I[i - 1] : Step(v, s[i]) \in I[i]
    PROVE  Loop(base, s) \in I[Len(s)]
<1> DEFINE n == Len(s)
<1>1. n \in Nat
  OBVIOUS
<1>2. PICK run : /\ run[0] = base
                 /\ \A i \in 1 .. n : run[i] = Step(run[i - 1], s[i])
                 /\ Loop(base, s) = run[n]
  BY LoopRuns
<1> DEFINE T == {i \in 0 .. n : run[i] \in I[i]}
<1>3. 0 \in T
  BY <1>1, <1>2
<1>4. ASSUME NEW i \in 0 .. n - 1, i \in T PROVE i + 1 \in T
  <2>1. i + 1 \in 1 .. n /\ (i + 1) - 1 = i
    BY <1>1
  <2>2. run[i + 1] = Step(run[i], s[i + 1])
    BY <1>2, <2>1
  <2>3. run[i] \in I[i]
    BY <1>4
  <2>4. Step(run[i], s[i + 1]) \in I[i + 1]
    BY <2>1, <2>3
  <2>5. QED  BY <1>1, <2>1, <2>2, <2>4
<1>5. n \in T
  <2> HIDE DEF T
  <2>1. n \in 0 .. n
    BY <1>1
  <2>2. QED  BY <1>1, <1>3, <1>4, <2>1, UpTo
<1>6. QED  BY <1>2, <1>5

(* One entry more is one step more. *)
LEMMA LoopAppend ==
    ASSUME NEW W, NEW s \in Seq(W), NEW x \in W, NEW base
    PROVE  Loop(base, Append(s, x)) = Step(Loop(base, s), x)
<1> DEFINE t == Append(s, x)
           n == Len(s)
<1>1. /\ t \in Seq(W) /\ Len(t) = n + 1 /\ t[n + 1] = x /\ n \in Nat
      /\ \A i \in 1 .. n : t[i] = s[i]
  OBVIOUS
<1> HIDE DEF t
<1>2. PICK run : /\ run[0] = base
                 /\ \A i \in 1 .. Len(t) : run[i] = Step(run[i - 1], t[i])
                 /\ Loop(base, t) = run[Len(t)]
  BY <1>1, LoopRuns
<1>3. n + 1 \in 1 .. Len(t) /\ (n + 1) - 1 = n /\ \A i \in 1 .. n : i \in 1 .. Len(t)
  BY <1>1
<1>4. Loop(base, t) = Step(run[n], x)
  BY <1>1, <1>2, <1>3
<1> DEFINE I == [i \in 0 .. n |-> {run[i]}]
<1>5. \A i \in 0 .. n : I[i] = {run[i]}
  OBVIOUS
<1> HIDE DEF I
<1>6. \A i \in 1 .. n : i \in 0 .. n /\ i - 1 \in 0 .. n
  BY <1>1
<1>7. base \in I[0] /\ I[n] = {run[n]}
  BY <1>1, <1>2, <1>5
<1>8. \A i \in 1 .. n : \A v \in I[i - 1] : Step(v, s[i]) \in I[i]
  BY <1>1, <1>2, <1>3, <1>5, <1>6
<1>9. Loop(base, s) \in I[n]
  BY <1>7, <1>8, LoopKeeps
<1>10. Loop(base, s) = run[n]
  BY <1>7, <1>9
<1>11. QED  BY <1>4, <1>10 DEF t

LEMMA LoopEmpty ==
    ASSUME NEW base
    PROVE  Loop(base, <<>>) = base
<1> DEFINE s == <<>>
<1>1. s \in Seq({base}) /\ Len(s) = 0
  OBVIOUS
<1> HIDE DEF s
<1>2. PICK run : /\ run[0] = base
                 /\ \A i \in 1 .. Len(s) : run[i] = Step(run[i - 1], s[i])
                 /\ Loop(base, s) = run[Len(s)]
  BY <1>1, LoopRuns
<1>3. QED  BY <1>1, <1>2 DEF s
=============================================================================
