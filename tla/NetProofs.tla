------------------------------ MODULE NetProofs ------------------------------
(***************************************************************************)
(* What holds of the network collector and its column for every length of  *)
(* the day and the hour, however often links fail, bonds are made anew and *)
(* processes crash.                                                        *)
(***************************************************************************)
EXTENDS NetPanel, ListProofs

RiseLoop == INSTANCE Loops WITH Step <- AddRise

(* Every step is one of the collector or its host, or one of the panel and  *)
(* those who acknowledge, which leaves the collector alone.                 *)
HistoryStep == HistoryNext \/ UNCHANGED historyVars

LEMMA StepsParts ==
    ASSUME [Next]_vars
    PROVE  HistoryStep
BY DEF Next, vars, Around, AckRead, AckSet, Poll, PanelRestart, HistoryStep

-----------------------------------------------------------------------------
(* Types.                                                                  *)

Sample == [ts : Nat, v : 0 .. MaxTrouble + 1]
Earlier == {p \in Sample \X Sample : p[1].ts < p[2].ts}
NotLater == {p \in Nat \X Nat : p[1] <= p[2]}

(* Samples in the order of their times, none after n. *)
Timelines(n) ==
    {s \in Seq(Sample) : Sorted(s, Earlier) /\ \A x \in ToSet(s) : x.ts <= n}

(* The same for drops, of which there may be several at one time. *)
DropTimes(n) == {s \in Seq(Nat) : Sorted(s, NotLater) /\ \A t \in ToSet(s) : t <= n}
DropLists(n) == {s \in DropTimes(n) : Len(s) <= DropsMax}

HistoryTypes ==
    /\ now \in 0 .. MaxTime /\ trouble \in 0 .. MaxTrouble
    /\ counter \in 0 .. trouble + 1 /\ running \in BOOLEAN
    /\ ticked \in -1 .. now
    /\ series \in Timelines(ticked) /\ drops \in DropLists(ticked)
    /\ file.series \in Timelines(ticked) /\ file.drops \in DropLists(ticked)
    /\ last # None => last \in Sample /\ last.ts <= ticked
    /\ seen # None => seen \in Sample /\ seen.ts <= ticked
    /\ told \subseteq 0 .. ticked /\ failures \subseteq 0 .. now
    /\ record # None =>
          record \in [lfc : Nat, delta : Nat \cup {None}, drops : DropLists(ticked),
                      ts : 0 .. ticked]

LEMMA EarlierTimes ==
    ASSUME NEW n \in Int, NEW m \in Int, n <= m
    PROVE  /\ Timelines(n) \subseteq Timelines(m) /\ DropTimes(n) \subseteq DropTimes(m)
           /\ DropLists(n) \subseteq DropLists(m)
<1>1. \A s \in Seq(Sample) : \A x \in ToSet(s) : x.ts \in Int
  <2>1. \A s \in Seq(Sample) : ToSet(s) \subseteq Sample
    BY DEF ToSet
  <2>2. QED  BY <2>1 DEF Sample
<1>2. \A s \in Seq(Nat) : \A t \in ToSet(s) : t \in Int
  BY DEF ToSet
<1>3. Timelines(n) \subseteq Timelines(m)
  BY <1>1 DEF Timelines
<1>4. DropTimes(n) \subseteq DropTimes(m)
  BY <1>2 DEF DropTimes
<1>5. QED  BY <1>3, <1>4 DEF DropLists

LEMMA EmptyLists ==
    ASSUME NEW n \in Int
    PROVE  <<>> \in Timelines(n) /\ <<>> \in DropLists(n)
<1>1. <<>> \in Seq(Sample) /\ <<>> \in Seq(Nat) /\ ToSet(<<>>) = {}
  BY DEF ToSet
<1>2. Sorted(<<>>, Earlier) /\ Sorted(<<>>, NotLater)
  BY DEF Sorted
<1>3. Len(<<>>) <= DropsMax
  BY HistoryConstants
<1>4. QED  BY <1>1, <1>2, <1>3 DEF Timelines, DropLists, DropTimes

(* A part of a list that keeps its order is such a list. *)
LEMMA PartTimes ==
    ASSUME NEW n \in Int, NEW s \in Timelines(n), NEW T
    PROVE  Within(s, T) \in Timelines(n)
<1>1. s \in Seq(Sample) /\ Sorted(s, Earlier) /\ \A x \in ToSet(s) : x.ts <= n
  BY DEF Timelines
<1>2. Within(s, T) \in Seq(Sample) /\ ToSet(Within(s, T)) \subseteq ToSet(s)
  BY <1>1, WithinFacts
<1>3. Sorted(Within(s, T), Earlier)
  BY <1>1, SortedWithin
<1>4. QED  BY <1>1, <1>2, <1>3 DEF Timelines

LEMMA FrontAndLast ==
    ASSUME NEW V, NEW s \in Seq(V), s # <<>>
    PROVE  Front(s) \in Seq(V) /\ Last(s) \in V /\ s = Front(s) \o <<Last(s)>>
<1> DEFINE n == Len(s)
<1>1. n \in Nat /\ n >= 1 /\ n - 1 \in 0 .. n
  OBVIOUS
<1>2. PICK p \in Seq(V) : \E q \in Seq(V) : s = p \o q /\ Len(p) = n - 1
  BY <1>1, SplitAt
<1>3. PICK q \in Seq(V) : s = p \o q /\ Len(p) = n - 1
  BY <1>2
<1>4. SubSeq(p \o q, 1, Len(p)) = p
  BY ConcatParts
<1>5. Front(s) = p
  BY <1>3, <1>4 DEF Front
<1>6. Len(q) = 1
  <2>1. Len(p \o q) = Len(p) + Len(q) /\ Len(q) \in Nat
    OBVIOUS
  <2>2. n = (n - 1) + Len(q)
    BY <1>3, <2>1
  <2>3. \A a, b \in Nat : a = (a - 1) + b => b = 1
    OBVIOUS
  <2>4. QED  BY <1>1, <2>1, <2>2, <2>3, Zenon
<1>7. Last(s) = q[1] /\ q[1] \in V
  BY <1>1, <1>3, <1>6 DEF Last
<1>8. q = <<q[1]>>
  BY <1>6
<1>9. QED  BY <1>3, <1>5, <1>7, <1>8

LEMMA FrontTimes ==
    ASSUME NEW n \in Int, NEW s \in Timelines(n), s # <<>>
    PROVE  Front(s) \in Timelines(n)
<1>1. s \in Seq(Sample) /\ Sorted(s, Earlier) /\ \A x \in ToSet(s) : x.ts <= n
  BY DEF Timelines
<1> DEFINE p == Front(s)
           q == <<Last(s)>>
<1>2. p \in Seq(Sample) /\ q \in Seq(Sample) /\ s = p \o q
  <2>1. Front(s) \in Seq(Sample) /\ Last(s) \in Sample /\ s = Front(s) \o <<Last(s)>>
    BY <1>1, FrontAndLast
  <2>2. QED  BY <2>1
<1> HIDE DEF p, q
<1>3. Sorted(p, Earlier)
  BY <1>1, <1>2, SortedParts
<1>4. ToSet(p) \subseteq ToSet(s)
  BY <1>2, ConcatSet
<1>5. QED  BY <1>1, <1>2, <1>3, <1>4 DEF Timelines, p

(* Any sample is a timeline, and a later one goes behind. *)
LEMMA SampleBehind ==
    ASSUME NEW n \in Int, NEW s \in Timelines(n), NEW x \in Sample, n < x.ts
    PROVE  s \o <<x>> \in Timelines(x.ts)
<1>1. s \in Seq(Sample) /\ Sorted(s, Earlier) /\ \A y \in ToSet(s) : y.ts <= n
  BY DEF Timelines
<1> DEFINE t == <<x>>
<1>2. t \in Seq(Sample) /\ ToSet(t) = {x} /\ Sorted(t, Earlier)
  BY DEF ToSet, Sorted
<1>3. ToSet(s) \subseteq Sample
  BY <1>1 DEF ToSet
<1>4. \A y \in Sample : y.ts \in Nat
  BY DEF Sample
<1> HIDE DEF t
<1>5. \A y \in ToSet(s) : \A z \in ToSet(t) : <<y, z>> \in Earlier
  <2>1. SUFFICES ASSUME NEW y \in ToSet(s) PROVE <<y, x>> \in Earlier
    BY <1>2
  <2>2. y \in Sample /\ y.ts <= n /\ y.ts \in Nat /\ x.ts \in Nat
    BY <1>1, <1>3, <1>4
  <2>3. y.ts < x.ts
    BY <2>2
  <2>4. QED  BY <2>2, <2>3 DEF Earlier
<1>6. Sorted(s \o t, Earlier)
  BY <1>1, <1>2, <1>5, SortedConcat
<1>7. s \o t \in Seq(Sample) /\ ToSet(s \o t) = ToSet(s) \cup {x}
  BY <1>1, <1>2, ConcatSet
<1>8. \A y \in ToSet(s \o t) : y.ts <= x.ts
  BY <1>1, <1>3, <1>4, <1>7
<1>9. QED  BY <1>6, <1>7, <1>8 DEF Timelines, t

(* _keep leaves the samples in order, with the new one last. *)
LEMMA SampleAdded ==
    ASSUME NEW n \in Int, NEW s \in Timelines(n), now \in Nat, n < now,
           NEW v \in 0 .. MaxTrouble + 1
    PROVE  /\ WithSample(s, v) \in Timelines(now) /\ WithSample(s, v) # <<>>
           /\ Last(WithSample(s, v)) = [ts |-> now, v |-> v]
<1> DEFINE x == [ts |-> now, v |-> v]
           older == IF Provisional(s, v) THEN Front(s) ELSE s
           all == Append(older, x)
           T == {y \in ToSet(all) : now - y.ts <= Day + KeepFor}
<1>1. WithSample(s, v) = Within(all, T)
  BY DEF WithSample
<1>2. x \in Sample /\ x.ts = now
  BY DEF Sample
<1>3. older \in Timelines(n)
  <2>1. Provisional(s, v) => s # <<>>
    BY DEF Provisional
  <2>2. QED  BY <2>1, FrontTimes
<1> HIDE DEF older, x
<1>4. older \in Seq(Sample)
  BY <1>3 DEF Timelines
<1> DEFINE t == <<x>>
<1>5. t \in Seq(Sample) /\ ToSet(t) = {x}
  BY <1>2 DEF ToSet
<1>6. all = older \o t
  BY <1>2, <1>4, AppendedIs
<1>7. x \in T
  <2>1. x \in ToSet(all)
    BY <1>2, <1>4, AppendedSet
  <2>2. now - x.ts <= Day + KeepFor
    BY <1>2, HistoryConstants
  <2>3. QED  BY <2>1, <2>2
<1> HIDE DEF all, T, t
<1>8. Within(t, T) = t
  BY <1>5, <1>7, WithinSame
<1>9. Within(older \o t, T) = Within(older, T) \o Within(t, T)
  BY <1>4, <1>5, WithinConcat
<1> DEFINE w == Within(older, T)
<1>10. w \in Timelines(n)
  BY <1>3, PartTimes
<1> HIDE DEF w
<1>11. WithSample(s, v) = w \o <<x>>
  BY <1>1, <1>6, <1>8, <1>9 DEF w, t
<1>12. w \o <<x>> \in Timelines(now)
  BY <1>2, <1>10, SampleBehind
<1>13. w \in Seq(Sample)
  BY <1>10 DEF Timelines
<1>14. w \o <<x>> # <<>> /\ Last(w \o <<x>>) = x
  BY <1>2, <1>13 DEF Last
<1>15. QED  BY <1>11, <1>12, <1>14 DEF x

(* Youngest keeps the order, and drops what is old or has enough behind it. *)
LEMMA YoungestKeeps ==
    ASSUME NEW n \in Int, NEW s \in DropTimes(n)
    PROVE  /\ Youngest(s) \in DropLists(n)
           /\ \A t \in ToSet(Youngest(s)) : t \in ToSet(s) /\ now - t < Hour
           /\ \A t \in ToSet(s) :
                now - t < Hour /\ t \notin ToSet(Youngest(s)) =>
                    /\ Len(Youngest(s)) = DropsMax
                    /\ \A d \in ToSet(Youngest(s)) : t <= d
           /\ (\A t \in ToSet(s) : now - t < Hour) /\ Len(s) >= DropsMax =>
                Len(Youngest(s)) = DropsMax
<1> DEFINE Y == {t \in ToSet(s) : now - t < Hour}
           w == Within(s, Y)
           m == Len(w)
           k == Max({1, m - DropsMax + 1})
<1>1. Youngest(s) = SubSeq(w, k, m)
  BY DEF Youngest
<1>2. s \in Seq(Nat) /\ Sorted(s, NotLater) /\ \A t \in ToSet(s) : t <= n
  BY DEF DropTimes
<1>3. w \in Seq(Nat) /\ Sorted(w, NotLater) /\ ToSet(w) = Y
  <2>1. ToSet(w) = ToSet(s) \cap Y
    BY <1>2, WithinFacts
  <2>2. QED  BY <1>2, <2>1, WithinFacts, SortedWithin
<1>4. Y = ToSet(s) => w = s
  BY <1>2, WithinSame
<1>5. Y \subseteq ToSet(s) /\ \A t \in ToSet(s) : t \in Y <=> now - t < Hour
  OBVIOUS
<1>6. (\A t \in ToSet(s) : now - t < Hour) => Y = ToSet(s)
  OBVIOUS
<1> HIDE DEF Y, w
<1>7. m \in Nat /\ DropsMax \in Nat
  BY <1>3, HistoryConstants
<1>8. k \in {1, m - DropsMax + 1} /\ k >= 1 /\ k >= m - DropsMax + 1
  <2> DEFINE b == m - DropsMax + 1
  <2>1. b \in Int /\ 1 \in Int
    BY <1>7
  <2> HIDE DEF b
  <2>2. Max({1, b}) \in {1, b} /\ Max({1, b}) >= 1 /\ Max({1, b}) >= b
    BY <2>1, MaxOfTwo
  <2>3. QED  BY <2>2 DEF b
<1> HIDE DEF m, k
<1>9. k - 1 \in 0 .. m
  BY <1>7, <1>8
<1>10. PICK p \in Seq(Nat) : \E q \in Seq(Nat) : w = p \o q /\ Len(p) = k - 1
  BY <1>3, <1>9, SplitAt DEF m
<1>11. PICK q \in Seq(Nat) : w = p \o q /\ Len(p) = k - 1
  BY <1>10
<1>12. SubSeq(p \o q, Len(p) + 1, Len(p \o q)) = q /\ Len(p \o q) = Len(p) + Len(q)
  BY ConcatParts
<1>13. Len(p) + 1 = k
  BY <1>7, <1>8, <1>11
<1>14. Youngest(s) = q
  BY <1>1, <1>11, <1>12, <1>13 DEF m
<1>15. Len(q) = m - (k - 1) /\ Len(q) \in Nat
  BY <1>7, <1>8, <1>11, <1>12 DEF m
<1>16. Len(q) <= DropsMax /\ (m >= DropsMax => Len(q) = DropsMax)
  BY <1>7, <1>8, <1>15
<1>17. /\ Sorted(q, NotLater)
       /\ \A x \in ToSet(p) : \A y \in ToSet(q) : <<x, y>> \in NotLater
  BY <1>3, <1>11, SortedParts
<1>18. ToSet(w) = ToSet(p) \cup ToSet(q)
  BY <1>11, ConcatSet
<1>19. q \in DropLists(n)
  BY <1>2, <1>3, <1>5, <1>16, <1>17, <1>18 DEF DropLists, DropTimes
<1>20. \A t \in ToSet(q) : t \in ToSet(s) /\ now - t < Hour
  BY <1>3, <1>5, <1>18
<1>21. ASSUME NEW t \in ToSet(s), now - t < Hour, t \notin ToSet(q)
       PROVE  Len(q) = DropsMax /\ \A d \in ToSet(q) : t <= d
  <2>1. t \in ToSet(p)
    BY <1>3, <1>5, <1>18, <1>21
  <2>2. \A d \in ToSet(q) : t <= d
    BY <1>17, <2>1 DEF NotLater
  <2>3. Len(p) # 0
    BY <2>1 DEF ToSet
  <2>4. k # 1
    BY <1>11, <2>3
  <2>5. m >= DropsMax
    BY <1>7, <1>8, <1>9, <2>4
  <2>6. QED  BY <1>16, <2>2, <2>5
<1>22. ASSUME \A t \in ToSet(s) : now - t < Hour, Len(s) >= DropsMax
       PROVE  Len(q) = DropsMax
  BY <1>4, <1>6, <1>16, <1>22 DEF m
<1>23. QED  BY <1>14, <1>19, <1>20, <1>21, <1>22

(* The drops before a tick, with those that it sees. *)
Noted == drops \o [i \in 1 .. Min({NewDrops, DropsMax}) |-> now]

LEMMA NotedTimes ==
    ASSUME HistoryTypes
    PROVE  /\ NewDrops \in Nat /\ Noted \in DropTimes(now) /\ Len(Noted) >= Len(drops)
           /\ ToSet(drops) \subseteq ToSet(Noted)
           /\ ToSet(Noted) \subseteq ToSet(drops) \cup {now}
           /\ now \in ToSet(Noted) => now \in ToSet(drops) \/ NewDrops > 0
           /\ NewDrops = 0 => Noted = drops
<1>1. now \in Nat /\ counter \in Nat /\ ticked \in Int /\ ticked <= now
  BY HistoryConstants DEF HistoryTypes
<1>2. NewDrops \in Nat
  <2>1. last # None => last.v \in Nat /\ last.ts \in Nat
    BY HistoryConstants DEF HistoryTypes, Sample
  <2>2. QED  BY <1>1, <2>1 DEF NewDrops, Rise
<1> DEFINE k == Min({NewDrops, DropsMax})
           q == [i \in 1 .. k |-> now]
<1>3. k \in Nat /\ k <= NewDrops
  <2>1. DropsMax \in Nat
    BY HistoryConstants
  <2>2. k \in {NewDrops, DropsMax} /\ k <= NewDrops
    BY <1>2, <2>1, MinOfTwo
  <2>3. QED  BY <1>2, <2>1, <2>2
<1>4. drops \in DropTimes(now)
  BY <1>1, EarlierTimes DEF HistoryTypes, DropLists
<1>5. drops \in Seq(Nat) /\ Sorted(drops, NotLater) /\ \A t \in ToSet(drops) : t <= now
  BY <1>4 DEF DropTimes
<1> HIDE DEF k
<1>6. q \in Seq(Nat) /\ ToSet(q) \subseteq {now} /\ Sorted(q, NotLater) /\ Len(q) = k
  <2>1. q \in Seq(Nat) /\ Len(q) = k /\ DOMAIN q = 1 .. k
    BY <1>1, <1>3
  <2>2. \A i \in 1 .. k : q[i] = now
    OBVIOUS
  <2> HIDE DEF q
  <2>3. Sorted(q, NotLater)
    <3>1. <<now, now>> \in NotLater
      BY <1>1 DEF NotLater
    <3>2. \A i \in 1 .. k : \A j \in i + 1 .. k : q[i] = now /\ q[j] = now
      BY <1>3, <2>2
    <3>3. QED  BY <2>1, <3>1, <3>2 DEF Sorted
  <2>4. ToSet(q) \subseteq {now}
    BY <2>1, <2>2 DEF ToSet
  <2>5. QED  BY <2>1, <2>3, <2>4
<1>7. k = 0 => q = <<>> /\ ToSet(q) = {}
  BY DEF ToSet
<1>8. Noted = drops \o q
  BY DEF Noted, k
<1> HIDE DEF q
<1>9. Sorted(drops \o q, NotLater)
  <2>1. \A x \in ToSet(drops) : \A y \in ToSet(q) : <<x, y>> \in NotLater
    <3>1. ToSet(drops) \subseteq Nat
      BY <1>5 DEF ToSet
    <3>2. QED  BY <1>1, <1>5, <1>6, <3>1 DEF NotLater
  <2>2. QED  BY <1>5, <1>6, <2>1, SortedConcat
<1>10. drops \o q \in Seq(Nat) /\ Len(drops \o q) = Len(drops) + k
  BY <1>5, <1>6
<1>11. ToSet(drops \o q) = ToSet(drops) \cup ToSet(q)
  BY <1>5, <1>6, ConcatSet
<1>12. Noted \in DropTimes(now)
  BY <1>1, <1>5, <1>6, <1>8, <1>9, <1>10, <1>11 DEF DropTimes
<1>13. Len(drops) \in Nat
  BY <1>5
<1>14. k = 0 => drops \o q = drops
  BY <1>5, <1>7
<1>15. NewDrops = 0 => k = 0
  BY <1>3
<1>16. QED
  BY <1>2, <1>3, <1>6, <1>7, <1>8, <1>10, <1>11, <1>12, <1>13, <1>14, <1>15

(* _delta is a number of rises, or None. *)
LEMMA SumIsNat ==
    ASSUME NEW s \in Seq(Sample)
    PROVE  SumOfRises(s) \in Nat
<1> DEFINE W == Sample \X Sample
           m == IF s = <<>> THEN 0 ELSE Len(s) - 1
           pairs == [i \in 1 .. Len(s) - 1 |-> <<s[i], s[i + 1]>>]
<1>1. m \in Nat /\ 1 .. Len(s) - 1 = 1 .. m
  OBVIOUS
<1>2. ASSUME NEW i \in 1 .. m PROVE s[i] \in Sample /\ s[i + 1] \in Sample
  BY <1>2
<1>3. pairs \in Seq(W) /\ Len(pairs) = m
  <2>1. pairs = [i \in 1 .. m |-> <<s[i], s[i + 1]>>]
    BY <1>1, Zenon
  <2>2. \A i \in 1 .. m : <<s[i], s[i + 1]>> \in W
    BY <1>2
  <2> HIDE DEF m, W
  <2>3. [i \in 1 .. m |-> <<s[i], s[i + 1]>>] \in [1 .. m -> W]
    BY <2>2
  <2>4. \A f \in [1 .. m -> W] : f \in Seq(W) /\ Len(f) = m
    BY <1>1
  <2>5. QED  BY <2>1, <2>3, <2>4, Zenon
<1>4. SumOfRises(s) = RiseLoop!Loop(0, pairs)
  BY Zenon DEF SumOfRises, FoldLeft, RiseLoop!Loop, RiseLoop!FoldLeft, MapThenFoldSet,
               RiseLoop!MapThenFoldSet, Max, RiseLoop!Max, pairs
<1> HIDE DEF pairs, m
<1> DEFINE I == [i \in 0 .. m |-> Nat]
<1>5. \A i \in 0 .. m : I[i] = Nat
  OBVIOUS
<1> HIDE DEF I
<1>6. ASSUME NEW n \in Nat, NEW p \in W PROVE AddRise(n, p) \in Nat
  <2>1. p[1].v \in Nat /\ p[2].v \in Nat
    BY HistoryConstants DEF Sample
  <2>2. QED  BY <2>1 DEF AddRise, Rise
<1>7. \A i \in 1 .. m : i - 1 \in 0 .. m /\ i \in 0 .. m /\ pairs[i] \in W
  BY <1>1, <1>3
<1>8. 0 \in I[0] /\ \A i \in 1 .. m : \A v \in I[i - 1] : AddRise(v, pairs[i]) \in I[i]
  BY <1>1, <1>5, <1>6, <1>7
<1> HIDE DEF W
<1>9. RiseLoop!Loop(0, pairs) \in I[Len(pairs)]
  BY <1>3, <1>8, RiseLoop!LoopKeeps
<1>10. QED  BY <1>1, <1>3, <1>4, <1>5, <1>9

LEMMA DeltaIsNat ==
    ASSUME NEW s \in Seq(Sample)
    PROVE  Delta(s) \in Nat \cup {None}
<1> DEFINE T == {x \in ToSet(s) : now - x.ts <= Day}
<1>1. Within(s, T) \in Seq(Sample)
  BY WithinFacts
<1>2. SumOfRises(Within(s, T)) \in Nat
  BY <1>1, SumIsNat
<1>3. QED  BY <1>2 DEF Delta
LEMMA TypesInit ==
    ASSUME HistoryInit
    PROVE  HistoryTypes
<1>1. <<>> \in Timelines(-1) /\ <<>> \in DropLists(-1)
  BY EmptyLists
<1>2. file.series = <<>> /\ file.drops = <<>>
  BY DEF HistoryInit, EmptyFile
<1>3. QED  BY <1>1, <1>2, HistoryConstants DEF HistoryInit, HistoryTypes

(* A step that leaves the process alone, and adds neither drops nor samples. *)
LEMMA TypesOutside ==
    ASSUME HistoryTypes, now' \in now .. MaxTime, trouble' \in trouble .. MaxTrouble,
           counter' \in 0 .. trouble' + 1, failures' \subseteq 0 .. now',
           UNCHANGED <<memoryVars, file, record, logVars>>
    PROVE  HistoryTypes'
<1>1. /\ ticked' = ticked /\ series' = series /\ drops' = drops /\ file' = file /\ last' = last
      /\ seen' = seen /\ told' = told /\ record' = record /\ running' = running
  BY DEF memoryVars, logVars
<1>2. now \in Nat /\ trouble \in Nat /\ ticked \in -1 .. now
  BY HistoryConstants DEF HistoryTypes
<1>3. ticked' \in -1 .. now' /\ now' \in 0 .. MaxTime /\ trouble' \in 0 .. MaxTrouble
  BY <1>1, <1>2, HistoryConstants
<1>4. QED  BY <1>1, <1>3 DEF HistoryTypes, Timelines, DropLists, DropTimes

LEMMA TypesElapse ==
    ASSUME HistoryTypes, Elapse
    PROVE  HistoryTypes'
<1>1. now \in Nat /\ trouble \in 0 .. MaxTrouble /\ counter \in 0 .. trouble + 1
  BY HistoryConstants DEF HistoryTypes
<1>2. now' \in now .. MaxTime /\ trouble' = trouble /\ counter' = counter
  BY <1>1, HistoryConstants DEF Elapse
<1>3. failures' \subseteq 0 .. now'
  <2>1. failures' \subseteq failures /\ now' = now + 1
    BY DEF Elapse
  <2>2. failures \subseteq 0 .. now
    BY DEF HistoryTypes
  <2>3. QED  BY <1>1, <2>1, <2>2
<1>4. trouble' \in trouble .. MaxTrouble
  BY <1>1, <1>2
<1>5. QED  BY <1>1, <1>2, <1>3, <1>4, TypesOutside DEF Elapse

LEMMA TypesLinkFails ==
    ASSUME HistoryTypes, LinkFails \/ BondReset
    PROVE  HistoryTypes'
<1>1. now \in 0 .. MaxTime /\ trouble \in 0 .. MaxTrouble /\ counter \in 0 .. trouble + 1
  BY DEF HistoryTypes
<1>2. /\ now' = now /\ trouble' = trouble + 1 /\ trouble < MaxTrouble
      /\ counter' \in {0, counter + 1} /\ failures' \subseteq failures \cup {now}
  BY DEF LinkFails, BondReset, Trouble
<1>3. failures' \subseteq 0 .. now'
  BY <1>1, <1>2 DEF HistoryTypes
<1>4. /\ now' \in now .. MaxTime /\ trouble' \in trouble .. MaxTrouble
      /\ counter' \in 0 .. trouble' + 1
  BY <1>1, <1>2, HistoryConstants
<1>5. UNCHANGED <<memoryVars, file, record, logVars>>
  BY DEF LinkFails, BondReset
<1>6. QED  BY <1>3, <1>4, <1>5, TypesOutside

LEMMA TypesCrash ==
    ASSUME HistoryTypes, Crash
    PROVE  HistoryTypes'
<1>1. /\ trouble' = trouble + 1 /\ trouble < MaxTrouble /\ counter' \in {0, 1, counter}
      /\ running' = FALSE /\ series' = <<>> /\ drops' = <<>> /\ last' = None
      /\ ticked' = ticked /\ now' = now /\ file' = file /\ record' = record /\ seen' = seen
      /\ told' = told /\ failures' = failures
  BY DEF Crash, Trouble, logVars
<1>2. ticked \in Int /\ trouble \in 0 .. MaxTrouble /\ counter \in 0 .. trouble + 1
  BY DEF HistoryTypes
<1>3. <<>> \in Timelines(ticked) /\ <<>> \in DropLists(ticked)
  BY <1>2, EmptyLists
<1>4. trouble' \in 0 .. MaxTrouble /\ counter' \in 0 .. trouble' + 1
  BY <1>1, <1>2, HistoryConstants
<1> HIDE DEF Timelines, DropLists
<1>5. Timelines(ticked)' = Timelines(ticked) /\ DropLists(ticked)' = DropLists(ticked)
  BY <1>1 DEF Timelines, DropLists, DropTimes
<1>6. QED  BY <1>1, <1>3, <1>4, <1>5 DEF HistoryTypes

LEMMA TypesStart ==
    ASSUME HistoryTypes, Start
    PROVE  HistoryTypes'
<1>1. /\ running' = TRUE /\ series' = file.series /\ drops' = file.drops
      /\ last' = last /\ counter' = counter /\ trouble' = trouble
      /\ ticked' = ticked /\ now' = now /\ file' = file /\ record' = record /\ seen' = seen
      /\ told' = told /\ failures' = failures
  BY DEF Start, logVars, kernelVars
<1>2. QED  BY <1>1 DEF HistoryTypes, Timelines, DropLists, DropTimes

(* What a tick makes of the samples and of the drops. *)
LEMMA TickFacts ==
    ASSUME HistoryTypes, Tick
    PROVE  /\ running /\ now \in Nat /\ ticked < now /\ ticked' = now /\ now' = now
           /\ series' = WithSample(series, counter) /\ drops' = Youngest(Noted)
           /\ series' \in Timelines(now) /\ drops' \in DropLists(now)
           /\ Last(series') = [ts |-> now, v |-> counter] /\ series' # <<>>
           /\ counter \in 0 .. MaxTrouble + 1 /\ counter' = counter /\ trouble' = trouble
           /\ last' = [ts |-> now, v |-> counter] /\ seen' = last' /\ last' \in Sample
           /\ \/ file' = [series |-> series', drops |-> drops']
              \/ /\ file' = file /\ NewDrops = 0 /\ drops' = drops
                 /\ Provisional(series, counter)
           /\ \/ record' = record
              \/ /\ record' = [lfc |-> counter, delta |-> Delta(series'), drops |-> drops',
                               ts |-> now]
                 /\ Delta(series') \in Nat \cup {None}
           /\ failures' = failures /\ running' = running /\ resetAt' = resetAt
           /\ told' = {t \in told : now - t < Hour} \cup ToSet(drops')
           /\ rises' = Logged(counter)
<1>1. /\ running /\ ticked < now /\ ticked' = now /\ now' = now
      /\ series' = WithSample(series, counter) /\ drops' = Youngest(Noted)
      /\ counter' = counter /\ trouble' = trouble
      /\ last' = [ts |-> now, v |-> counter] /\ seen' = last'
      /\ \/ file' = [series |-> series', drops |-> drops']
         \/ /\ file' = file /\ ~(NewDrops > 0) /\ Youngest(Noted) = Noted
            /\ Provisional(series, counter)
      /\ \/ record' = record
         \/ record' = [lfc |-> counter, delta |-> Delta(series'), drops |-> drops',
                       ts |-> now]
      /\ failures' = failures /\ running' = running /\ resetAt' = resetAt
      /\ told' = {t \in told : now - t < Hour} \cup ToSet(drops')
      /\ rises' = Logged(counter)
  BY Zenon DEF Tick, Noted, kernelVars
<1>2. /\ now \in Nat /\ ticked \in Int /\ series \in Timelines(ticked)
      /\ counter \in 0 .. MaxTrouble + 1
  BY HistoryConstants DEF HistoryTypes
<1>3. series' \in Timelines(now) /\ series' # <<>> /\ Last(series') = [ts |-> now, v |-> counter]
  BY <1>1, <1>2, SampleAdded
<1>4. Noted \in DropTimes(now) /\ NewDrops \in Nat /\ (NewDrops = 0 => Noted = drops)
  BY NotedTimes
<1>5. drops' \in DropLists(now)
  BY <1>1, <1>2, <1>4, YoungestKeeps
<1>6. Delta(series') \in Nat \cup {None}
  BY <1>3, DeltaIsNat DEF Timelines
<1>7. last' \in Sample
  BY <1>1, <1>2 DEF Sample
<1>8. ~(NewDrops > 0) => NewDrops = 0
  BY <1>4
<1>9. QED
  BY <1>1, <1>2, <1>3, <1>4, <1>5, <1>6, <1>7, <1>8, Zenon

LEMMA TypesTick ==
    ASSUME HistoryTypes, Tick
    PROVE  HistoryTypes'
<1>1. now \in Nat /\ ticked \in Int /\ ticked <= now /\ ticked' = now /\ now' = now
  BY TickFacts DEF HistoryTypes
<1>2. Timelines(ticked)' = Timelines(now) /\ DropLists(ticked)' = DropLists(now)
  BY <1>1 DEF Timelines, DropLists, DropTimes
<1>3. series' \in Timelines(now) /\ drops' \in DropLists(now)
  BY TickFacts
<1>4. Timelines(ticked) \subseteq Timelines(now) /\ DropLists(ticked) \subseteq DropLists(now)
  BY <1>1, EarlierTimes
<1>5. file'.series \in Timelines(now) /\ file'.drops \in DropLists(now)
  <2>1. file.series \in Timelines(now) /\ file.drops \in DropLists(now)
    BY <1>4 DEF HistoryTypes
  <2>2. QED  BY <1>3, <2>1, TickFacts
<1>6. /\ now' \in 0 .. MaxTime /\ trouble' \in 0 .. MaxTrouble
      /\ counter' \in 0 .. trouble' + 1 /\ running' \in BOOLEAN
      /\ ticked' \in -1 .. now'
  BY <1>1, TickFacts DEF HistoryTypes
<1>7. last' \in Sample /\ last'.ts <= ticked' /\ seen' = last'
  BY <1>1, TickFacts
<1>8. told' \subseteq 0 .. ticked' /\ failures' \subseteq 0 .. now'
  <2>1. ToSet(drops') \subseteq 0 .. now
    BY <1>3 DEF DropLists, DropTimes, ToSet
  <2>2. told \subseteq 0 .. now
    BY <1>1 DEF HistoryTypes
  <2>3. QED  BY <1>1, <2>1, <2>2, TickFacts DEF HistoryTypes
<1>9. record' # None =>
          record' \in [lfc : Nat, delta : Nat \cup {None}, drops : DropLists(now),
                       ts : 0 .. ticked']
  <2>1. CASE record' = record
    <3>1. 0 .. ticked \subseteq 0 .. ticked'
      BY <1>1
    <3>2. QED  BY <1>4, <2>1, <3>1 DEF HistoryTypes
  <2>2. CASE /\ record' = [lfc |-> counter, delta |-> Delta(series'), drops |-> drops',
                           ts |-> now]
             /\ Delta(series') \in Nat \cup {None}
    <3>1. counter \in Nat /\ now \in 0 .. ticked'
      BY <1>1, TickFacts, HistoryConstants
    <3>2. QED  BY <1>3, <2>2, <3>1
  <2>3. QED  BY <2>1, <2>2, TickFacts
<1>10. QED  BY <1>2, <1>3, <1>5, <1>6, <1>7, <1>8, <1>9 DEF HistoryTypes

LEMMA TypesStep ==
    ASSUME HistoryTypes, HistoryStep
    PROVE  HistoryTypes'
<1>1. CASE UNCHANGED historyVars
  BY <1>1 DEF historyVars, kernelVars, memoryVars, logVars, HistoryTypes, Timelines,
              DropLists, DropTimes
<1>2. CASE HistoryNext
  BY <1>2, TypesElapse, TypesLinkFails, TypesCrash, TypesStart, TypesTick DEF HistoryNext
<1>3. QED  BY <1>1, <1>2 DEF HistoryStep
(* Record, reading and acknowledgement are of times that have been. *)
PanelTypes ==
    /\ reading # None => reading.lfc \in Nat /\ reading.ts \in 0 .. now
    /\ ack # None => ack.lfc \in Nat /\ ack.ts \in 0 .. now /\ ack.seen \in 0 .. ack.ts
    /\ column \in {"nofeed", "stale", "yellow", "calm"}

NetTypes == HistoryTypes /\ PanelTypes

LEMMA NetTypesInit == Init => NetTypes
BY TypesInit DEF Init, NetTypes, PanelTypes

LEMMA TimePasses ==
    ASSUME HistoryTypes, HistoryStep
    PROVE  now \in Nat /\ now' \in Nat /\ now <= now'
<1>1. now' = now \/ now' = now + 1
  BY DEF HistoryStep, HistoryNext, Elapse, LinkFails, BondReset, Tick, Crash, Start,
         kernelVars, historyVars
<1>2. QED  BY <1>1, HistoryConstants DEF HistoryTypes

LEMMA PanelTypesStep ==
    ASSUME NetTypes, [Next]_vars
    PROVE  PanelTypes'
<1>1. now \in Nat /\ now' \in Nat /\ now <= now'
  BY StepsParts, TimePasses DEF NetTypes
<1>2. CASE UNCHANGED panelVars
  BY <1>1, <1>2 DEF NetTypes, PanelTypes, panelVars
<1>3. CASE AckRead
  <2>1. record.lfc \in Nat /\ record.ts \in 0 .. ticked /\ ticked <= now /\ ticked \in Int
    <3>1. record # None
      BY <1>3 DEF AckRead, LiveRecord
    <3>2. QED  BY <3>1 DEF NetTypes, HistoryTypes
  <2>2. /\ reading' = [lfc |-> record.lfc, ts |-> record.ts] /\ ack' = ack
        /\ column' = column /\ now' = now
    BY <1>3 DEF AckRead, historyVars, kernelVars
  <2>3. QED  BY <1>1, <2>1, <2>2 DEF NetTypes, PanelTypes
<1>4. CASE AckSet
  <2>1. /\ reading' = None /\ ack' = [lfc |-> reading.lfc, ts |-> now, seen |-> reading.ts]
        /\ column' = column /\ now' = now /\ reading # None
    BY <1>4 DEF AckSet, historyVars, kernelVars
  <2>2. QED  BY <1>1, <2>1 DEF NetTypes, PanelTypes
<1>5. CASE Poll
  <2>1. column' \in {"nofeed", "stale", "yellow", "calm"}
    BY <1>5 DEF Poll, Attention
  <2>2. reading' = reading /\ ack' = ack /\ now' = now
    BY <1>5 DEF Poll, historyVars, kernelVars
  <2>3. QED  BY <2>1, <2>2 DEF NetTypes, PanelTypes
<1>6. CASE PanelRestart
  <2>1. column' \in {"nofeed", "stale", "yellow", "calm"}
    BY <1>6 DEF PanelRestart
  <2>2. reading' = reading /\ ack' = ack /\ now' = now
    BY <1>6 DEF PanelRestart, historyVars, kernelVars
  <2>3. QED  BY <2>1, <2>2 DEF NetTypes, PanelTypes
<1>7. QED  BY <1>2, <1>3, <1>4, <1>5, <1>6 DEF Next, vars

LEMMA NetTypesStep == NetTypes /\ [Next]_vars => NetTypes'
BY StepsParts, TypesStep, PanelTypesStep DEF NetTypes

LEMMA NetTypesGive == NetTypes => TypeOK
<1> SUFFICES ASSUME NetTypes PROVE TypeOK
  OBVIOUS
<1>1. HistoryTypes /\ PanelTypes
  BY DEF NetTypes
<1>2. /\ now \in 0 .. MaxTime /\ trouble \in 0 .. MaxTrouble /\ counter \in 0 .. trouble + 1
      /\ ticked \in -1 .. now
  BY <1>1 DEF HistoryTypes
<1>3. counter \in 0 .. MaxTrouble + 1 /\ now \in Nat
  BY <1>2, HistoryConstants
<1>4. ASSUME NEW s \in Timelines(ticked)
      PROVE  /\ \A x \in ToSet(s) : x \in [ts : 0 .. now, v : 0 .. MaxTrouble + 1]
             /\ \A i, j \in DOMAIN s : i < j => s[i].ts < s[j].ts
  <2>1. s \in Seq(Sample) /\ Sorted(s, Earlier) /\ \A x \in ToSet(s) : x.ts <= ticked
    BY DEF Timelines
  <2>2. ToSet(s) \subseteq Sample
    BY <2>1 DEF ToSet
  <2>3. \A x \in Sample : x.ts <= ticked => x \in [ts : 0 .. now, v : 0 .. MaxTrouble + 1]
    BY <1>2 DEF Sample
  <2>4. ASSUME NEW i \in DOMAIN s, NEW j \in DOMAIN s, i < j PROVE s[i].ts < s[j].ts
    <3>1. i \in 1 .. Len(s) /\ j \in i + 1 .. Len(s)
      BY <2>1, <2>4
    <3>2. <<s[i], s[j]>> \in Earlier
      BY <2>1, <3>1 DEF Sorted
    <3>3. QED  BY <3>2 DEF Earlier
  <2>5. QED  BY <2>1, <2>2, <2>3, <2>4
<1>5. \A x \in Sample : x.ts <= ticked => x \in [ts : 0 .. now, v : 0 .. MaxTrouble + 1]
  BY <1>2 DEF Sample
<1>6. /\ \A x \in ToSet(series) \cup ToSet(file.series) :
            x \in [ts : 0 .. now, v : 0 .. MaxTrouble + 1]
      /\ \A s \in {series, file.series} :
            \A i, j \in DOMAIN s : i < j => s[i].ts < s[j].ts
  BY <1>1, <1>4 DEF HistoryTypes
<1>7. \A s \in {last, seen} : s = None \/ s \in [ts : 0 .. now, v : 0 .. MaxTrouble + 1]
  BY <1>1, <1>5 DEF HistoryTypes
<1>8. Len(drops) <= DropsMax /\ ToSet(drops) \subseteq 0 .. now
  <2>1. drops \in DropLists(ticked)
    BY <1>1 DEF HistoryTypes
  <2>2. drops \in Seq(Nat) /\ Len(drops) <= DropsMax /\ \A t \in ToSet(drops) : t <= ticked
    BY <2>1 DEF DropLists, DropTimes
  <2>3. ToSet(drops) \subseteq Nat
    BY <2>2 DEF ToSet
  <2>4. QED  BY <1>2, <2>2, <2>3
<1>9. told \subseteq 0 .. now
  <2>1. told \subseteq 0 .. ticked
    BY <1>1 DEF HistoryTypes
  <2>2. QED  BY <1>2, <2>1
<1>10. HistoryTypeOK
  BY <1>1, <1>2, <1>3, <1>6, <1>7, <1>8, <1>9 DEF HistoryTypeOK, HistoryTypes
<1>11. QED  BY <1>1, <1>2, <1>10 DEF TypeOK, PanelTypes

(* Whatever fails, the variables of the collector and of the column keep    *)
(* their types: samples in the order of their times, no more drops than     *)
(* DropsMax, and nothing from the future (_keep, observe and ack_net).      *)
THEOREM NetTypeCorrect == Spec => []TypeOK
<1>1. Spec => []NetTypes
  BY NetTypesInit, NetTypesStep, PTL DEF Spec
<1>2. QED  BY <1>1, NetTypesGive, PTL
-----------------------------------------------------------------------------
(* Drops.                                                                  *)

(* A link has failed in the hour before t. *)
Caused(t) == \E f \in failures : t - Hour <= f /\ f <= t

(* So for every young drop that is remembered; and when the counter has     *)
(* risen since the last tick, a link has failed since.                      *)
DropsCaused ==
    /\ \A t \in ToSet(drops) \cup ToSet(file.drops) : now - t < Hour => Caused(t)
    /\ last # None /\ now - last.ts <= Hour /\ Rise(last.v, counter) > 0 =>
          \E f \in failures : last.ts <= f

(* The file holds the drops of the process, and of those that were told the *)
(* young ones, or as many younger as it may hold.                           *)
DropsSaved ==
    /\ running => drops = file.drops
    /\ ~running => last = None
    /\ \A t \in told : now - t < Hour /\ t \notin ToSet(file.drops) =>
          Len(file.drops) = DropsMax /\ \A d \in ToSet(file.drops) : t <= d

DropsInv == DropsCaused /\ DropsSaved /\ DropsTell

LEMMA DropTypes ==
    ASSUME HistoryTypes
    PROVE  /\ now \in Nat /\ Hour \in Nat /\ DropsMax \in Nat
           /\ ToSet(drops) \subseteq Nat /\ ToSet(file.drops) \subseteq Nat
           /\ told \subseteq Nat /\ failures \subseteq 0 .. now
           /\ record # None => ToSet(record.drops) \subseteq Nat /\ record.ts \in 0 .. ticked
           /\ ticked \in Int /\ ticked <= now
           /\ \A t \in ToSet(drops) : t <= now
           /\ last # None => last.ts \in Nat /\ last.v \in Nat
           /\ counter \in Nat
<1>1. \A s \in DropLists(ticked) : ToSet(s) \subseteq Nat /\ \A t \in ToSet(s) : t <= ticked
  BY DEF DropLists, DropTimes, ToSet
<1>2. now \in Nat /\ Hour \in Nat /\ DropsMax \in Nat /\ ticked \in Int /\ ticked <= now
  BY HistoryConstants DEF HistoryTypes
<1>3. \A t \in ToSet(drops) : t \in Nat /\ t <= ticked
  BY <1>1 DEF HistoryTypes
<1>4. \A t \in ToSet(drops) : t <= now
  BY <1>2, <1>3
<1>5. last # None => last.ts \in Nat /\ last.v \in Nat
  BY HistoryConstants DEF HistoryTypes, Sample
<1>6. counter \in Nat
  BY DEF HistoryTypes
<1>7. told \subseteq Nat
  BY DEF HistoryTypes
<1>8. QED  BY <1>1, <1>2, <1>3, <1>4, <1>5, <1>6, <1>7 DEF HistoryTypes

LEMMA YoungBefore ==
    ASSUME NEW m \in Nat, NEW n \in Nat, m <= n, NEW t \in Nat, NEW h \in Nat, n - t < h
    PROVE  m - t < h
OBVIOUS

LEMMA NotForgotten ==
    ASSUME NEW n \in Nat, NEW t \in Nat, NEW h \in Nat, NEW f \in Nat,
           n - t <= h \/ n - t < h, t - h <= f
    PROVE  n - f <= 2 * h
OBVIOUS

(* Young drops stay caused as time passes and failures are forgotten.       *)
LEMMA CausedLonger ==
    ASSUME HistoryTypes, now' \in Nat, now <= now',
           \A f \in failures : now' - f <= 2 * Hour => f \in failures',
           NEW t \in Nat, now' - t < Hour, now - t < Hour => Caused(t)
    PROVE  Caused(t)'
<1>1. now \in Nat /\ Hour \in Nat /\ failures \subseteq 0 .. now
  BY DropTypes
<1>2. now - t < Hour
  BY <1>1, YoungBefore
<1>3. PICK f \in failures : t - Hour <= f /\ f <= t
  BY <1>2 DEF Caused
<1>4. f \in Nat
  BY <1>1
<1>5. now' - f <= 2 * Hour
  BY <1>1, <1>3, <1>4, NotForgotten
<1>6. f \in failures'
  BY <1>5
<1>7. QED  BY <1>3, <1>6 DEF Caused

LEMMA DropsOutside ==
    ASSUME HistoryTypes, DropsInv, Elapse \/ LinkFails \/ BondReset
    PROVE  DropsInv'
<1>1. /\ now' \in {now, now + 1} /\ drops' = drops /\ file' = file /\ last' = last
      /\ running' = running /\ told' = told /\ record' = record
  BY DEF Elapse, LinkFails, BondReset, memoryVars, logVars
<1>2. now \in Nat /\ Hour \in Nat /\ now' \in Nat /\ now <= now'
  BY <1>1, DropTypes
<1>3. \A f \in failures : now' - f <= 2 * Hour => f \in failures'
  BY DEF Elapse, LinkFails, BondReset
<1>4. /\ ToSet(drops) \subseteq Nat /\ ToSet(file.drops) \subseteq Nat /\ told \subseteq Nat
      /\ failures \subseteq 0 .. now
  BY DropTypes
<1>5. ASSUME NEW t \in Nat, now' - t < Hour PROVE now - t < Hour
  BY <1>2, <1>5, YoungBefore
<1>6. ASSUME NEW t \in ToSet(drops) \cup ToSet(file.drops), now' - t < Hour
      PROVE  Caused(t)'
  <2>1. t \in Nat /\ (now - t < Hour => Caused(t))
    BY <1>4 DEF DropsInv, DropsCaused
  <2>2. QED  BY <1>2, <1>3, <1>6, <2>1, CausedLonger
<1>7. ASSUME last # None, now' - last.ts <= Hour, Rise(last.v, counter') > 0
      PROVE  \E f \in failures' : last.ts <= f
  <2>1. last.ts \in Nat /\ last.v \in Nat /\ counter \in Nat
    BY <1>7, DropTypes
  <2>2. CASE LinkFails
    <3>1. now \in failures'
      BY <2>2 DEF LinkFails
    <3>2. last.ts <= ticked /\ ticked \in Int /\ ticked <= now
      BY <1>7, DropTypes DEF HistoryTypes
    <3>3. last.ts <= now
      BY <1>2, <2>1, <3>2
    <3>4. QED  BY <3>1, <3>3
  <2>3. CASE BondReset
    <3>1. counter' = 0
      BY <2>3 DEF BondReset
    <3>2. Rise(last.v, 0) = 0
      BY <2>1 DEF Rise
    <3>3. QED  BY <1>7, <3>1, <3>2
  <2>4. CASE Elapse
    <3>1. counter' = counter /\ now - last.ts <= Hour
      BY <1>2, <1>7, <2>1, <2>4 DEF Elapse
    <3>2. PICK f \in failures : last.ts <= f
      BY <1>7, <3>1 DEF DropsInv, DropsCaused
    <3>3. f \in Nat /\ last.ts - Hour <= f
      BY <1>2, <1>4, <2>1, <3>2
    <3>4. now' - f <= 2 * Hour
      BY <1>2, <1>7, <2>1, <3>3, NotForgotten
    <3>5. QED  BY <1>3, <3>2, <3>4
  <2>5. QED  BY <2>2, <2>3, <2>4
<1>8. DropsCaused'
  BY <1>1, <1>6, <1>7 DEF DropsCaused
<1>9. DropsSaved'
  BY <1>1, <1>4, <1>5 DEF DropsInv, DropsSaved
<1>10. ASSUME record # None, record.ts = now'
       PROVE  now' = now
  <2>1. record.ts \in 0 .. ticked /\ ticked \in Int /\ ticked <= now
    BY <1>10, DropTypes
  <2>2. QED  BY <1>1, <1>2, <1>10, <2>1
<1>11. DropsTell'
  <2>1. SUFFICES ASSUME record # None, record.ts = now' PROVE DropsTell'
    BY <1>1 DEF DropsTell
  <2>2. now' = now /\ record.ts = now
    BY <1>10, <2>1
  <2>3. failures \subseteq failures'
    BY <1>2, <2>2 DEF Elapse, LinkFails, BondReset
  <2>4. QED  BY <1>1, <2>1, <2>2, <2>3 DEF DropsInv, DropsTell
<1>12. QED  BY <1>8, <1>9, <1>11 DEF DropsInv

LEMMA DropsProcess ==
    ASSUME HistoryTypes, DropsInv, Crash \/ Start
    PROVE  DropsInv'
<1>1. /\ now' = now /\ file' = file /\ told' = told /\ record' = record
      /\ failures' = failures
  BY DEF Crash, Start, kernelVars, logVars
<1>2. DropsTell'
  BY <1>1 DEF DropsInv, DropsTell
<1>3. CASE Crash
  <2>1. drops' = <<>> /\ last' = None /\ running' = FALSE
    BY <1>3 DEF Crash
  <2>2. ToSet(<<>>) = {}
    BY DEF ToSet
  <2>3. DropsCaused'
    BY <1>1, <2>1, <2>2 DEF DropsInv, DropsCaused, Caused
  <2>4. DropsSaved'
    BY <1>1, <2>1 DEF DropsInv, DropsSaved
  <2>5. QED  BY <1>2, <2>3, <2>4 DEF DropsInv
<1>4. CASE Start
  <2>1. drops' = file.drops /\ last' = last /\ running' = TRUE /\ ~running /\ counter' = counter
    BY <1>4 DEF Start, kernelVars
  <2>2. last = None
    BY <2>1 DEF DropsInv, DropsSaved
  <2>3. DropsCaused'
    BY <1>1, <2>1, <2>2 DEF DropsInv, DropsCaused, Caused
  <2>4. DropsSaved'
    BY <1>1, <2>1 DEF DropsInv, DropsSaved
  <2>5. QED  BY <1>2, <2>3, <2>4 DEF DropsInv
<1>5. QED  BY <1>3, <1>4
(* A drop that a tick sees has its failure, *)
LEMMA NewDropCaused ==
    ASSUME HistoryTypes, DropsCaused, NewDrops > 0
    PROVE  Caused(now)
<1>1. now \in Nat /\ Hour \in Nat /\ failures \subseteq 0 .. now
  BY DropTypes
<1>2. last # None /\ ~(now - last.ts > Hour) /\ Rise(last.v, counter) > 0
  BY DEF NewDrops
<1>3. last.ts \in Nat
  BY <1>2, DropTypes
<1>4. now - last.ts <= Hour
  BY <1>1, <1>2, <1>3
<1>5. PICK f \in failures : last.ts <= f
  BY <1>2, <1>4 DEF DropsCaused
<1>6. f \in Nat /\ f <= now
  BY <1>1
<1>7. now - Hour <= f
  BY <1>1, <1>3, <1>4, <1>5, <1>6
<1>8. QED  BY <1>6, <1>7 DEF Caused

(* and one that was told before is kept, or has given way to younger ones.  *)
LEMMA ToldKept ==
    ASSUME HistoryTypes, DropsSaved, running, NEW t \in told, now - t < Hour,
           t \notin ToSet(Youngest(Noted))
    PROVE  /\ Len(Youngest(Noted)) = DropsMax
           /\ \A d \in ToSet(Youngest(Noted)) : t <= d
<1> DEFINE y == Youngest(Noted)
<1>1. /\ Noted \in DropTimes(now) /\ Len(Noted) >= Len(drops)
      /\ ToSet(drops) \subseteq ToSet(Noted)
      /\ ToSet(Noted) \subseteq ToSet(drops) \cup {now}
  BY NotedTimes
<1>2. /\ now \in Nat /\ Hour \in Nat /\ DropsMax \in Nat /\ t \in Nat /\ t <= now
      /\ ToSet(drops) \subseteq Nat
  <2>1. ticked \in Int /\ ticked <= now /\ told \subseteq 0 .. ticked /\ now \in Nat
    BY DropTypes DEF HistoryTypes
  <2>2. t \in Nat /\ t <= now
    BY <2>1
  <2>3. QED  BY <2>2, DropTypes
<1>3. /\ \A d \in ToSet(y) : d \in ToSet(Noted)
      /\ \A d \in ToSet(Noted) :
            now - d < Hour /\ d \notin ToSet(y) =>
                Len(y) = DropsMax /\ \A e \in ToSet(y) : d <= e
      /\ (\A d \in ToSet(Noted) : now - d < Hour) /\ Len(Noted) >= DropsMax =>
            Len(y) = DropsMax
  <2>1. now \in Int
    BY <1>2
  <2>2. QED  BY <1>1, <2>1, YoungestKeeps
<1> HIDE DEF y
<1>4. CASE t \in ToSet(drops)
  BY <1>1, <1>3, <1>4 DEF y
<1>5. CASE t \notin ToSet(drops)
  <2>1. Len(drops) = DropsMax /\ \A d \in ToSet(drops) : t <= d
    BY <1>5 DEF DropsSaved
  <2>2. \A d \in ToSet(Noted) : d \in Nat /\ t <= d
    BY <1>1, <1>2, <2>1
  <2>3. \A d \in ToSet(Noted) : now - d < Hour
    BY <1>2, <2>2
  <2>4. Len(y) = DropsMax
    BY <1>1, <1>3, <2>1, <2>3
  <2>5. QED  BY <1>3, <2>2, <2>4 DEF y
<1>6. QED  BY <1>4, <1>5

LEMMA DropsTick ==
    ASSUME HistoryTypes, DropsInv, Tick
    PROVE  DropsInv'
<1>1. /\ running /\ now \in Nat /\ ticked < now /\ now' = now /\ drops' = Youngest(Noted)
      /\ counter \in Nat /\ counter' = counter /\ last' = [ts |-> now, v |-> counter]
      /\ \/ file' = [series |-> series', drops |-> drops']
         \/ file' = file /\ drops' = drops
      /\ \/ record' = record
         \/ record' = [lfc |-> counter, delta |-> Delta(series'), drops |-> drops',
                       ts |-> now]
      /\ failures' = failures /\ running' = running
      /\ told' = {t \in told : now - t < Hour} \cup ToSet(drops')
  BY TickFacts, DropTypes
<1>2. DropsCaused /\ DropsSaved /\ drops = file.drops
  BY <1>1 DEF DropsInv, DropsSaved
<1>3. file'.drops = drops'
  BY <1>1, <1>2
<1>4. ASSUME NEW t \in ToSet(drops') PROVE Caused(t) /\ now - t < Hour
  <2>1. t \in ToSet(Noted) /\ now - t < Hour
    <3>1. Noted \in DropTimes(now) /\ now \in Int
      BY <1>1, NotedTimes
    <3>2. QED  BY <1>1, <1>4, <3>1, YoungestKeeps
  <2>2. CASE t \in ToSet(drops)
    BY <1>2, <2>1, <2>2 DEF DropsCaused
  <2>3. CASE t \notin ToSet(drops)
    <3>1. t = now /\ NewDrops > 0
      BY <2>1, <2>3, NotedTimes
    <3>2. QED  BY <1>2, <2>1, <3>1, NewDropCaused
  <2>4. QED  BY <2>1, <2>2, <2>3
<1>5. \A t : Caused(t)' <=> Caused(t)
  BY <1>1 DEF Caused
<1>6. DropsCaused'
  <2>1. Rise(last'.v, counter') = 0
    BY <1>1 DEF Rise
  <2>2. QED  BY <1>3, <1>4, <1>5, <2>1 DEF DropsCaused
<1>7. ASSUME NEW t \in told', now - t < Hour, t \notin ToSet(drops')
      PROVE  Len(drops') = DropsMax /\ \A d \in ToSet(drops') : t <= d
  <2>1. t \in told
    BY <1>1, <1>7
  <2>2. QED  BY <1>1, <1>2, <1>7, <2>1, ToldKept
<1>8. DropsSaved'
  BY <1>1, <1>3, <1>7 DEF DropsSaved
<1>9. DropsTell'
  <2>1. CASE record' = record
    <3>1. record # None => record.ts \in Int /\ record.ts <= ticked /\ ticked \in Int
      BY DropTypes
    <3>2. record # None => record.ts # now
      BY <1>1, <3>1
    <3>3. QED  BY <1>1, <2>1, <3>2 DEF DropsTell
  <2>2. CASE record' = [lfc |-> counter, delta |-> Delta(series'), drops |-> drops',
                        ts |-> now]
    <3>1. record'.drops = drops'
      BY <2>2
    <3>2. \A t \in ToSet(drops') : \E f \in failures' : t - Hour <= f /\ f <= t
      BY <1>1, <1>4 DEF Caused
    <3>3. \/ {t \in told' : now' - t < Hour} \subseteq ToSet(drops')
          \/ Len(drops') = DropsMax
      BY <1>1, <1>7
    <3>4. QED  BY <3>1, <3>2, <3>3 DEF DropsTell
  <2>3. QED  BY <1>1, <2>1, <2>2
<1>10. QED  BY <1>6, <1>8, <1>9 DEF DropsInv

LEMMA DropsInit ==
    ASSUME HistoryInit
    PROVE  DropsInv
<1>1. ToSet(<<>>) = {}
  BY DEF ToSet
<1>2. /\ drops = <<>> /\ file.drops = <<>> /\ last = None /\ running = TRUE /\ told = {}
      /\ record = None
  BY DEF HistoryInit, EmptyFile
<1>3. QED  BY <1>1, <1>2 DEF DropsInv, DropsCaused, DropsSaved, DropsTell

LEMMA DropsStep ==
    ASSUME HistoryTypes, DropsInv, HistoryStep
    PROVE  DropsInv'
<1>1. CASE UNCHANGED historyVars
  BY <1>1 DEF historyVars, kernelVars, memoryVars, logVars, DropsInv, DropsCaused, Caused,
              DropsSaved, DropsTell
<1>2. CASE HistoryNext
  BY <1>2, DropsOutside, DropsProcess, DropsTick DEF HistoryNext
<1>3. QED  BY <1>1, <1>2 DEF HistoryStep

(* Whenever links fail, bonds are made anew and processes crash, the drops  *)
(* that are published are failures of links, and none that was told in the  *)
(* last hour is missing unless as many younger ones stand in its place      *)
(* (observe and _load).                                                     *)
THEOREM DropsTrue == Spec => []DropsTell
<1>1. Init => NetTypes /\ DropsInv
  BY NetTypesInit, DropsInit DEF Init
<1>2. NetTypes /\ DropsInv /\ [Next]_vars => (NetTypes /\ DropsInv)'
  BY NetTypesStep, StepsParts, DropsStep DEF NetTypes
<1>3. NetTypes /\ DropsInv => DropsTell
  BY DEF DropsInv
<1>4. QED  BY <1>1, <1>2, <1>3, PTL DEF Spec
-----------------------------------------------------------------------------
(* Rises, and what an acknowledgement clears.                              *)

Rises == [from : Nat, to : Nat, n : Nat, watched : BOOLEAN]

(* While a process has seen a tick, its latest sample is the latest of all. *)
SamplesSeen ==
    /\ seen = None => series = <<>> /\ file.series = <<>> /\ record = None
    /\ seen # None => file.series # <<>> /\ (running => series # <<>>)
    /\ last # None => running /\ seen = last /\ Last(series) = last
    /\ rises \subseteq Rises

(* A drop is a rise of the counter. *)
DropsRose ==
    /\ \A t \in ToSet(drops) \cup ToSet(file.drops) : \E r \in rises : r.to = t
    /\ record # None => \A t \in ToSet(record.drops) : \E r \in rises : r.to = t

(* If the counter has not risen since it was base at time t, it is base     *)
(* still, or has been reset and is 0.                                       *)
Quiet(t, base) ==
    /\ t <= ticked /\ seen # None
    /\ (\A r \in rises : r.to <= t) =>
          /\ seen.v \in {base, 0}
          /\ record # None => record.lfc \in {base, 0}

BaselinesQuiet ==
    /\ record # None => Quiet(record.ts, record.lfc)
    /\ reading # None => Quiet(reading.ts, reading.lfc)
    /\ ack # None => Quiet(ack.seen, ack.lfc)

RisesInv == SamplesSeen /\ DropsRose /\ BaselinesQuiet

(* What a tick adds to the log: every rise since the last sample of any     *)
(* process, and nothing else.                                               *)
LEMMA TickLogs ==
    ASSUME HistoryTypes, SamplesSeen, Tick
    PROVE  /\ rises' \subseteq Rises
           /\ \A r \in rises : \E q \in rises' : q.to = r.to
           /\ NewDrops > 0 => \E r \in rises' : r.to = now
           /\ seen # None /\ (\A r \in rises' : r.to # now) => counter \in {seen.v, 0}
<1> DEFINE lost == seen # None /\ Last(series).ts < seen.ts /\ counter < seen.v
           base == IF lost THEN Last(series) ELSE seen
           step == [from |-> base.ts, to |-> now, n |-> Rise(base.v, counter),
                    watched |-> last # None]
           kept(r) == [r EXCEPT !.watched = @ /\ (lost => r.to <= base.ts)]
           old == {kept(r) : r \in rises}
           rose == seen # None /\ Rise(seen.v, counter) # 0
<1>1. rises' = IF seen = None \/ Rise(seen.v, counter) = 0 THEN old ELSE old \cup {step}
  BY TickFacts DEF Logged
<1>2. /\ counter \in Nat /\ now \in Nat /\ running
      /\ seen # None => seen \in Sample /\ Last(series) \in Sample
  <2>1. series \in Seq(Sample)
    BY DEF HistoryTypes, Timelines
  <2>2. seen # None => Last(series) \in Sample
    BY <2>1, TickFacts DEF SamplesSeen, Last
  <2>3. QED  BY <2>2, TickFacts DEF HistoryTypes
<1>3. seen # None => seen.v \in Nat /\ seen.ts \in Nat /\ base.v \in Nat /\ base.ts \in Nat
  BY <1>2, HistoryConstants DEF Sample
<1>4. seen # None => step \in Rises /\ step.to = now
  BY <1>2, <1>3 DEF Rises, Rise
<1>5. \A r \in rises : kept(r) \in Rises /\ kept(r).to = r.to
  BY DEF SamplesSeen, Rises
<1> HIDE DEF step, kept
<1>6. old \subseteq Rises /\ \A r \in rises : \E q \in old : q.to = r.to
  BY <1>5
<1> HIDE DEF old
<1>7. rose => \E r \in rises' : r.to = now
  BY <1>1, <1>4 DEF rose
<1>8. NewDrops > 0 => rose
  <2>1. SUFFICES ASSUME NewDrops > 0 PROVE rose
    OBVIOUS
  <2>2. last # None /\ Rise(last.v, counter) > 0
    BY <2>1 DEF NewDrops
  <2>3. seen = last
    BY <2>2 DEF SamplesSeen
  <2>4. Rise(seen.v, counter) # 0
    BY <2>2, <2>3
  <2>5. QED  BY <2>2, <2>3, <2>4 DEF rose
<1>9. ASSUME seen # None, \A r \in rises' : r.to # now PROVE counter \in {seen.v, 0}
  <2>1. Rise(seen.v, counter) = 0
    BY <1>7, <1>9 DEF rose
  <2>2. QED  BY <1>2, <1>3, <1>9, <2>1 DEF Rise
<1>10. rises' \subseteq Rises
  BY <1>1, <1>4, <1>6
<1>11. \A r \in rises : \E q \in rises' : q.to = r.to
  BY <1>1, <1>6
<1>12. QED  BY <1>7, <1>8, <1>9, <1>10, <1>11

LEMMA QuietTick ==
    ASSUME HistoryTypes, SamplesSeen, Tick, NEW t \in Nat, NEW b \in Nat, Quiet(t, b)
    PROVE  Quiet(t, b)'
<1>1. /\ ticked < now /\ ticked' = now /\ now \in Nat /\ ticked \in Int
      /\ seen' = [ts |-> now, v |-> counter] /\ seen' \in Sample
      /\ record' = record \/ record'.lfc = counter
  BY TickFacts DEF HistoryTypes
<1>2. t <= ticked /\ seen # None
  BY DEF Quiet
<1>3. t < now /\ t <= ticked'
  BY <1>1, <1>2
<1>4. seen' # None
  <2>1. \A x \in Sample : x \in [ts : Nat, v : Nat]
    BY HistoryConstants DEF Sample
  <2>2. QED  BY <1>1, <2>1, HistoryConstants
<1>5. ASSUME \A r \in rises' : r.to <= t
      PROVE  seen'.v \in {b, 0} /\ (record' # None => record'.lfc \in {b, 0})
  <2>1. /\ rises' \subseteq Rises
        /\ \A r \in rises : \E q \in rises' : q.to = r.to
        /\ seen # None /\ (\A r \in rises' : r.to # now) => counter \in {seen.v, 0}
    BY TickLogs
  <2>2. \A r \in rises' : r.to # now
    <3>1. \A r \in rises' : r.to \in Nat
      BY <2>1 DEF Rises
    <3>2. QED  BY <1>1, <1>3, <1>5, <3>1
  <2>3. counter \in {seen.v, 0}
    BY <1>2, <2>1, <2>2
  <2>4. \A r \in rises : r.to <= t
    BY <1>5, <2>1
  <2>5. seen.v \in {b, 0} /\ (record # None => record.lfc \in {b, 0})
    BY <2>4 DEF Quiet
  <2>6. counter \in {b, 0}
    BY <2>3, <2>5
  <2>7. QED  BY <1>1, <2>5, <2>6
<1>6. QED  BY <1>3, <1>4, <1>5 DEF Quiet

LEMMA RisesTick ==
    ASSUME NetTypes, RisesInv, Tick, UNCHANGED panelVars
    PROVE  RisesInv'
<1>1. /\ HistoryTypes /\ SamplesSeen /\ DropsRose /\ BaselinesQuiet /\ PanelTypes
      /\ ack' = ack /\ reading' = reading
  BY DEF NetTypes, RisesInv, panelVars
<1>2. /\ running /\ now \in Nat /\ ticked' = now /\ drops' = Youngest(Noted)
      /\ Last(series') = [ts |-> now, v |-> counter] /\ series' # <<>>
      /\ counter \in Nat
      /\ last' = [ts |-> now, v |-> counter] /\ seen' = last' /\ last' \in Sample
      /\ \/ file' = [series |-> series', drops |-> drops']
         \/ file' = file /\ drops' = drops /\ Provisional(series, counter)
      /\ \/ record' = record
         \/ record' = [lfc |-> counter, delta |-> Delta(series'), drops |-> drops',
                       ts |-> now]
      /\ running' = running
  BY <1>1, TickFacts
<1>3. /\ rises' \subseteq Rises
      /\ \A r \in rises : \E q \in rises' : q.to = r.to
      /\ NewDrops > 0 => \E r \in rises' : r.to = now
  BY <1>1, TickLogs
<1>4. seen' # None
  <2>1. \A x \in Sample : x \in [ts : Nat, v : Nat]
    BY HistoryConstants DEF Sample
  <2>2. QED  BY <1>2, <2>1, HistoryConstants
<1>5. SamplesSeen'
  <2>1. file.series # <<>> \/ file'.series = series'
    <3>1. Provisional(series, counter) => series # <<>>
      BY DEF Provisional
    <3>2. QED  BY <1>1, <1>2, <3>1 DEF SamplesSeen
  <2>2. file'.series # <<>>
    BY <1>2, <2>1
  <2>3. QED  BY <1>2, <1>3, <1>4, <2>2 DEF SamplesSeen
<1>6. \A t \in ToSet(drops') \cup ToSet(file'.drops) : \E r \in rises' : r.to = t
  <2>1. ASSUME NEW t \in ToSet(drops') PROVE \E r \in rises' : r.to = t
    <3>1. t \in ToSet(Noted)
      <4>1. Noted \in DropTimes(now) /\ now \in Int
        BY <1>1, <1>2, NotedTimes
      <4>2. QED  BY <1>2, <2>1, <4>1, YoungestKeeps
    <3>2. CASE t \in ToSet(drops)
      BY <1>1, <1>3, <3>2 DEF DropsRose
    <3>3. CASE t \notin ToSet(drops)
      BY <1>1, <1>3, <3>1, <3>3, NotedTimes
    <3>4. QED  BY <3>2, <3>3
  <2>2. ASSUME NEW t \in ToSet(file.drops) PROVE \E r \in rises' : r.to = t
    BY <1>1, <1>3, <2>2 DEF DropsRose
  <2>3. QED  BY <1>2, <2>1, <2>2
<1>7. record' # None => \A t \in ToSet(record'.drops) : \E r \in rises' : r.to = t
  <2>1. CASE record' = record
    BY <1>1, <1>3, <2>1 DEF DropsRose
  <2>2. CASE record'.drops = drops'
    BY <1>6, <2>2
  <2>3. QED  BY <1>2, <2>1, <2>2
<1>8. DropsRose'
  BY <1>6, <1>7 DEF DropsRose
<1>9. reading # None => Quiet(reading.ts, reading.lfc)'
  <2>1. SUFFICES ASSUME reading # None PROVE Quiet(reading.ts, reading.lfc)'
    OBVIOUS
  <2>2. reading.ts \in Nat /\ reading.lfc \in Nat
    BY <1>1, <1>2, <2>1 DEF PanelTypes
  <2> DEFINE t == reading.ts
             b == reading.lfc
  <2>3. t' = t /\ b' = b /\ Quiet(t, b)
    BY <1>1, <2>1 DEF BaselinesQuiet
  <2> HIDE DEF t, b
  <2>4. Quiet(t, b)'
    BY <1>1, <2>2, <2>3, QuietTick DEF t, b
  <2>5. QED  BY <2>4 DEF t, b
<1>10. ack # None => Quiet(ack.seen, ack.lfc)'
  <2>1. SUFFICES ASSUME ack # None PROVE Quiet(ack.seen, ack.lfc)'
    OBVIOUS
  <2>2. ack.seen \in Nat /\ ack.lfc \in Nat
    BY <1>1, <1>2, <2>1 DEF PanelTypes
  <2> DEFINE t == ack.seen
             b == ack.lfc
  <2>3. t' = t /\ b' = b /\ Quiet(t, b)
    BY <1>1, <2>1 DEF BaselinesQuiet
  <2> HIDE DEF t, b
  <2>4. Quiet(t, b)'
    BY <1>1, <2>2, <2>3, QuietTick DEF t, b
  <2>5. QED  BY <2>4 DEF t, b
<1>11. record' # None => Quiet(record.ts, record.lfc)'
  <2>1. CASE record' = record
    <3>1. SUFFICES ASSUME record # None PROVE Quiet(record.ts, record.lfc)'
      BY <2>1
    <3>2. record.ts \in Nat /\ record.lfc \in Nat
      BY <1>1, <3>1 DEF HistoryTypes
    <3> DEFINE t == record.ts
               b == record.lfc
    <3>3. t' = t /\ b' = b /\ Quiet(t, b)
      BY <1>1, <2>1, <3>1 DEF BaselinesQuiet
    <3> HIDE DEF t, b
    <3>4. Quiet(t, b)'
      BY <1>1, <3>2, <3>3, QuietTick DEF t, b
    <3>5. QED  BY <3>4 DEF t, b
  <2>2. CASE record' = [lfc |-> counter, delta |-> Delta(series'), drops |-> drops',
                        ts |-> now]
    <3>1. record'.ts = now /\ record'.lfc = counter /\ seen'.v = counter
      BY <1>2, <2>2
    <3>2. record'.ts <= ticked'
      BY <1>2, <3>1
    <3>3. QED  BY <1>4, <3>1, <3>2 DEF Quiet
  <2>3. QED  BY <1>2, <2>1, <2>2
<1>12. BaselinesQuiet'
  BY <1>1, <1>9, <1>10, <1>11 DEF BaselinesQuiet
<1>13. QED  BY <1>5, <1>8, <1>12 DEF RisesInv

(* The steps that neither look at the counter nor read or set a baseline.   *)
LEMMA RisesOutside ==
    ASSUME NetTypes, RisesInv, UNCHANGED <<ticked, seen, rises, file, record>>,
           \/ UNCHANGED memoryVars
           \/ running' = FALSE /\ series' = <<>> /\ drops' = <<>> /\ last' = None
           \/ /\ running' = TRUE /\ series' = file.series /\ drops' = file.drops
              /\ last' = last /\ ~running
    PROVE  /\ SamplesSeen' /\ DropsRose'
           /\ \A t, b : Quiet(t, b)' <=> Quiet(t, b)
<1>1. SamplesSeen /\ DropsRose
  BY DEF RisesInv
<1>2. ToSet(<<>>) = {}
  BY DEF ToSet
<1>3. SamplesSeen'
  BY <1>1 DEF SamplesSeen, memoryVars
<1>4. DropsRose'
  BY <1>1, <1>2 DEF DropsRose, memoryVars
<1>5. \A t, b : Quiet(t, b)' <=> Quiet(t, b)
  BY DEF Quiet
<1>6. QED  BY <1>3, <1>4, <1>5

LEMMA RisesInit ==
    ASSUME Init
    PROVE  RisesInv
<1>1. ToSet(<<>>) = {}
  BY DEF ToSet
<1>2. /\ drops = <<>> /\ file.drops = <<>> /\ file.series = <<>> /\ series = <<>>
      /\ last = None /\ seen = None /\ rises = {} /\ record = None
      /\ ack = None /\ reading = None
  BY DEF Init, HistoryInit, EmptyFile
<1>3. QED
  BY <1>1, <1>2 DEF RisesInv, SamplesSeen, DropsRose, BaselinesQuiet

LEMMA RisesStep ==
    ASSUME NetTypes, RisesInv, [Next]_vars
    PROVE  RisesInv'
<1>1. BaselinesQuiet
  BY DEF RisesInv
<1>2. CASE Tick /\ UNCHANGED panelVars
  BY <1>2, RisesTick
<1>3. CASE /\ Elapse \/ LinkFails \/ BondReset \/ Crash \/ Start \/ UNCHANGED historyVars
           /\ UNCHANGED panelVars
  <2>1. /\ UNCHANGED <<ticked, seen, rises, file, record>>
        /\ \/ UNCHANGED memoryVars
           \/ running' = FALSE /\ series' = <<>> /\ drops' = <<>> /\ last' = None
           \/ /\ running' = TRUE /\ series' = file.series /\ drops' = file.drops
              /\ last' = last /\ ~running
    BY <1>3 DEF Elapse, LinkFails, BondReset, Crash, Start, historyVars, logVars, memoryVars
  <2>2. SamplesSeen' /\ DropsRose' /\ \A t, b : Quiet(t, b)' <=> Quiet(t, b)
    BY <2>1, RisesOutside
  <2>3. ack' = ack /\ reading' = reading /\ record' = record
    BY <1>3, <2>1 DEF panelVars
  <2>4. BaselinesQuiet'
    BY <1>1, <2>2, <2>3 DEF BaselinesQuiet
  <2>5. QED  BY <2>2, <2>4 DEF RisesInv
<1>4. CASE AckRead \/ AckSet \/ Poll \/ PanelRestart
  <2>1. UNCHANGED historyVars
    BY <1>4 DEF AckRead, AckSet, Poll, PanelRestart
  <2>2. UNCHANGED <<ticked, seen, rises, file, record>> /\ UNCHANGED memoryVars
    BY <2>1 DEF historyVars, logVars
  <2>3. SamplesSeen' /\ DropsRose' /\ \A t, b : Quiet(t, b)' <=> Quiet(t, b)
    BY <2>2, RisesOutside
  <2>4. CASE AckRead
    <3>1. /\ record # None /\ reading' = [lfc |-> record.lfc, ts |-> record.ts]
          /\ ack' = ack /\ record' = record
      BY <2>2, <2>4 DEF AckRead, LiveRecord
    <3>2. Quiet(record.ts, record.lfc)
      BY <1>1, <3>1 DEF BaselinesQuiet
    <3>3. reading'.ts = record.ts /\ reading'.lfc = record.lfc
      BY <3>1
    <3>4. BaselinesQuiet'
      BY <1>1, <2>2, <3>1, <3>2, <3>3 DEF BaselinesQuiet, Quiet
    <3>5. QED  BY <2>3, <3>4 DEF RisesInv
  <2>5. CASE AckSet
    <3>1. /\ reading # None /\ reading' = None /\ record' = record
          /\ ack' = [lfc |-> reading.lfc, ts |-> now, seen |-> reading.ts]
      BY <2>2, <2>5 DEF AckSet
    <3>2. Quiet(reading.ts, reading.lfc)
      BY <1>1, <3>1 DEF BaselinesQuiet
    <3>3. ack'.seen = reading.ts /\ ack'.lfc = reading.lfc
      BY <3>1
    <3>4. BaselinesQuiet'
      BY <1>1, <2>2, <3>1, <3>2, <3>3 DEF BaselinesQuiet, Quiet
    <3>5. QED  BY <2>3, <3>4 DEF RisesInv
  <2>6. CASE Poll \/ PanelRestart
    <3>1. ack' = ack /\ reading' = reading /\ record' = record
      BY <2>2, <2>6 DEF Poll, PanelRestart
    <3>2. BaselinesQuiet'
      BY <1>1, <2>3, <3>1 DEF BaselinesQuiet
    <3>3. QED  BY <2>3, <3>2 DEF RisesInv
  <2>7. QED  BY <1>4, <2>4, <2>5, <2>6
<1>5. QED
  BY <1>2, <1>3, <1>4 DEF Next, vars, Around, HistoryNext

(* A baseline hides what was there when it was read. *)
LEMMA AckHides ==
    ASSUME NetTypes, RisesInv, LiveRecord # None, LiveAck # None, Unseen = {}
    PROVE  Attention(ApplyAck(record, ack)) = "calm"
<1>1. record # None /\ ack # None
  BY DEF LiveRecord, LiveAck
<1>2. /\ record \in [lfc : Nat, delta : Nat \cup {None}, drops : DropLists(ticked),
                     ts : 0 .. ticked]
      /\ ack.lfc \in Nat /\ ack.ts \in Nat /\ ack.seen \in Nat /\ ack.seen <= ack.ts
  BY <1>1, HistoryConstants DEF NetTypes, HistoryTypes, PanelTypes
<1>3. \A r \in rises : r.to \in Nat /\ r.to <= ack.seen
  <2>1. \A r \in rises : r.to \in Nat /\ ~(r.to > ack.seen)
    BY DEF Unseen, RisesInv, SamplesSeen, Rises
  <2>2. QED  BY <1>2, <2>1
<1>4. record.lfc \in {ack.lfc, 0}
  BY <1>1, <1>3 DEF RisesInv, BaselinesQuiet, Quiet
<1> DEFINE e == EffectiveDelta(record.delta, record.lfc, ack.lfc)
           T == {t \in ToSet(record.drops) : t > ack.ts}
           w == Within(record.drops, T)
<1>5. e = None \/ ~(e > 0)
  <2>1. CASE record.delta = None
    BY <2>1 DEF EffectiveDelta
  <2>2. CASE record.delta # None
    <3> DEFINE d == record.delta
    <3>1. d \in Nat
      BY <1>2, <2>2
    <3>2. (IF record.lfc >= ack.lfc THEN record.lfc - ack.lfc ELSE record.lfc) = 0
      BY <1>2, <1>4
    <3>3. e = Min({d, 0})
      BY <2>2, <3>2 DEF EffectiveDelta
    <3> HIDE DEF d
    <3>4. Min({d, 0}) \in {d, 0} /\ Min({d, 0}) <= 0
      BY <3>1, MinOfTwo
    <3>5. Min({d, 0}) \in Nat
      BY <3>1, <3>4
    <3>6. ~(Min({d, 0}) > 0)
      BY <3>4, <3>5
    <3>7. QED  BY <3>3, <3>6
  <2>3. QED  BY <2>1, <2>2
<1>6. w = <<>>
  <2>1. record.drops \in Seq(Nat)
    BY <1>2 DEF DropLists, DropTimes
  <2>2. \A t \in ToSet(record.drops) : \E r \in rises : r.to = t
    BY <1>1 DEF RisesInv, DropsRose
  <2>3. \A t \in ToSet(record.drops) : ~(t > ack.ts)
    BY <1>2, <1>3, <2>2
  <2>4. ToSet(record.drops) \cap T = {}
    BY <2>3
  <2> HIDE DEF T
  <2>5. QED  BY <2>1, <2>4, WithinNone
<1>7. ApplyAck(record, ack) = [record EXCEPT !.delta = e, !.drops = w]
  BY DEF ApplyAck
<1> HIDE DEF e, w
<1>8. /\ [record EXCEPT !.delta = e, !.drops = w].delta = e
      /\ [record EXCEPT !.delta = e, !.drops = w].drops = w
  BY <1>2
<1>9. QED  BY <1>5, <1>6, <1>7, <1>8 DEF Attention

(* An acknowledgement stays one: until the counter rises again, through     *)
(* resets, crashes and restarts, the column is calm (net_apply_ack).        *)
THEOREM AcksClear == Spec => AckClears
<1>1. Init => NetTypes /\ RisesInv
  BY NetTypesInit, RisesInit
<1>2. NetTypes /\ RisesInv /\ [Next]_vars => (NetTypes /\ RisesInv)'
  BY NetTypesStep, RisesStep
<1>3. ASSUME NetTypes, RisesInv,
             Poll /\ LiveRecord # None /\ LiveAck # None /\ Unseen = {}
      PROVE  column' = "calm"
  BY <1>3, AckHides DEF Poll
<1>4. NetTypes /\ RisesInv /\ [Next]_vars =>
        [Poll /\ LiveRecord # None /\ LiveAck # None /\ Unseen = {}
            => column' = "calm"]_vars
  BY <1>3
<1>5. QED  BY <1>1, <1>2, <1>4, PTL DEF Spec, AckClears
-----------------------------------------------------------------------------
(* Totals of rises.                                                        *)

Chosen(s) == CHOOSE x \in s : TRUE

(* f sums every set of D. *)
Sums(f, D) ==
    f = [s \in D |-> IF s = {} THEN 0 ELSE Chosen(s).n + f[s \ {Chosen(s)}]]

LEMMA SumsAt ==
    ASSUME NEW f, NEW D, Sums(f, D), NEW s \in D
    PROVE  f[s] = IF s = {} THEN 0 ELSE Chosen(s).n + f[s \ {Chosen(s)}]
<1> DEFINE g == [t \in D |-> IF t = {} THEN 0 ELSE Chosen(t).n + f[t \ {Chosen(t)}]]
<1>1. f = g
  BY Zenon DEF Sums
<1>2. g[s] = IF s = {} THEN 0 ELSE Chosen(s).n + f[s \ {Chosen(s)}]
  OBVIOUS
<1> HIDE DEF g
<1>3. QED  BY <1>1, <1>2

LEMMA SumsExist ==
    ASSUME NEW S, IsFiniteSet(S)
    PROVE  \E f : Sums(f, SUBSET S)
<1> DEFINE D(k) == {s \in SUBSET S : Cardinality(s) <= k}
           n == Cardinality(S)
           T == {k \in 0 .. n : \E f : Sums(f, D(k))}
<1>1. /\ n \in Nat
      /\ \A s \in SUBSET S : IsFiniteSet(s) /\ Cardinality(s) \in Nat /\ Cardinality(s) <= n
  BY FS_Subset, FS_CardinalityType
<1>2. ASSUME NEW s \in SUBSET S, s # {}
      PROVE  /\ Chosen(s) \in s
             /\ s \ {Chosen(s)} \in SUBSET S
             /\ Cardinality(s \ {Chosen(s)}) = Cardinality(s) - 1
  <2>1. Chosen(s) \in s
    BY <1>2 DEF Chosen
  <2>2. QED  BY <1>1, <2>1, FS_RemoveElement
<1>3. 0 \in T
  <2> DEFINE f == [s \in D(0) |-> 0]
  <2>1. \A s \in D(0) : s = {}
    <3>1. SUFFICES ASSUME NEW s \in D(0), s # {} PROVE FALSE
      OBVIOUS
    <3>2. Cardinality(s) - 1 \in Nat /\ Cardinality(s) \in Nat /\ Cardinality(s) <= 0
      BY <1>1, <1>2, <3>1
    <3>3. QED  BY <3>2
  <2>2. f = [s \in D(0) |-> IF s = {} THEN 0 ELSE Chosen(s).n + f[s \ {Chosen(s)}]]
    BY <2>1
  <2> HIDE DEF f
  <2>3. Sums(f, D(0))
    BY <2>2, Zenon DEF Sums
  <2>4. 0 \in 0 .. n
    BY <1>1
  <2> HIDE DEF D
  <2>5. QED  BY <2>3, <2>4
<1>4. ASSUME NEW k \in 0 .. n - 1, k \in T PROVE k + 1 \in T
  <2>1. PICK f : Sums(f, D(k))
    BY <1>4
  <2> DEFINE g == [s \in D(k + 1) |->
                     IF s = {} THEN 0 ELSE Chosen(s).n + f[s \ {Chosen(s)}]]
  <2>2. D(k) \subseteq D(k + 1)
    BY <1>1
  <2>3. \A s \in D(k) : g[s] = f[s]
    <3>1. TAKE s \in D(k)
    <3>2. g[s] = IF s = {} THEN 0 ELSE Chosen(s).n + f[s \ {Chosen(s)}]
      BY <2>2
    <3> HIDE DEF D, g
    <3>3. QED  BY <2>1, <3>2, SumsAt
  <2>4. \A s \in D(k + 1) : s # {} => s \ {Chosen(s)} \in D(k)
    BY <1>1, <1>2
  <2>5. g = [s \in D(k + 1) |-> IF s = {} THEN 0 ELSE Chosen(s).n + g[s \ {Chosen(s)}]]
    <3>1. \A s \in D(k + 1) : s # {} => g[s \ {Chosen(s)}] = f[s \ {Chosen(s)}]
      BY <2>3, <2>4
    <3> HIDE DEF D
    <3>2. \A s \in D(k + 1) :
             (IF s = {} THEN 0 ELSE Chosen(s).n + f[s \ {Chosen(s)}])
             = (IF s = {} THEN 0 ELSE Chosen(s).n + g[s \ {Chosen(s)}])
      BY <3>1
    <3>3. QED  BY <3>2
  <2> HIDE DEF g
  <2>6. Sums(g, D(k + 1))
    BY <2>5, Zenon DEF Sums
  <2>7. k + 1 \in 0 .. n
    BY <1>1
  <2>8. QED  BY <2>6, <2>7
<1>5. n \in T
  <2> HIDE DEF T
  <2>1. n \in 0 .. n
    BY <1>1
  <2>2. QED  BY <1>1, <1>3, <1>4, <2>1, UpTo
<1>6. D(n) = SUBSET S
  BY <1>1
<1>7. PICK f : Sums(f, D(n))
  BY <1>5
<1>8. QED  BY <1>6, <1>7

(* The sums of a set's subsets give those of a subset's. *)
LEMMA SumsAgree ==
    ASSUME NEW A, IsFiniteSet(A), NEW S \in SUBSET A,
           NEW f, Sums(f, SUBSET A), NEW g, Sums(g, SUBSET S)
    PROVE  f[S] = g[S]
<1> DEFINE U == {s \in SUBSET S : f[s] # g[s]}
<1>1. SUFFICES ASSUME U # {} PROVE FALSE
  OBVIOUS
<1>2. U \in SUBSET (SUBSET S)
  OBVIOUS
<1>3. PICK u \in U : \A x \in u : u \ {x} \notin U
  <2> HIDE DEF U
  <2>1. IsFiniteSet(S)
    BY FS_Subset
  <2>2. QED  BY <1>1, <1>2, <2>1, SmallestSubset
<1>4. u \in SUBSET A /\ u \in SUBSET S
  BY <1>3
<1>5. /\ f[u] = IF u = {} THEN 0 ELSE Chosen(u).n + f[u \ {Chosen(u)}]
      /\ g[u] = IF u = {} THEN 0 ELSE Chosen(u).n + g[u \ {Chosen(u)}]
  BY <1>4, SumsAt
<1>6. u # {}
  BY <1>3, <1>5
<1>7. Chosen(u) \in u
  BY <1>6 DEF Chosen
<1>8. f[u \ {Chosen(u)}] = g[u \ {Chosen(u)}]
  BY <1>3, <1>4, <1>7
<1>9. QED  BY <1>3, <1>5, <1>6, <1>8

LEMMA TotalIs ==
    ASSUME NEW S
    PROVE  Total(S) = (CHOOSE f : Sums(f, SUBSET S))[S]
BY Zenon DEF Total, MapThenSumSet, MapThenFoldSet, Sums, Chosen

LEMMA TotalChosen ==
    ASSUME NEW S, IsFiniteSet(S)
    PROVE  Total(S) = IF S = {} THEN 0 ELSE Chosen(S).n + Total(S \ {Chosen(S)})
<1> DEFINE R == S \ {Chosen(S)}
           f == CHOOSE x : Sums(x, SUBSET S)
           g == CHOOSE x : Sums(x, SUBSET R)
<1>1. IsFiniteSet(R) /\ R \in SUBSET S
  BY FS_Subset
<1> HIDE DEF R
<1>2. Sums(f, SUBSET S) /\ Sums(g, SUBSET R)
  BY <1>1, SumsExist
<1>3. Total(S) = f[S] /\ Total(R) = g[R]
  BY TotalIs
<1> HIDE DEF f, g
<1>4. f[S] = IF S = {} THEN 0 ELSE Chosen(S).n + f[R]
  BY <1>2, SumsAt DEF R
<1>5. f[R] = g[R]
  BY <1>1, <1>2, SumsAgree
<1>6. QED  BY <1>3, <1>4, <1>5 DEF R

(* Totals of the numbers of rises, or of any records that have such a field.*)
Numbered(S) == IsFiniteSet(S) /\ \A r \in S : r.n \in Nat

LEMMA TotalType ==
    ASSUME NEW S, Numbered(S)
    PROVE  Total(S) \in Nat
<1> DEFINE U == {s \in SUBSET S : Total(s) \notin Nat}
<1>1. SUFFICES ASSUME U # {} PROVE FALSE
  OBVIOUS
<1>2. U \in SUBSET (SUBSET S) /\ IsFiniteSet(S)
  BY DEF Numbered
<1>3. PICK u \in U : \A x \in u : u \ {x} \notin U
  <2> HIDE DEF U
  <2>1. QED  BY <1>1, <1>2, SmallestSubset
<1>4. Total(u) = IF u = {} THEN 0 ELSE Chosen(u).n + Total(u \ {Chosen(u)})
  BY <1>2, <1>3, FS_Subset, TotalChosen
<1>5. u # {}
  BY <1>3, <1>4
<1>6. Chosen(u) \in u
  BY <1>5 DEF Chosen
<1>7. Total(u \ {Chosen(u)}) \in Nat /\ Chosen(u).n \in Nat
  BY <1>3, <1>6 DEF Numbered
<1>8. QED  BY <1>3, <1>4, <1>5, <1>7

LEMMA NumberedPart ==
    ASSUME NEW S, Numbered(S), NEW T, T \subseteq S
    PROVE  Numbered(T)
BY FS_Subset DEF Numbered

LEMMA TotalMinus ==
    ASSUME NEW S, Numbered(S), NEW x \in S
    PROVE  Total(S) = x.n + Total(S \ {x})
<1> DEFINE U == {s \in SUBSET S : \E y \in s : Total(s) # y.n + Total(s \ {y})}
<1>1. SUFFICES ASSUME U # {} PROVE FALSE
  OBVIOUS
<1>2. U \in SUBSET (SUBSET S) /\ IsFiniteSet(S)
  BY DEF Numbered
<1>3. PICK u \in U : \A y \in u : u \ {y} \notin U
  <2> HIDE DEF U
  <2>1. QED  BY <1>1, <1>2, SmallestSubset
<1>4. PICK y \in u : Total(u) # y.n + Total(u \ {y})
  BY <1>3
<1> DEFINE c == Chosen(u)
<1>5. c \in u /\ Total(u) = c.n + Total(u \ {c})
  <2>1. c \in u
    BY <1>4 DEF Chosen
  <2>2. IsFiniteSet(u)
    BY <1>2, <1>3, FS_Subset
  <2>3. QED  BY <2>1, <2>2, TotalChosen
<1> HIDE DEF c
<1>6. c # y
  BY <1>4, <1>5
<1> DEFINE R == (u \ {y}) \ {c}
<1>7. R = (u \ {c}) \ {y}
  OBVIOUS
<1>8. Total(u \ {y}) = c.n + Total(R)
  BY <1>3, <1>5, <1>6
<1>9. Total(u \ {c}) = y.n + Total(R)
  <2>1. u \ {c} \in SUBSET S /\ u \ {c} \notin U /\ y \in u \ {c}
    BY <1>3, <1>4, <1>5, <1>6
  <2>2. QED  BY <1>7, <2>1
<1> HIDE DEF R
<1>10. Total(R) \in Nat /\ c.n \in Nat /\ y.n \in Nat
  <2>1. Numbered(R)
    BY <1>3, NumberedPart DEF R
  <2>2. QED  BY <1>3, <1>4, <1>5, <2>1, TotalType DEF Numbered
<1>11. QED  BY <1>4, <1>5, <1>8, <1>9, <1>10

LEMMA TotalPlus ==
    ASSUME NEW S, Numbered(S), NEW x, x.n \in Nat, x \notin S
    PROVE  Numbered(S \cup {x}) /\ Total(S \cup {x}) = Total(S) + x.n
<1>1. Numbered(S \cup {x})
  BY FS_AddElement DEF Numbered
<1>2. (S \cup {x}) \ {x} = S
  OBVIOUS
<1>3. Total(S \cup {x}) = x.n + Total(S)
  BY <1>1, <1>2, TotalMinus
<1>4. Total(S) \in Nat
  BY TotalType
<1>5. QED  BY <1>1, <1>3, <1>4

LEMMA TotalPart ==
    ASSUME NEW T, Numbered(T), NEW S, S \subseteq T
    PROVE  Total(S) <= Total(T)
<1> DEFINE G == {u \in SUBSET T : Total(S) <= Total(S \cup u)}
<1>1. \A u \in SUBSET T : Numbered(S \cup u) /\ Total(S \cup u) \in Nat
  <2>1. \A u \in SUBSET T : S \cup u \subseteq T
    OBVIOUS
  <2>2. QED  BY <2>1, NumberedPart, TotalType
<1>2. {} \in G
  <2>1. S \cup {} = S
    OBVIOUS
  <2>2. QED  BY <1>1, <2>1
<1>3. ASSUME NEW u \in SUBSET T, NEW x \in T, u \in G PROVE u \cup {x} \in G
  <2>1. S \cup (u \cup {x}) = (S \cup u) \cup {x} /\ u \cup {x} \in SUBSET T
    OBVIOUS
  <2>2. CASE x \in S \cup u
    <3>1. (S \cup u) \cup {x} = S \cup u
      BY <2>2
    <3>2. Total(S \cup (u \cup {x})) = Total(S \cup u)
      BY <2>1, <3>1, Zenon
    <3>3. QED  BY <1>3, <2>1, <3>2
  <2>3. CASE x \notin S \cup u
    <3>1. x.n \in Nat
      BY DEF Numbered
    <3>2. Total((S \cup u) \cup {x}) = Total(S \cup u) + x.n
      BY <1>1, <2>3, <3>1, TotalPlus
    <3>3. Total(S \cup u) \in Nat /\ Total(S) <= Total(S \cup u) /\ Total(S) \in Nat
      <4>1. S \in SUBSET T /\ S \cup S = S
        OBVIOUS
      <4>2. QED  BY <1>1, <1>3, <4>1
    <3>4. Total(S) <= Total((S \cup u) \cup {x})
      BY <3>1, <3>2, <3>3
    <3>5. Total(S) <= Total(S \cup (u \cup {x}))
      BY <2>1, <3>4, Zenon
    <3>6. QED  BY <2>1, <3>5
  <2>4. QED  BY <2>2, <2>3
<1>4. T \in G
  <2> HIDE DEF G
  <2>1. IsFiniteSet(T)
    BY DEF Numbered
  <2>2. QED  BY <1>2, <1>3, <2>1, BySubsets
<1>5. S \cup T = T
  OBVIOUS
<1>6. QED  BY <1>4, <1>5

(* Records changed in other fields have the same total. *)
LEMMA TotalCopied ==
    ASSUME NEW S, Numbered(S), NEW h, \A r \in S : h[r].n = r.n,
           \A r, q \in S : h[r] = h[q] => r = q
    PROVE  /\ Numbered({h[r] : r \in S})
           /\ Total({h[r] : r \in S}) = Total(S)
<1> DEFINE C(s) == {h[r] : r \in s}
           G == {s \in SUBSET S : Numbered(C(s)) /\ Total(C(s)) = Total(s)}
<1>1. {} \in G
  <2>1. C({}) = {}
    OBVIOUS
  <2>2. Numbered({})
    BY FS_EmptySet DEF Numbered
  <2>3. QED  BY <2>1, <2>2
<1>2. ASSUME NEW s \in SUBSET S, NEW x \in S, s \in G PROVE s \cup {x} \in G
  <2>1. CASE x \in s
    <3>1. s \cup {x} = s
      BY <2>1
    <3>2. QED  BY <1>2, <3>1
  <2>2. CASE x \notin s
    <3>1. C(s \cup {x}) = C(s) \cup {h[x]} /\ h[x] \notin C(s)
      BY <2>2
    <3>2. h[x].n \in Nat /\ h[x].n = x.n
      BY DEF Numbered
    <3>3. Numbered(C(s)) /\ Numbered(s) /\ Total(C(s)) = Total(s)
      BY <1>2, NumberedPart
    <3> HIDE DEF C
    <3>4. Numbered(C(s) \cup {h[x]}) /\ Total(C(s) \cup {h[x]}) = Total(C(s)) + x.n
      BY <3>1, <3>2, <3>3, TotalPlus
    <3>5. Total(s \cup {x}) = Total(s) + x.n
      BY <2>2, <3>2, <3>3, TotalPlus
    <3>6. QED  BY <3>1, <3>3, <3>4, <3>5
  <2>3. QED  BY <2>1, <2>2
<1>3. S \in G
  <2> HIDE DEF G
  <2>1. IsFiniteSet(S)
    BY DEF Numbered
  <2>2. QED  BY <1>1, <1>2, <2>1, BySubsets
<1>4. QED  BY <1>3

-----------------------------------------------------------------------------
(* Sums over a series.                                                     *)

Steps(s) == [i \in 1 .. Len(s) - 1 |-> <<s[i], s[i + 1]>>]

LEMMA StepsLoop ==
    ASSUME NEW s
    PROVE  SumOfRises(s) = RiseLoop!Loop(0, Steps(s))
BY Zenon DEF SumOfRises, FoldLeft, RiseLoop!Loop, RiseLoop!FoldLeft, MapThenFoldSet,
             RiseLoop!MapThenFoldSet, Max, RiseLoop!Max, Steps

LEMMA StepsAre ==
    ASSUME NEW W, NEW s \in Seq(W), s # <<>>, NEW x \in W
    PROVE  /\ Steps(s) \in Seq(W \X W) /\ Len(Steps(s)) = Len(s) - 1
           /\ <<Last(s), x>> \in W \X W
           /\ Steps(Append(s, x)) = Append(Steps(s), <<Last(s), x>>)
<1> DEFINE n == Len(s)
           a == Append(s, x)
           P == W \X W
           f == Steps(s)
<1>1. n \in Nat /\ n >= 1 /\ n - 1 \in Nat /\ 1 .. Len(s) - 1 = 1 .. n - 1
  OBVIOUS
<1>2. ASSUME NEW i \in 1 .. n - 1 PROVE s[i] \in W /\ s[i + 1] \in W
  BY <1>2
<1>3. Last(s) = s[n] /\ s[n] \in W
  BY <1>1 DEF Last
<1>4. /\ Len(a) = n + 1 /\ a[n + 1] = x
      /\ \A i \in 1 .. n : a[i] = s[i]
  OBVIOUS
<1>5. <<Last(s), x>> \in P
  BY <1>3
<1>6. \A i \in 1 .. n - 1 : f[i] = <<s[i], s[i + 1]>> /\ f[i] \in P
  BY <1>2 DEF Steps
<1>7. f = [i \in 1 .. n - 1 |-> f[i]]
  BY DEF Steps
<1> HIDE DEF n, a, P, f
<1>8. f \in Seq(P) /\ Len(f) = n - 1
  <2>1. f \in [1 .. n - 1 -> P]
    BY <1>6, <1>7
  <2>2. \A g \in [1 .. n - 1 -> P] : g \in Seq(P) /\ Len(g) = n - 1
    BY <1>1
  <2>3. QED  BY <2>1, <2>2, Zenon
<1>9. Steps(a) = Append(f, <<Last(s), x>>)
  <2> DEFINE g == Steps(a)
             h == Append(f, <<Last(s), x>>)
  <2>1. /\ h \in Seq(P) /\ Len(h) = n
        /\ \A i \in 1 .. n : h[i] = IF i = n THEN <<Last(s), x>> ELSE f[i]
    BY <1>1, <1>5, <1>8
  <2>2. h = [i \in 1 .. n |-> h[i]]
    BY <2>1
  <2> HIDE DEF h
  <2>3. g = [i \in 1 .. n |-> <<a[i], a[i + 1]>>]
    BY <1>1, <1>4 DEF Steps
  <2> HIDE DEF g
  <2>4. \A i \in 1 .. n : <<a[i], a[i + 1]>> = h[i]
    <3>1. TAKE i \in 1 .. n
    <3>2. CASE i = n
      BY <1>1, <1>3, <1>4, <2>1, <3>2
    <3>3. CASE i # n
      <4>1. i \in 1 .. n - 1 /\ i + 1 \in 1 .. n
        BY <1>1, <3>3
      <4>2. QED  BY <1>4, <1>6, <2>1, <3>3, <4>1
    <3>4. QED  BY <3>2, <3>3
  <2>5. g = h
    BY <2>2, <2>3, <2>4
  <2>6. QED  BY <2>5 DEF g, h
<1>10. QED  BY <1>5, <1>8, <1>9 DEF n, a, P, f

(* One sample more adds the rise from the last. *)
LEMMA SumAppend ==
    ASSUME NEW W, NEW s \in Seq(W), s # <<>>, NEW x \in W
    PROVE  SumOfRises(Append(s, x)) = SumOfRises(s) + Rise(Last(s).v, x.v)
<1> DEFINE f == Steps(s)
           p == <<Last(s), x>>
           P == W \X W
<1>1. f \in Seq(P) /\ p \in P /\ Steps(Append(s, x)) = Append(f, p)
  BY StepsAre
<1>2. p[1] = Last(s) /\ p[2] = x
  OBVIOUS
<1> HIDE DEF f, p, P
<1>3. RiseLoop!Loop(0, Append(f, p)) = AddRise(RiseLoop!Loop(0, f), p)
  BY <1>1, RiseLoop!LoopAppend
<1>4. SumOfRises(s) = RiseLoop!Loop(0, f)
  BY StepsLoop DEF f
<1>5. SumOfRises(Append(s, x)) = RiseLoop!Loop(0, Append(f, p))
  BY <1>1, StepsLoop
<1>6. QED  BY <1>2, <1>3, <1>4, <1>5 DEF AddRise

LEMMA SumShort ==
    ASSUME NEW x
    PROVE  SumOfRises(<<x>>) = 0
<1>1. Steps(<<x>>) = <<>>
  BY DEF Steps
<1>2. QED  BY <1>1, StepsLoop, RiseLoop!LoopEmpty

(* A series from its i-th sample on, and what it rises from there. *)
Rest(s, i) == SubSeq(s, i, Len(s))
RiseFrom(s, i) == SumOfRises(Rest(s, i))

LEMMA RestAppend ==
    ASSUME NEW W, NEW s \in Seq(W), NEW x \in W, NEW i \in 1 .. Len(s)
    PROVE  /\ Rest(s, i) \in Seq(W) /\ Rest(s, i) # <<>> /\ Last(Rest(s, i)) = Last(s)
           /\ Rest(Append(s, x), i) = Append(Rest(s, i), x)
<1> DEFINE n == Len(s)
           a == Append(s, x)
           m == n - i + 1
           r == Rest(s, i)
<1>1. n \in Nat /\ i \in Nat /\ i <= n /\ 1 <= i /\ m \in Nat /\ m >= 1
  OBVIOUS
<1>2. r \in Seq(W) /\ Len(r) = m /\ \A j \in 1 .. m : r[j] = s[i + j - 1]
  BY <1>1 DEF Rest
<1>3. Len(a) = n + 1 /\ a[n + 1] = x /\ a \in Seq(W) /\ \A j \in 1 .. n : a[j] = s[j]
  OBVIOUS
<1>4. Rest(a, i) = [j \in 1 .. m + 1 |-> a[i + j - 1]]
  <2> HIDE DEF a
  <2>1. Rest(a, i) = [j \in 1 .. (n + 1) - i + 1 |-> a[i + j - 1]]
    BY <1>1, <1>3 DEF Rest
  <2>2. (n + 1) - i + 1 = m + 1
    BY <1>1
  <2>3. QED  BY <2>1, <2>2
<1> HIDE DEF r, a
<1>5. /\ Append(r, x) = [j \in 1 .. m + 1 |-> Append(r, x)[j]]
      /\ \A j \in 1 .. m : Append(r, x)[j] = r[j]
      /\ Append(r, x)[m + 1] = x
  <2>1. \A t \in Seq(W) : /\ Append(t, x) \in Seq(W) /\ Len(Append(t, x)) = Len(t) + 1
                          /\ Append(t, x)[Len(t) + 1] = x
                          /\ \A j \in 1 .. Len(t) : Append(t, x)[j] = t[j]
    OBVIOUS
  <2>2. \A t \in Seq(W) : t = [j \in 1 .. Len(t) |-> t[j]]
    OBVIOUS
  <2>3. Append(r, x) \in Seq(W) /\ Len(Append(r, x)) = m + 1
    BY <1>2, <2>1
  <2>4. QED  BY <1>2, <2>1, <2>2, <2>3
<1>6. \A j \in 1 .. m + 1 : a[i + j - 1] = Append(r, x)[j]
  <2>1. TAKE j \in 1 .. m + 1
  <2>2. CASE j = m + 1
    <3>1. i + j - 1 = n + 1
      BY <1>1, <2>2
    <3>2. QED  BY <1>3, <1>5, <2>2, <3>1
  <2>3. CASE j # m + 1
    <3>1. j \in 1 .. m /\ i + j - 1 \in 1 .. n
      BY <1>1, <2>3
    <3>2. QED  BY <1>2, <1>3, <1>5, <3>1
  <2>4. QED  BY <2>2, <2>3
<1>7. Rest(a, i) = Append(r, x)
  BY <1>4, <1>5, <1>6
<1>8. r # <<>> /\ Last(r) = Last(s)
  <2>1. i + m - 1 = n /\ m \in 1 .. m
    BY <1>1
  <2>2. r[m] = s[n]
    BY <1>2, <2>1
  <2>3. Last(r) = r[m] /\ Last(s) = s[n]
    BY <1>2 DEF Last
  <2>4. Len(<<>>) = 0
    OBVIOUS
  <2>5. r # <<>>
    BY <1>1, <1>2, <2>4
  <2>6. QED  BY <2>2, <2>3, <2>5
<1>9. QED  BY <1>2, <1>7, <1>8 DEF r, a

LEMMA RiseFromAppend ==
    ASSUME NEW W, NEW s \in Seq(W), NEW x \in W
    PROVE  /\ \A i \in 1 .. Len(s) :
                RiseFrom(Append(s, x), i) = RiseFrom(s, i) + Rise(Last(s).v, x.v)
           /\ RiseFrom(Append(s, x), Len(s) + 1) = 0
<1>1. ASSUME NEW i \in 1 .. Len(s)
      PROVE  RiseFrom(Append(s, x), i) = RiseFrom(s, i) + Rise(Last(s).v, x.v)
  <2> DEFINE r == Rest(s, i)
  <2>1. r \in Seq(W) /\ r # <<>> /\ Last(r) = Last(s) /\ Rest(Append(s, x), i) = Append(r, x)
    BY RestAppend
  <2> HIDE DEF r
  <2>2. SumOfRises(Append(r, x)) = SumOfRises(r) + Rise(Last(r).v, x.v)
    BY <2>1, SumAppend
  <2>3. QED  BY <2>1, <2>2 DEF RiseFrom, r
<1>2. Rest(Append(s, x), Len(s) + 1) = <<x>>
  <2> DEFINE a == Append(s, x)
             n == Len(s)
  <2>1. n \in Nat /\ Len(a) = n + 1 /\ a[n + 1] = x
    OBVIOUS
  <2> HIDE DEF a, n
  <2>2. Rest(a, n + 1) = [j \in 1 .. 1 |-> a[(n + 1) + j - 1]]
    <3>1. (n + 1) - (n + 1) + 1 = 1
      BY <2>1
    <3>2. QED  BY <2>1, <3>1 DEF Rest
  <2>3. \A j \in 1 .. 1 : a[(n + 1) + j - 1] = x
    <3>1. \A j \in 1 .. 1 : (n + 1) + j - 1 = n + 1
      BY <2>1
    <3>2. QED  BY <2>1, <3>1
  <2>4. <<x>> = [j \in 1 .. 1 |-> x]
    OBVIOUS
  <2>5. QED  BY <2>2, <2>3, <2>4 DEF a, n
<1>3. QED  BY <1>1, <1>2, SumShort DEF RiseFrom

LEMMA RestOfPart ==
    ASSUME NEW W, NEW p \in Seq(W), NEW q \in Seq(W), NEW i \in 1 .. Len(q)
    PROVE  /\ q[i] = (p \o q)[Len(p) + i]
           /\ Rest(q, i) = Rest(p \o q, Len(p) + i)
           /\ Len(p) + i \in 1 .. Len(p \o q)
<1> DEFINE s == p \o q
           m == Len(p)
           n == Len(q)
<1>1. m \in Nat /\ n \in Nat /\ i \in Nat /\ 1 <= i /\ i <= n
  OBVIOUS
<1>2. s \in Seq(W) /\ Len(s) = m + n /\ \A j \in 1 .. n : s[m + j] = q[j]
  OBVIOUS
<1> HIDE DEF s, m, n
<1>3. Rest(q, i) = [j \in 1 .. n - i + 1 |-> q[i + j - 1]]
  BY <1>1 DEF Rest, n
<1>4. Rest(s, m + i) = [j \in 1 .. (m + n) - (m + i) + 1 |-> s[(m + i) + j - 1]]
  BY <1>1, <1>2 DEF Rest
<1>5. (m + n) - (m + i) + 1 = n - i + 1
  BY <1>1
<1>6. ASSUME NEW j \in 1 .. n - i + 1 PROVE s[(m + i) + j - 1] = q[i + j - 1]
  <2>1. i + j - 1 \in 1 .. n /\ (m + i) + j - 1 = m + (i + j - 1)
    BY <1>1
  <2>2. QED  BY <1>2, <2>1
<1>7. Rest(q, i) = Rest(s, m + i)
  BY <1>3, <1>4, <1>5, <1>6
<1>8. m + i \in 1 .. Len(s)
  BY <1>1, <1>2
<1>9. s[m + i] = q[i]
  BY <1>1, <1>2
<1>10. QED  BY <1>7, <1>8, <1>9 DEF s, m

(* What is picked from the end of a list is its rest. *)
LEMMA WithinRest ==
    ASSUME NEW W, NEW s \in Seq(W), NEW T,
           \A i \in 1 .. Len(s) : \A j \in i + 1 .. Len(s) : s[i] \in T => s[j] \in T
    PROVE  \E p \in Seq(W) : \E q \in Seq(W) :
              /\ s = p \o q /\ Within(s, T) = q
              /\ \A i \in 1 .. Len(s) : s[i] \in T => i > Len(p)
<1> DEFINE n == Len(s)
           K == {k \in 0 .. n : k = n \/ s[k + 1] \in T}
<1>1. n \in Nat /\ K \in SUBSET Nat /\ K # {}
  OBVIOUS
<1> HIDE DEF K
<1>2. PICK k \in K : \A l \in K : k <= l
  BY <1>1, Smallest
<1>3. k \in 0 .. n /\ (k = n \/ s[k + 1] \in T)
  BY <1>2 DEF K
<1>4. ASSUME NEW i \in 1 .. n, s[i] \in T PROVE i > k
  <2>1. i - 1 \in 0 .. n /\ (i - 1) + 1 = i
    BY <1>1
  <2>2. i - 1 \in K
    BY <1>4, <2>1 DEF K
  <2>3. k <= i - 1
    BY <1>2, <2>2
  <2>4. QED  BY <1>3, <2>1, <2>3
<1>5. ASSUME NEW i \in 1 .. n, i > k PROVE s[i] \in T
  <2>1. k # n /\ k + 1 \in 1 .. n /\ s[k + 1] \in T
    BY <1>3, <1>5
  <2>2. i = k + 1 \/ i \in (k + 1) + 1 .. n
    BY <1>3, <1>5
  <2>3. QED  BY <2>1, <2>2
<1>6. PICK p \in Seq(W) : \E q \in Seq(W) : s = p \o q /\ Len(p) = k
  BY <1>3, SplitAt
<1>7. PICK q \in Seq(W) : s = p \o q /\ Len(p) = k
  BY <1>6
<1>8. /\ n = Len(p) + Len(q) /\ Len(q) \in Nat /\ Len(p) \in Nat
      /\ \A i \in 1 .. Len(p) : s[i] = p[i]
      /\ \A i \in 1 .. Len(q) : s[Len(p) + i] = q[i]
  <2>1. /\ Len(p \o q) = Len(p) + Len(q) /\ Len(q) \in Nat /\ Len(p) \in Nat
        /\ \A i \in 1 .. Len(p) : (p \o q)[i] = p[i]
        /\ \A i \in 1 .. Len(q) : (p \o q)[Len(p) + i] = q[i]
    OBVIOUS
  <2>2. QED  BY <1>7, <2>1
<1>9. ToSet(p) \cap T = {}
  <2>1. \A i \in 1 .. Len(p) : p[i] \notin T
    BY <1>1, <1>4, <1>7, <1>8
  <2>2. QED  BY <2>1 DEF ToSet
<1>10. ToSet(q) \subseteq T
  <2>1. ASSUME NEW i \in 1 .. Len(q) PROVE q[i] \in T
    <3>1. k + i \in 1 .. n /\ k + i > k
      BY <1>3, <1>7, <1>8
    <3>2. s[k + i] \in T
      BY <1>5, <3>1
    <3>3. QED  BY <1>7, <1>8, <3>2
  <2>2. QED  BY <2>1 DEF ToSet
<1>11. Within(p, T) = <<>> /\ Within(q, T) = q
  BY <1>9, <1>10, WithinNone, WithinSame
<1>12. Within(p \o q, T) = Within(p, T) \o Within(q, T)
  BY WithinConcat
<1>13. <<>> \o q = q
  OBVIOUS
<1>14. Within(s, T) = q
  BY <1>7, <1>11, <1>12, <1>13
<1>15. QED  BY <1>4, <1>7, <1>14

LEMMA RiseFacts ==
    ASSUME NEW a \in Nat, NEW b \in Nat, NEW c \in Nat
    PROVE  /\ Rise(a, b) \in Nat
           /\ Rise(a, c) <= Rise(a, b) + Rise(b, c)
           /\ c >= b /\ ~(b < a /\ c >= a) => Rise(a, c) = Rise(a, b) + Rise(b, c)
           /\ c < b => Rise(b, c) = c
           /\ Rise(a, 0) = 0
BY DEF Rise

LEMMA RiseIsNat == \A a, b \in Nat : Rise(a, b) \in Nat
BY DEF Rise

LEMMA TimelineFacts ==
    ASSUME NEW n \in Int, NEW s \in Timelines(n)
    PROVE  /\ s \in Seq(Sample) /\ Len(s) \in Nat
           /\ \A i \in 1 .. Len(s) : s[i] \in Sample /\ s[i].ts \in Nat /\ s[i].ts <= n
           /\ \A i, j \in 1 .. Len(s) : i < j => s[i].ts < s[j].ts
           /\ s # <<>> => Last(s) = s[Len(s)] /\ Len(s) \in 1 .. Len(s)
<1>1. s \in Seq(Sample) /\ Sorted(s, Earlier) /\ \A x \in ToSet(s) : x.ts <= n
  BY DEF Timelines
<1>2. \A i \in 1 .. Len(s) : s[i] \in Sample /\ s[i] \in ToSet(s)
  BY <1>1 DEF ToSet
<1>3. \A i \in 1 .. Len(s) : s[i].ts \in Nat /\ s[i].ts <= n
  BY <1>1, <1>2 DEF Sample
<1>4. ASSUME NEW i \in 1 .. Len(s), NEW j \in 1 .. Len(s), i < j
      PROVE  s[i].ts < s[j].ts
  <2>1. j \in i + 1 .. Len(s)
    BY <1>4
  <2>2. <<s[i], s[j]>> \in Earlier
    BY <1>1, <2>1 DEF Sorted
  <2>3. QED  BY <2>2 DEF Earlier
<1>5. Len(s) \in Nat /\ (s # <<>> => Last(s) = s[Len(s)] /\ Len(s) \in 1 .. Len(s))
  BY <1>1 DEF Last
<1>6. QED  BY <1>1, <1>2, <1>3, <1>4, <1>5

Older(s, v) == IF Provisional(s, v) THEN Front(s) ELSE s

(* Overwriting the newest sample loses a rise only if it masks a reset.     *)
LEMMA OlderRises ==
    ASSUME NEW s \in Seq(Sample), NEW v \in Nat
    PROVE  LET older == Older(s, v)
           IN  /\ older \in Seq(Sample)
               /\ IF Provisional(s, v) THEN Len(older) = Len(s) - 1 ELSE older = s
               /\ \A j \in 1 .. Len(older) :
                     /\ older[j] = s[j]
                     /\ RiseFrom(older, j) + Rise(Last(older).v, v)
                          <= RiseFrom(s, j) + Rise(Last(s).v, v)
                     /\ ~Masks(s, v) =>
                          RiseFrom(older, j) + Rise(Last(older).v, v)
                            = RiseFrom(s, j) + Rise(Last(s).v, v)
<1> DEFINE older == Older(s, v)
           n == Len(s)
<1>1. \A t \in Seq(Sample) : \A j \in 1 .. Len(t) : RiseFrom(t, j) \in Nat
  <2>1. ASSUME NEW t \in Seq(Sample), NEW j \in 1 .. Len(t) PROVE RiseFrom(t, j) \in Nat
    <3>1. Rest(t, j) \in Seq(Sample)
      BY DEF Rest
    <3>2. QED  BY <3>1, SumIsNat DEF RiseFrom
  <2>2. QED  BY <2>1
<1>2. \A t \in Seq(Sample) :
         t # <<>> => Last(t) = t[Len(t)] /\ Last(t) \in Sample /\ Last(t).v \in Nat
  <2>1. \A t \in Seq(Sample) : t # <<>> => Last(t) = t[Len(t)] /\ t[Len(t)] \in Sample
    BY DEF Last
  <2>2. \A x \in Sample : x.v \in Nat
    BY HistoryConstants DEF Sample
  <2>3. QED  BY <2>1, <2>2
<1>3. CASE ~Provisional(s, v)
  <2>1. older = s
    BY <1>3 DEF Older
  <2>2. ASSUME NEW j \in 1 .. Len(s)
        PROVE  RiseFrom(s, j) + Rise(Last(s).v, v) \in Nat
    <3>1. s # <<>> /\ RiseFrom(s, j) \in Nat
      BY <1>1
    <3>2. Last(s).v \in Nat
      BY <1>2, <3>1
    <3>3. Rise(Last(s).v, v) \in Nat
      BY <3>2, RiseIsNat
    <3>4. \A k, l \in Nat : k + l \in Nat
      OBVIOUS
    <3>5. QED  BY <3>1, <3>3, <3>4, Zenon
  <2> HIDE DEF older
  <2>3. \A k \in Nat : k <= k
    OBVIOUS
  <2>4. QED  BY <1>3, <2>1, <2>2, <2>3, Zenon DEF older
<1>4. CASE Provisional(s, v)
  <2>1. older = Front(s) /\ n >= 2 /\ n \in Nat /\ v >= Last(s).v
    BY <1>4 DEF Older, Provisional
  <2>2. s # <<>>
    BY <2>1
  <2> DEFINE x == Last(s)
             y == Last(older)
  <2>3. older \in Seq(Sample) /\ x \in Sample /\ s = older \o <<x>> /\ x.v \in Nat
    BY <1>2, <2>1, <2>2, FrontAndLast
  <2> HIDE DEF older, x
  <2>4. s = Append(older, x)
    BY <2>3, AppendedIs
  <2>5. Len(older) = n - 1 /\ Len(older) \in Nat
    BY <2>3, <2>4
  <2>6. older # <<>>
    BY <2>1, <2>5
  <2>7. y = older[n - 1] /\ y.v \in Nat
    BY <1>2, <2>3, <2>5, <2>6
  <2>8. \A j \in 1 .. Len(older) : older[j] = s[j]
    BY <2>3, <2>4
  <2>9. y = s[n - 1] /\ x = s[n]
    <3>1. n - 1 \in 1 .. Len(older)
      BY <2>1, <2>5
    <3>2. QED  BY <2>7, <2>8, <3>1 DEF x, Last
  <2>10. Masks(s, v) <=> x.v < y.v /\ v >= y.v
    BY <1>4, <2>9 DEF Masks
  <2> HIDE DEF y
  <2>11. \A j \in 1 .. Len(older) : RiseFrom(s, j) = RiseFrom(older, j) + Rise(y.v, x.v)
    BY <2>3, <2>4, RiseFromAppend DEF y
  <2>12. /\ Rise(y.v, x.v) \in Nat /\ Rise(x.v, v) \in Nat /\ Rise(y.v, v) \in Nat
         /\ Rise(y.v, v) <= Rise(y.v, x.v) + Rise(x.v, v)
         /\ ~Masks(s, v) => Rise(y.v, v) = Rise(y.v, x.v) + Rise(x.v, v)
    <3>1. v >= x.v
      BY <2>1 DEF x
    <3>2. QED  BY <2>3, <2>7, <2>10, <3>1, RiseFacts
  <2>13. ASSUME NEW j \in 1 .. Len(older)
         PROVE  /\ RiseFrom(older, j) + Rise(y.v, v) <= RiseFrom(s, j) + Rise(x.v, v)
                /\ ~Masks(s, v) =>
                      RiseFrom(older, j) + Rise(y.v, v) = RiseFrom(s, j) + Rise(x.v, v)
    <3>1. RiseFrom(older, j) \in Nat
      BY <1>1, <2>3
    <3>2. RiseFrom(s, j) = RiseFrom(older, j) + Rise(y.v, x.v)
      BY <2>11
    <3>3. QED  BY <2>12, <3>1, <3>2
  <2>14. QED  BY <1>4, <2>3, <2>5, <2>8, <2>13, Zenon DEF older, x, y
<1>5. QED  BY <1>3, <1>4

(* What _keep makes of a series. *)
LEMMA SampleKept ==
    ASSUME NEW n \in Int, NEW s \in Timelines(n), now \in Nat, n < now,
           NEW v \in 0 .. MaxTrouble + 1
    PROVE  LET X == WithSample(s, v)
           IN  /\ \A i \in 1 .. Len(X) :
                     \/ X[i].ts = now /\ RiseFrom(X, i) = 0
                     \/ \E j \in 1 .. Len(s) :
                           /\ X[i].ts = s[j].ts
                           /\ RiseFrom(X, i) <= RiseFrom(s, j) + Rise(Last(s).v, v)
                           /\ ~Masks(s, v) =>
                                 RiseFrom(X, i) = RiseFrom(s, j) + Rise(Last(s).v, v)
               /\ \A j \in 1 .. Len(s) :
                     /\ now - s[j].ts <= Day + KeepFor
                     /\ Provisional(s, v) => j < Len(s)
                     => \E i \in 1 .. Len(X) - 1 : X[i].ts = s[j].ts
<1> DEFINE X == WithSample(s, v)
           x == [ts |-> now, v |-> v]
           older == Older(s, v)
           all == Append(older, x)
           T == {y \in ToSet(all) : now - y.ts <= Day + KeepFor}
           m == Len(older)
<1>1. X = Within(all, T)
  BY DEF WithSample, Older
<1>2. x \in Sample /\ x.ts = now /\ x.v = v /\ v \in Nat
  BY HistoryConstants DEF Sample
<1>3. older \in Timelines(n)
  <2>1. Provisional(s, v) => s # <<>>
    BY DEF Provisional
  <2>2. QED  BY <2>1, FrontTimes DEF Older
<1>4. s \in Seq(Sample) /\ Len(s) \in Nat
  BY TimelineFacts
<1>5. /\ IF Provisional(s, v) THEN m = Len(s) - 1 ELSE older = s
      /\ \A j \in 1 .. m :
            /\ older[j] = s[j]
            /\ RiseFrom(older, j) + Rise(Last(older).v, v)
                 <= RiseFrom(s, j) + Rise(Last(s).v, v)
            /\ ~Masks(s, v) =>
                 RiseFrom(older, j) + Rise(Last(older).v, v)
                   = RiseFrom(s, j) + Rise(Last(s).v, v)
  BY <1>2, <1>4, OlderRises, Zenon
<1> HIDE DEF older, x, X
<1>6. older \in Seq(Sample) /\ m \in Nat
  BY <1>3, TimelineFacts
<1>7. all \in Timelines(now)
  <2>1. older \o <<x>> \in Timelines(now)
    BY <1>2, <1>3, SampleBehind
  <2>2. QED  BY <1>2, <1>6, <2>1, AppendedIs
<1>8. /\ Len(all) = m + 1 /\ all[m + 1] = x
      /\ \A j \in 1 .. m : all[j] = older[j]
  BY <1>2, <1>6
<1>9. /\ \A j \in 1 .. m : RiseFrom(all, j) = RiseFrom(older, j) + Rise(Last(older).v, v)
      /\ RiseFrom(all, m + 1) = 0
  BY <1>2, <1>6, RiseFromAppend
<1> HIDE DEF all
<1>10. /\ all \in Seq(Sample)
       /\ \A i \in 1 .. m + 1 : all[i].ts \in Nat /\ all[i] \in ToSet(all)
       /\ \A i, j \in 1 .. m + 1 : i < j => all[i].ts < all[j].ts
  <2>1. /\ all \in Seq(Sample)
        /\ \A i \in 1 .. Len(all) : all[i] \in Sample /\ all[i].ts \in Nat
        /\ \A i, j \in 1 .. Len(all) : i < j => all[i].ts < all[j].ts
    BY <1>7, TimelineFacts
  <2>2. \A i \in 1 .. Len(all) : all[i] \in ToSet(all)
    BY <2>1 DEF ToSet
  <2>3. QED  BY <1>8, <2>1, <2>2
<1>11. \A i \in 1 .. m + 1 : all[i] \in T <=> now - all[i].ts <= Day + KeepFor
  BY <1>10
<1>12. Day \in Nat /\ KeepFor \in Nat
  BY HistoryConstants
<1> HIDE DEF T, m
<1>13. \A i \in 1 .. Len(all) : \A j \in i + 1 .. Len(all) : all[i] \in T => all[j] \in T
  <2>1. SUFFICES ASSUME NEW i \in 1 .. m + 1, NEW j \in i + 1 .. m + 1, all[i] \in T
                 PROVE  all[j] \in T
    BY <1>8
  <2>2. j \in 1 .. m + 1 /\ i < j
    OBVIOUS
  <2>3. all[i].ts < all[j].ts /\ all[i].ts \in Nat /\ all[j].ts \in Nat
    BY <1>10, <2>2
  <2>4. QED  BY <1>11, <1>12, <2>1, <2>2, <2>3
<1>14. PICK p \in Seq(Sample) : \E q \in Seq(Sample) :
              /\ all = p \o q /\ Within(all, T) = q
              /\ \A i \in 1 .. Len(all) : all[i] \in T => i > Len(p)
  BY <1>10, <1>13, WithinRest
<1>15. PICK q \in Seq(Sample) :
              /\ all = p \o q /\ Within(all, T) = q
              /\ \A i \in 1 .. Len(all) : all[i] \in T => i > Len(p)
  BY <1>14
<1>16. X = q
  BY <1>1, <1>15
<1>17. Len(p) \in Nat /\ Len(q) \in Nat /\ m + 1 = Len(p) + Len(q)
  <2>1. Len(p \o q) = Len(p) + Len(q) /\ Len(p) \in Nat /\ Len(q) \in Nat
    OBVIOUS
  <2>2. QED  BY <1>8, <1>15, <2>1
<1>18. \A i \in 1 .. Len(q) : /\ q[i] = all[Len(p) + i]
                              /\ RiseFrom(q, i) = RiseFrom(all, Len(p) + i)
  <2>1. ASSUME NEW i \in 1 .. Len(q)
        PROVE  q[i] = all[Len(p) + i] /\ RiseFrom(q, i) = RiseFrom(all, Len(p) + i)
    <3>1. q[i] = (p \o q)[Len(p) + i] /\ Rest(q, i) = Rest(p \o q, Len(p) + i)
      BY RestOfPart
    <3>2. QED  BY <1>15, <3>1 DEF RiseFrom
  <2>2. QED  BY <2>1
<1>19. ASSUME NEW i \in 1 .. Len(q)
       PROVE  \/ q[i].ts = now /\ RiseFrom(q, i) = 0
              \/ \E j \in 1 .. Len(s) :
                    /\ q[i].ts = s[j].ts
                    /\ RiseFrom(q, i) <= RiseFrom(s, j) + Rise(Last(s).v, v)
                    /\ ~Masks(s, v) =>
                          RiseFrom(q, i) = RiseFrom(s, j) + Rise(Last(s).v, v)
  <2> DEFINE j == Len(p) + i
  <2>1. j \in 1 .. m + 1 /\ q[i] = all[j] /\ RiseFrom(q, i) = RiseFrom(all, j)
    BY <1>17, <1>18
  <2>2. CASE j = m + 1
    BY <1>2, <1>8, <1>9, <2>1, <2>2
  <2>3. CASE j # m + 1
    <3>1. j \in 1 .. m
      BY <1>6, <2>1, <2>3 DEF m
    <3>2. j \in 1 .. Len(s)
      BY <1>4, <1>5, <1>6, <3>1 DEF m
    <3> HIDE DEF j
    <3>3. q[i] = s[j]
      BY <1>5, <1>8, <2>1, <3>1
    <3>4. RiseFrom(q, i) = RiseFrom(older, j) + Rise(Last(older).v, v)
      BY <1>9, <2>1, <3>1
    <3>5. QED  BY <1>5, <3>1, <3>2, <3>3, <3>4
  <2>4. QED  BY <2>2, <2>3
<1>20. ASSUME NEW j \in 1 .. Len(s), now - s[j].ts <= Day + KeepFor,
              Provisional(s, v) => j < Len(s)
       PROVE  \E i \in 1 .. Len(q) - 1 : q[i].ts = s[j].ts
  <2>1. j \in 1 .. m
    BY <1>4, <1>5, <1>6, <1>20 DEF m
  <2>2. j \in 1 .. m + 1 /\ all[j] = s[j]
    BY <1>5, <1>6, <1>8, <2>1 DEF m
  <2>3. j > Len(p)
    BY <1>8, <1>11, <1>15, <1>20, <2>2
  <2>4. j - Len(p) \in 1 .. Len(q) - 1 /\ j - Len(p) \in 1 .. Len(q) /\ Len(p) + (j - Len(p)) = j
    BY <1>6, <1>17, <2>1, <2>3 DEF m
  <2>5. q[j - Len(p)] = s[j]
    BY <1>18, <2>2, <2>4
  <2>6. QED  BY <2>4, <2>5
<1>21. QED  BY <1>16, <1>19, <1>20, Zenon DEF X

(* The delta is what the series rises from the first sample of the day on.  *)
LEMMA DeltaFacts ==
    ASSUME now \in Nat, NEW s \in Timelines(now)
    PROVE  /\ (\E i \in 1 .. Len(s) - 1 : now - s[i].ts <= Day) => Delta(s) # None
           /\ Delta(s) # None =>
                 \E k \in 1 .. Len(s) :
                    /\ Delta(s) = RiseFrom(s, k) /\ now - s[k].ts <= Day
                    /\ \A i \in 1 .. Len(s) : now - s[i].ts <= Day => k <= i
<1> DEFINE T == {x \in ToSet(s) : now - x.ts <= Day}
           n == Len(s)
<1>1. /\ s \in Seq(Sample) /\ n \in Nat
      /\ \A i \in 1 .. n : s[i].ts \in Nat /\ s[i].ts <= now
      /\ \A i, j \in 1 .. n : i < j => s[i].ts < s[j].ts
  BY TimelineFacts
<1>2. \A i \in 1 .. n : s[i] \in T <=> now - s[i].ts <= Day
  BY <1>1 DEF ToSet
<1>3. Day \in Nat
  BY HistoryConstants
<1>4. Delta(s) = IF Len(Within(s, T)) < 2 THEN None ELSE SumOfRises(Within(s, T))
  BY DEF Delta
<1> HIDE DEF T, n
<1>5. \A i \in 1 .. Len(s) : \A j \in i + 1 .. Len(s) : s[i] \in T => s[j] \in T
  <2>1. SUFFICES ASSUME NEW i \in 1 .. n, NEW j \in i + 1 .. n, s[i] \in T
                 PROVE  s[j] \in T
    BY DEF n
  <2>2. j \in 1 .. n /\ i < j
    BY <1>1
  <2>3. s[i].ts < s[j].ts /\ s[i].ts \in Nat /\ s[j].ts \in Nat
    BY <1>1, <2>2
  <2>4. QED  BY <1>1, <1>2, <1>3, <2>1, <2>2, <2>3
<1>6. PICK p \in Seq(Sample) : \E q \in Seq(Sample) :
              /\ s = p \o q /\ Within(s, T) = q
              /\ \A i \in 1 .. Len(s) : s[i] \in T => i > Len(p)
  BY <1>1, <1>5, WithinRest
<1>7. PICK q \in Seq(Sample) :
              /\ s = p \o q /\ Within(s, T) = q
              /\ \A i \in 1 .. Len(s) : s[i] \in T => i > Len(p)
  BY <1>6
<1>8. Len(p) \in Nat /\ Len(q) \in Nat /\ n = Len(p) + Len(q)
  <2>1. Len(p \o q) = Len(p) + Len(q) /\ Len(p) \in Nat /\ Len(q) \in Nat
    OBVIOUS
  <2>2. QED  BY <1>7, <2>1 DEF n
<1>9. Delta(s) = IF Len(q) < 2 THEN None ELSE SumOfRises(q)
  BY <1>4, <1>7
<1>10. SumOfRises(q) # None
  BY SumIsNat, HistoryConstants
<1>11. ASSUME NEW i \in 1 .. n - 1, now - s[i].ts <= Day PROVE Delta(s) # None
  <2>1. i \in 1 .. n /\ s[i] \in T
    BY <1>1, <1>2, <1>11
  <2>2. i > Len(p)
    BY <1>7, <2>1 DEF n
  <2>3. Len(q) >= 2
    BY <1>1, <1>8, <2>2
  <2>4. ~(Len(q) < 2)
    BY <1>8, <2>3
  <2>5. QED  BY <1>9, <1>10, <2>4
<1>12. ASSUME Delta(s) # None
       PROVE  \E k \in 1 .. n :
                 /\ Delta(s) = RiseFrom(s, k) /\ now - s[k].ts <= Day
                 /\ \A i \in 1 .. n : now - s[i].ts <= Day => k <= i
  <2> DEFINE k == Len(p) + 1
  <2>1. Len(q) >= 2 /\ 1 \in 1 .. Len(q) /\ Delta(s) = SumOfRises(q)
    BY <1>8, <1>9, <1>12
  <2>2. q[1] = s[k] /\ Rest(q, 1) = Rest(s, k) /\ k \in 1 .. n
    BY <1>7, <2>1, RestOfPart DEF n
  <2>3. Rest(q, 1) = q
    BY DEF Rest
  <2>4. q[1] \in T
    <3>1. ToSet(q) \subseteq T
      <4>1. ToSet(Within(s, T)) = ToSet(s) \cap T
        BY <1>1, WithinFacts
      <4>2. QED  BY <1>7, <4>1
    <3>2. QED  BY <2>1, <3>1 DEF ToSet
  <2>5. \A i \in 1 .. n : now - s[i].ts <= Day => k <= i
    <3>1. SUFFICES ASSUME NEW i \in 1 .. n, now - s[i].ts <= Day PROVE k <= i
      OBVIOUS
    <3>2. i > Len(p)
      BY <1>2, <1>7, <3>1 DEF n
    <3>3. QED  BY <1>1, <1>8, <3>2
  <2>6. now - s[k].ts <= Day
    BY <1>2, <2>2, <2>4
  <2>7. Delta(s) = RiseFrom(s, k)
    BY <2>1, <2>2, <2>3 DEF RiseFrom
  <2> HIDE DEF k
  <2>8. QED  BY <2>2, <2>5, <2>6, <2>7
<1>13. QED  BY <1>11, <1>12 DEF n

-----------------------------------------------------------------------------
(* What the log of rises tells of the series.                               *)

RisesSince(R, t) == Total({r \in R : r.from >= t})
WatchedSince(R, t) == Total({r \in R : r.watched /\ r.from >= t})

(* The log is of rises between ticks, no two up to the same one; a process  *)
(* ticks in each unit of time, and starts from the file.                    *)
LogInv ==
    /\ Numbered(rises)
    /\ \A r \in rises : r.from < r.to /\ r.to <= ticked /\ (r.watched => r.n > 0)
    /\ \A r, q \in rises : r.to = q.to => r = q
    /\ last # None => last.ts = ticked /\ now <= ticked + 1
    /\ running /\ last = None => series = file.series
    /\ IF seen = None THEN rises = {} ELSE seen.ts = ticked
    /\ masked # None => masked \in 0 .. ticked

Lost == seen # None /\ Last(series).ts < seen.ts /\ counter < seen.v
Base == IF Lost THEN Last(series) ELSE seen
NewRise == [from |-> Base.ts, to |-> now, n |-> Rise(Base.v, counter), watched |-> last # None]
Copied == [r \in rises |-> [r EXCEPT !.watched = @ /\ (Lost => r.to <= Base.ts)]]
OldRises == {Copied[r] : r \in rises}

LEMMA LoggedIs ==
    Logged(counter) = IF seen = None \/ Rise(seen.v, counter) = 0 THEN OldRises
                      ELSE OldRises \cup {NewRise}
<1>1. OldRises = {[r EXCEPT !.watched = @ /\ (Lost => r.to <= Base.ts)] : r \in rises}
  BY DEF OldRises, Copied
<1>2. QED  BY <1>1, Zenon DEF Logged, Lost, Base, NewRise

LEMMA CopyFacts ==
    ASSUME SamplesSeen, LogInv
    PROVE  /\ \A r \in rises : /\ Copied[r].from = r.from /\ Copied[r].to = r.to
                               /\ Copied[r].n = r.n /\ (Copied[r].watched => r.watched)
                               /\ r.from \in Nat /\ r.to \in Nat /\ r.n \in Nat
                               /\ r.to <= ticked
           /\ \A r, q \in rises : Copied[r] = Copied[q] => r = q
<1>1. \A r \in rises : /\ Copied[r].from = r.from /\ Copied[r].to = r.to
                       /\ Copied[r].n = r.n /\ (Copied[r].watched => r.watched)
                       /\ r.from \in Nat /\ r.to \in Nat /\ r.n \in Nat
                       /\ r.to <= ticked
  BY DEF SamplesSeen, LogInv, Rises, Copied
<1>2. ASSUME NEW r \in rises, NEW q \in rises, Copied[r] = Copied[q] PROVE r = q
  <2>1. r.to = q.to
    BY <1>1, <1>2
  <2>2. QED  BY <2>1 DEF LogInv
<1>3. QED  BY <1>1, <1>2

LEMMA CopyTotals ==
    ASSUME SamplesSeen, LogInv, NEW S, S \subseteq rises
    PROVE  /\ Numbered({Copied[r] : r \in S})
           /\ Total({Copied[r] : r \in S}) = Total(S) /\ Total(S) \in Nat
<1>1. Numbered(S)
  BY NumberedPart DEF LogInv
<1>2. \A r \in S : Copied[r].n = r.n
  BY CopyFacts
<1>3. \A r, q \in S : Copied[r] = Copied[q] => r = q
  BY CopyFacts
<1>4. QED  BY <1>1, <1>2, <1>3, TotalCopied, TotalType

(* The base and the new rise. *)
LEMMA NewRiseFacts ==
    ASSUME HistoryTypes, SamplesSeen, LogInv, Tick, seen # None
    PROVE  /\ series # <<>> /\ Last(series) \in Sample /\ Last(series).v \in Nat
           /\ Last(series).ts \in Nat /\ Last(series).ts <= ticked
           /\ seen.v \in Nat /\ seen.ts \in Nat /\ seen.ts = ticked /\ counter \in Nat
           /\ NewRise.n = Rise(Base.v, counter) /\ NewRise.n \in Nat
           /\ NewRise.from = Base.ts /\ Base.ts \in Nat /\ Base.ts <= ticked
           /\ NewRise.to = now /\ (NewRise.watched <=> last # None)
           /\ Lost => Base = Last(series) /\ Last(series).ts < seen.ts /\ counter < seen.v
           /\ ~Lost => Base = seen
           /\ last # None => ~Lost /\ last = seen
           /\ NewRise \notin OldRises
<1>1. running /\ now \in Nat /\ ticked < now /\ counter \in Nat
  BY TickFacts, HistoryConstants DEF HistoryTypes
<1>2. series \in Timelines(ticked) /\ ticked \in Int
  BY DEF HistoryTypes
<1>3. series # <<>>
  BY <1>1 DEF SamplesSeen
<1>4. Last(series) \in Sample /\ Last(series).ts \in Nat /\ Last(series).ts <= ticked
  BY <1>2, <1>3, TimelineFacts
<1>5. seen \in Sample /\ seen.ts = ticked
  BY DEF HistoryTypes, LogInv
<1>6. \A x \in Sample : x.v \in Nat /\ x.ts \in Nat
  BY HistoryConstants DEF Sample
<1>7. Last(series).v \in Nat /\ seen.v \in Nat /\ seen.ts \in Nat
  BY <1>4, <1>5, <1>6
<1>8. /\ Lost => Base = Last(series) /\ Last(series).ts < seen.ts /\ counter < seen.v
      /\ ~Lost => Base = seen
  BY DEF Lost, Base
<1>9. Base.ts \in Nat /\ Base.ts <= ticked /\ Base.v \in Nat
  BY <1>2, <1>4, <1>5, <1>7, <1>8
<1>10. last # None => ~Lost /\ last = seen
  <2>1. last # None => last = seen /\ Last(series) = last
    BY DEF SamplesSeen
  <2>2. ~(seen.ts < seen.ts)
    BY <1>7
  <2>3. QED  BY <1>8, <2>1, <2>2
<1>11. /\ NewRise.n = Rise(Base.v, counter) /\ NewRise.from = Base.ts
       /\ NewRise.to = now /\ (NewRise.watched <=> last # None)
  BY DEF NewRise
<1>12. NewRise.n \in Nat
  BY <1>1, <1>9, <1>11, RiseIsNat
<1>13. NewRise \notin OldRises
  <2>1. ASSUME NEW r \in rises PROVE NewRise # Copied[r]
    <3>1. Copied[r].to \in Nat /\ Copied[r].to <= ticked
      BY CopyFacts
    <3>2. QED  BY <1>1, <1>2, <1>11, <3>1
  <2>2. QED  BY <2>1 DEF OldRises
<1>14. QED
  BY <1>1, <1>3, <1>4, <1>5, <1>7, <1>8, <1>9, <1>10, <1>11, <1>12, <1>13

LEMMA LogTotals ==
    ASSUME HistoryTypes, SamplesSeen, LogInv, Tick, seen # None, NEW t \in Nat
    PROVE  /\ Numbered(rises')
           /\ RisesSince(rises, t) \in Nat /\ RisesSince(rises', t) \in Nat
           /\ WatchedSince(rises, t) \in Nat /\ WatchedSince(rises', t) \in Nat
           /\ RisesSince(rises, t) <= RisesSince(rises', t)
           /\ t <= Base.ts /\ Rise(seen.v, counter) # 0 =>
                 RisesSince(rises, t) + Rise(Base.v, counter) <= RisesSince(rises', t)
           /\ last = None => WatchedSince(rises', t) <= WatchedSince(rises, t)
           /\ last # None => WatchedSince(rises', t)
                                <= WatchedSince(rises, t) + Rise(last.v, counter)
           /\ now <= t => WatchedSince(rises', t) = 0
<1> DEFINE rose == Rise(seen.v, counter) # 0
           A == {r \in rises : r.from >= t}
           B == {r \in rises : r.watched /\ r.from >= t}
           CA == {Copied[r] : r \in A}
           CB == {Copied[r] : r \in B}
           A2 == {r \in rises' : r.from >= t}
           B2 == {r \in rises' : r.watched /\ r.from >= t}
<1>1. rises' = IF ~rose THEN OldRises ELSE OldRises \cup {NewRise}
  BY TickFacts, LoggedIs
<1>2. /\ NewRise.n = Rise(Base.v, counter) /\ NewRise.n \in Nat
      /\ NewRise.from = Base.ts /\ Base.ts \in Nat /\ Base.ts <= ticked
      /\ (NewRise.watched <=> last # None)
      /\ ~Lost => Base = seen
      /\ last # None => ~Lost /\ last = seen
      /\ NewRise \notin OldRises
  BY NewRiseFacts
<1>3. now \in Nat /\ ticked \in Int /\ ticked < now
  BY TickFacts DEF HistoryTypes
<1>4. /\ \A r \in rises : /\ Copied[r].from = r.from /\ Copied[r].to = r.to
                          /\ Copied[r].n = r.n /\ (Copied[r].watched => r.watched)
                          /\ r.from \in Nat /\ r.to \in Nat /\ r.n \in Nat
                          /\ r.to <= ticked
  BY CopyFacts
<1>5. Numbered(OldRises)
  BY CopyTotals DEF OldRises
<1> HIDE DEF rose
<1>6. Numbered(rises')
  <2>1. Numbered(OldRises \cup {NewRise})
    BY <1>2, <1>5, TotalPlus
  <2>2. QED  BY <1>1, <1>5, <2>1
<1>7. /\ Numbered(CA) /\ Total(CA) = Total(A) /\ Total(A) \in Nat
      /\ Numbered(CB) /\ Total(CB) = Total(B) /\ Total(B) \in Nat
  <2>1. A \subseteq rises /\ B \subseteq rises
    OBVIOUS
  <2> HIDE DEF A, B
  <2>2. QED  BY <2>1, CopyTotals
<1>8. /\ Numbered(A2) /\ Total(A2) \in Nat
      /\ Numbered(B2) /\ Total(B2) \in Nat
  <2>1. A2 \subseteq rises' /\ B2 \subseteq rises'
    OBVIOUS
  <2> HIDE DEF A2, B2
  <2>2. QED  BY <1>6, <2>1, NumberedPart, TotalType
<1>9. CA \subseteq A2 /\ CA \subseteq OldRises
  <2>1. \A r \in A : Copied[r] \in OldRises /\ Copied[r].from >= t
    BY <1>4 DEF OldRises
  <2>2. OldRises \subseteq rises'
    BY <1>1
  <2>3. QED  BY <2>1, <2>2
<1>10. B2 \subseteq CB \cup (IF rose /\ last # None THEN {NewRise} ELSE {})
  <2>1. ASSUME NEW r \in B2, r \in OldRises PROVE r \in CB
    <3>1. PICK q \in rises : r = Copied[q]
      BY <2>1 DEF OldRises
    <3>2. q \in B
      BY <1>4, <2>1, <3>1
    <3>3. QED  BY <3>1, <3>2
  <2>2. ASSUME NEW r \in B2, r \notin OldRises PROVE r = NewRise /\ rose /\ last # None
    BY <1>1, <1>2, <2>2
  <2>3. QED  BY <2>1, <2>2
<1>11. NewRise \notin CA /\ NewRise \notin CB
  BY <1>2 DEF OldRises
<1>12. t <= Base.ts /\ rose => NewRise \in A2
  BY <1>1, <1>2
<1>13. now <= t => B2 = {}
  <2>1. SUFFICES ASSUME now <= t, NEW r \in rises' PROVE ~(r.from >= t)
    OBVIOUS
  <2>2. CASE r \in OldRises
    <3>1. PICK q \in rises : r = Copied[q]
      BY <2>2 DEF OldRises
    <3>2. q.from < q.to
      BY DEF LogInv
    <3>3. QED  BY <1>3, <1>4, <2>1, <3>1, <3>2
  <2>3. CASE r = NewRise
    BY <1>2, <1>3, <2>1, <2>3
  <2>4. QED  BY <1>1, <2>2, <2>3
<1> HIDE DEF A, B, CA, CB, A2, B2
<1>14. Total(A) <= Total(A2)
  <2>1. Total(CA) <= Total(A2)
    BY <1>8, <1>9, TotalPart
  <2>2. QED  BY <1>7, <2>1
<1>15. ASSUME t <= Base.ts, rose
       PROVE  Total(A) + Rise(Base.v, counter) <= Total(A2)
  <2>1. Total(CA \cup {NewRise}) = Total(CA) + NewRise.n
    BY <1>2, <1>7, <1>11, TotalPlus
  <2>2. CA \cup {NewRise} \subseteq A2
    BY <1>9, <1>12, <1>15
  <2>3. Total(CA \cup {NewRise}) <= Total(A2)
    BY <1>8, <2>2, TotalPart
  <2>4. QED  BY <1>2, <1>7, <2>1, <2>3
<1>16. ASSUME ~(rose /\ last # None) PROVE Total(B2) <= Total(B)
  <2>1. B2 \subseteq CB
    BY <1>10, <1>16
  <2>2. Total(B2) <= Total(CB)
    BY <1>7, <2>1, TotalPart
  <2>3. QED  BY <1>7, <2>2
<1>17. ASSUME rose, last # None PROVE Total(B2) <= Total(B) + Rise(last.v, counter)
  <2>1. Numbered(CB \cup {NewRise}) /\ Total(CB \cup {NewRise}) = Total(CB) + NewRise.n
    BY <1>2, <1>7, <1>11, TotalPlus
  <2>2. B2 \subseteq CB \cup {NewRise}
    BY <1>10
  <2>3. Total(B2) <= Total(CB \cup {NewRise})
    BY <2>1, <2>2, TotalPart
  <2>4. NewRise.n = Rise(last.v, counter)
    BY <1>2, <1>17
  <2>5. QED  BY <1>7, <2>1, <2>3, <2>4
<1>18. ASSUME last # None PROVE Total(B2) <= Total(B) + Rise(last.v, counter)
  <2>1. last = seen /\ last.v \in Nat /\ counter \in Nat
    BY <1>18, NewRiseFacts
  <2>2. Rise(last.v, counter) \in Nat
    BY <2>1, RiseIsNat
  <2>3. \A a, b, c \in Nat : a <= b => a <= b + c
    OBVIOUS
  <2>4. ~rose => Total(B2) <= Total(B) + Rise(last.v, counter)
    BY <1>7, <1>8, <1>16, <2>2, <2>3
  <2>5. QED  BY <1>17, <1>18, <2>4
<1>19. now <= t => Total(B2) = 0
  BY <1>13, TotalChosen, FS_EmptySet
<1>20. RisesSince(rises, t) = Total(A) /\ WatchedSince(rises, t) = Total(B)
  BY DEF RisesSince, WatchedSince, A, B
<1>21. RisesSince(rises', t) = Total(A2) /\ WatchedSince(rises', t) = Total(B2)
  BY DEF RisesSince, WatchedSince, A2, B2
<1>22. QED
  BY <1>6, <1>7, <1>8, <1>14, <1>15, <1>16, <1>18, <1>19, <1>20, <1>21, Zenon DEF rose

(* The log stays one. *)
LEMMA LogTick ==
    ASSUME HistoryTypes, SamplesSeen, LogInv, Tick
    PROVE  LogInv'
<1>1. /\ running /\ now \in Nat /\ ticked \in Int /\ ticked < now /\ ticked' = now /\ now' = now
      /\ last' = [ts |-> now, v |-> counter] /\ seen' = last' /\ running' = running
      /\ last' # None
  <2>1. \A x \in Sample : x \in [ts : Nat, v : Nat]
    BY HistoryConstants DEF Sample
  <2>2. QED  BY <2>1, TickFacts, HistoryConstants DEF HistoryTypes
<1>2. rises' = IF seen = None \/ Rise(seen.v, counter) = 0 THEN OldRises
               ELSE OldRises \cup {NewRise}
  BY TickFacts, LoggedIs
<1>3. ASSUME NEW r \in OldRises
      PROVE  /\ \E q \in rises : r = Copied[q] /\ r.to = q.to
             /\ r.from < r.to /\ r.to \in Nat /\ r.to <= ticked /\ (r.watched => r.n > 0)
  <2>1. PICK q \in rises : r = Copied[q]
    BY DEF OldRises
  <2>2. q.from < q.to /\ q.to <= ticked /\ (q.watched => q.n > 0)
    BY DEF LogInv
  <2>3. QED  BY <2>1, <2>2, CopyFacts
<1>4. ASSUME seen # None, Rise(seen.v, counter) # 0
      PROVE  /\ NewRise.from < NewRise.to /\ NewRise.to = now
             /\ NewRise.watched => NewRise.n > 0
  <2>1. /\ NewRise.n = Rise(Base.v, counter) /\ NewRise.n \in Nat
        /\ NewRise.from = Base.ts /\ Base.ts \in Nat /\ Base.ts <= ticked
        /\ NewRise.to = now /\ (NewRise.watched <=> last # None)
        /\ ~Lost => Base = seen
        /\ last # None => ~Lost /\ last = seen
    BY <1>4, NewRiseFacts
  <2>2. NewRise.watched => NewRise.n # 0
    BY <1>4, <2>1
  <2>3. QED  BY <1>1, <2>1, <2>2
<1>5. \A r \in rises' : /\ r.from < r.to /\ r.to <= ticked' /\ (r.watched => r.n > 0)
  BY <1>1, <1>2, <1>3, <1>4
<1>6. \A r, q \in rises' : r.to = q.to => r = q
  <2>1. \A r, q \in OldRises : r.to = q.to => r = q
    <3>1. SUFFICES ASSUME NEW r \in OldRises, NEW q \in OldRises, r.to = q.to PROVE r = q
      OBVIOUS
    <3>2. PICK a \in rises : r = Copied[a] /\ r.to = a.to
      BY <1>3
    <3>3. PICK b \in rises : q = Copied[b] /\ q.to = b.to
      BY <1>3
    <3>4. a = b
      BY <3>1, <3>2, <3>3 DEF LogInv
    <3>5. QED  BY <3>2, <3>3, <3>4
  <2>2. \A r \in OldRises : r.to # now
    BY <1>1, <1>3
  <2>3. QED  BY <1>2, <1>4, <2>1, <2>2
<1>7. Numbered(rises')
  <2>1. CASE seen = None
    BY <1>2, <2>1, CopyTotals DEF OldRises
  <2>2. CASE seen # None
    <3>1. 0 \in Nat
      OBVIOUS
    <3>2. QED  BY <2>2, <3>1, LogTotals
  <2>3. QED  BY <2>1, <2>2
<1>8. masked' # None => masked' \in 0 .. ticked'
  <2>1. masked' = now \/ masked' = masked
    BY DEF Tick
  <2>2. masked # None => masked \in 0 .. ticked
    BY DEF LogInv
  <2>3. QED  BY <1>1, <2>1, <2>2
<1>9. last'.ts = ticked' /\ now' <= ticked' + 1 /\ seen' # None /\ seen'.ts = ticked'
  BY <1>1
<1>10. QED  BY <1>1, <1>5, <1>6, <1>7, <1>8, <1>9 DEF LogInv

-----------------------------------------------------------------------------
(* The series against the log, from any of its samples on.                 *)

(* From each sample on, a series and the latest sample of all rise no more  *)
(* than the log,                                                            *)
NotMore(s, v, R) ==
    \A i \in 1 .. Len(s) : RiseFrom(s, i) + Rise(Last(s).v, v) <= RisesSince(R, s[i].ts)

(* and a series no less than the watched rises, if no reset since is masked.*)
NotLess(s, m, R) ==
    \A i \in 1 .. Len(s) :
        m = None \/ m < s[i].ts => WatchedSince(R, s[i].ts) <= RiseFrom(s, i)

(* A series has a sample not far before each watched rise since time t.     *)
Dense(s, t, R) ==
    \A r \in R : r.watched /\ t <= r.from =>
        \E j \in 1 .. Len(s) - 1 : r.from - KeepFor <= s[j].ts /\ s[j].ts <= r.from

SeriesInv ==
    /\ seen # None => /\ NotMore(series, seen.v, rises)
                      /\ NotMore(file.series, seen.v, rises)
    /\ NotLess(series, masked, rises) /\ NotLess(file.series, masked, rises)
    /\ running => Dense(series, ticked - Day + KeepFor, rises)
    /\ Dense(file.series, ticked - Day + KeepFor, rises)

(* Where the watched rises come from. *)
LEMMA WatchedFrom ==
    ASSUME HistoryTypes, SamplesSeen, LogInv, Tick, NEW r \in rises', r.watched
    PROVE  /\ r.from \in Nat /\ r.to \in Nat
           /\ \/ \E q \in rises : q.watched /\ q.from = r.from /\ q.to = r.to /\ q.n = r.n
              \/ /\ last # None /\ r.from = last.ts /\ r.to = now
                 /\ Rise(last.v, counter) # 0
<1>1. rises' = IF seen = None \/ Rise(seen.v, counter) = 0 THEN OldRises
               ELSE OldRises \cup {NewRise}
  BY TickFacts, LoggedIs
<1>2. CASE r \in OldRises
  <2>1. PICK q \in rises : r = Copied[q]
    BY <1>2 DEF OldRises
  <2>2. QED  BY <2>1, CopyFacts
<1>3. CASE r \notin OldRises
  <2>1. seen # None /\ r = NewRise /\ Rise(seen.v, counter) # 0
    BY <1>1, <1>3
  <2>2. /\ NewRise.from = Base.ts /\ Base.ts \in Nat /\ NewRise.to = now
        /\ (NewRise.watched <=> last # None)
        /\ ~Lost => Base = seen
        /\ last # None => ~Lost /\ last = seen
    BY <2>1, NewRiseFacts
  <2>3. now \in Nat
    BY TickFacts
  <2>4. last # None
    <3>1. NewRise.watched
      BY <2>1
    <3>2. QED  BY <2>2, <3>1, Zenon
  <2>5. r.from = last.ts /\ r.to = now /\ Rise(last.v, counter) # 0
    BY <2>1, <2>2, <2>4
  <2>6. r.from \in Nat /\ r.to \in Nat
    BY <2>1, <2>2, <2>3
  <2>7. QED  BY <2>4, <2>5, <2>6
<1>4. QED  BY <1>2, <1>3

(* What has been counted from t on, the tick counts on. *)
LEMMA CountedOn ==
    ASSUME HistoryTypes, SamplesSeen, LogInv, Tick, seen # None,
           NEW t \in Nat, t <= Base.ts, NEW w \in Nat, Lost => w = Last(series).v,
           NEW x \in Nat, x + Rise(w, seen.v) <= RisesSince(rises, t)
    PROVE  x + Rise(w, counter) <= RisesSince(rises', t)
<1>1. seen.v \in Nat /\ counter \in Nat /\ Base.v \in Nat
  BY NewRiseFacts
<1>2. /\ RisesSince(rises, t) \in Nat /\ RisesSince(rises', t) \in Nat
      /\ RisesSince(rises, t) <= RisesSince(rises', t)
      /\ Rise(seen.v, counter) # 0 =>
            RisesSince(rises, t) + Rise(Base.v, counter) <= RisesSince(rises', t)
  BY LogTotals
<1>3. /\ Lost => Base = Last(series) /\ counter < seen.v
      /\ ~Lost => Base = seen
  BY NewRiseFacts
<1> DEFINE a == Rise(w, seen.v)
           b == Rise(seen.v, counter)
           c == Rise(w, counter)
           S == RisesSince(rises, t)
           S2 == RisesSince(rises', t)
<1>4. a \in Nat /\ b \in Nat /\ c \in Nat /\ c <= a + b
  BY <1>1, RiseFacts
<1> HIDE DEF a, b, c, S, S2
<1>5. CASE ~Lost
  <2>1. b # 0 => S + b <= S2
    BY <1>2, <1>3, <1>5 DEF b, S, S2
  <2>2. S \in Nat /\ S2 \in Nat /\ S <= S2 /\ x + a <= S
    BY <1>2 DEF a, S, S2
  <2>3. x + c <= S2
    BY <1>4, <2>1, <2>2
  <2>4. QED  BY <2>3 DEF c, S2
<1>6. CASE Lost
  <2>1. b = counter
    BY <1>1, <1>3, <1>6, RiseFacts DEF b
  <2>2. counter = 0 => c = 0
    BY <1>1, RiseFacts DEF c
  <2>3. Rise(Base.v, counter) = c
    BY <1>3, <1>6 DEF c
  <2>4. b # 0 => S + c <= S2
    BY <1>2, <2>3 DEF b, S, S2
  <2>5. S \in Nat /\ S2 \in Nat /\ S <= S2 /\ x + a <= S
    BY <1>2 DEF a, S, S2
  <2>6. x + c <= S2
    BY <1>4, <2>1, <2>2, <2>4, <2>5
  <2>7. QED  BY <2>6 DEF c, S2
<1>7. QED  BY <1>5, <1>6

LEMMA RiseFromIsNat ==
    ASSUME NEW s \in Seq(Sample), NEW i \in 1 .. Len(s)
    PROVE  RiseFrom(s, i) \in Nat
<1>1. Rest(s, i) \in Seq(Sample)
  BY DEF Rest
<1>2. QED  BY <1>1, SumIsNat DEF RiseFrom

(* A tick that leaves the file alone sees no rise. *)
LEMMA NoRiseUnsaved ==
    ASSUME HistoryTypes, SamplesSeen, LogInv, Tick, NewDrops = 0, last # None
    PROVE  Rise(last.v, counter) = 0
<1>1. last.ts = ticked /\ now <= ticked + 1 /\ now \in Nat /\ ticked \in Int
  BY DEF LogInv, HistoryTypes
<1>2. Hour \in Nat /\ Hour >= 1
  BY HistoryConstants
<1>3. ~(now - last.ts > Hour)
  BY <1>1, <1>2
<1>4. QED  BY <1>3 DEF NewDrops

LEMMA NotMoreTick ==
    ASSUME HistoryTypes, SamplesSeen, LogInv, SeriesInv, Tick
    PROVE  /\ NotMore(series', counter, rises')
           /\ NotMore(file'.series, counter, rises')
<1>1. /\ running /\ now \in Nat /\ ticked \in Int /\ ticked < now
      /\ series' = WithSample(series, counter) /\ series' # <<>>
      /\ Last(series') = [ts |-> now, v |-> counter] /\ series' \in Timelines(now)
      /\ counter \in 0 .. MaxTrouble + 1 /\ counter \in Nat
      /\ file'.series = series' \/ file' = file
      /\ series \in Timelines(ticked) /\ file.series \in Timelines(ticked)
  BY TickFacts, HistoryConstants DEF HistoryTypes
<1>2. \A t \in Nat : RisesSince(rises', t) \in Nat
  <2>1. CASE seen = None
    <3>1. rises = {}
      BY <2>1 DEF LogInv
    <3>2. rises' = {}
      BY <2>1, <3>1, TickFacts, LoggedIs DEF OldRises
    <3>3. \A t : {r \in rises' : r.from >= t} = {}
      BY <3>2
    <3>4. Total({}) = 0
      BY TotalChosen, FS_EmptySet
    <3>5. QED  BY <3>3, <3>4 DEF RisesSince
  <2>2. CASE seen # None
    BY <2>2, LogTotals
  <2>3. QED  BY <2>1, <2>2
<1>3. /\ series \in Seq(Sample) /\ file.series \in Seq(Sample)
      /\ \A j \in 1 .. Len(series) : series[j].ts \in Nat /\ series[j].ts <= ticked
      /\ \A j \in 1 .. Len(file.series) : file.series[j].ts \in Nat /\ file.series[j].ts <= ticked
  BY <1>1, TimelineFacts
<1>4. ASSUME seen # None, NEW j \in 1 .. Len(series)
      PROVE  RiseFrom(series, j) + Rise(Last(series).v, counter)
                <= RisesSince(rises', series[j].ts)
  <2>1. series[j].ts <= Last(series).ts
    <3>1. \A i, k \in 1 .. Len(series) : i < k => series[i].ts < series[k].ts
      BY <1>1, TimelineFacts
    <3>2. Last(series) = series[Len(series)] /\ Len(series) \in Nat /\ series # <<>>
      BY <1>1, <1>3, TimelineFacts
    <3>3. j = Len(series) \/ j < Len(series)
      BY <3>2
    <3>4. Len(series) \in 1 .. Len(series)
      BY <1>1, <3>2, TimelineFacts
    <3>5. QED  BY <1>3, <3>1, <3>2, <3>3, <3>4
  <2>2. series[j].ts <= Base.ts
    BY <1>1, <1>3, <1>4, <2>1, NewRiseFacts
  <2>3. Last(series).v \in Nat
    BY <1>4, NewRiseFacts
  <2>4. RiseFrom(series, j) + Rise(Last(series).v, seen.v) <= RisesSince(rises, series[j].ts)
    BY <1>4 DEF SeriesInv, NotMore
  <2>5. RiseFrom(series, j) \in Nat
    BY <1>3, RiseFromIsNat
  <2>6. QED  BY <1>3, <1>4, <2>2, <2>3, <2>4, <2>5, CountedOn
<1>5. NotMore(series', counter, rises')
  <2>1. SUFFICES ASSUME NEW i \in 1 .. Len(series')
                 PROVE  RiseFrom(series', i) + Rise(Last(series').v, counter)
                           <= RisesSince(rises', series'[i].ts)
    BY DEF NotMore
  <2>2. Rise(Last(series').v, counter) = 0
    BY <1>1 DEF Rise
  <2>3. RiseFrom(series', i) \in Nat /\ series'[i].ts \in Nat
    BY <1>1, TimelineFacts, RiseFromIsNat
  <2>4. RiseFrom(series', i) <= RisesSince(rises', series'[i].ts)
    <3>1. CASE series'[i].ts = now /\ RiseFrom(series', i) = 0
      BY <1>2, <2>3, <3>1
    <3>2. CASE \E j \in 1 .. Len(series) :
                  /\ series'[i].ts = series[j].ts
                  /\ RiseFrom(series', i) <= RiseFrom(series, j) + Rise(Last(series).v, counter)
      <4>1. PICK j \in 1 .. Len(series) :
                  /\ series'[i].ts = series[j].ts
                  /\ RiseFrom(series', i) <= RiseFrom(series, j) + Rise(Last(series).v, counter)
        BY <3>2
      <4>2. seen # None
        <5>1. series # <<>>
          BY <4>1
        <5>2. QED  BY <5>1 DEF SamplesSeen
      <4>3. RiseFrom(series, j) + Rise(Last(series).v, counter) <= RisesSince(rises', series[j].ts)
        BY <1>4, <4>2
      <4>4. RiseFrom(series, j) + Rise(Last(series).v, counter) \in Nat
        <5>1. Last(series).v \in Nat
          BY <4>2, NewRiseFacts
        <5>2. Rise(Last(series).v, counter) \in Nat /\ RiseFrom(series, j) \in Nat
          BY <1>1, <1>3, <5>1, RiseIsNat, RiseFromIsNat
        <5>3. QED  BY <5>2
      <4>5. RisesSince(rises', series[j].ts) \in Nat
        BY <1>2, <1>3
      <4>6. \A a, b, c \in Nat : a <= b /\ b <= c => a <= c
        OBVIOUS
      <4>7. QED  BY <2>3, <4>1, <4>3, <4>4, <4>5, <4>6
    <3>3. QED  BY <1>1, <3>1, <3>2, SampleKept
  <2>5. QED  BY <2>2, <2>3, <2>4
<1>6. CASE file' = file
  <2>1. SUFFICES ASSUME NEW j \in 1 .. Len(file.series)
                 PROVE  RiseFrom(file.series, j) + Rise(Last(file.series).v, counter)
                           <= RisesSince(rises', file.series[j].ts)
    BY <1>5, <1>6 DEF NotMore
  <2>2. file.series # <<>> /\ seen # None
    <3>1. file.series # <<>>
      BY <2>1
    <3>2. QED  BY <3>1 DEF SamplesSeen
  <2>3. Last(file.series).v \in Nat
    <3>1. Last(file.series) \in Sample
      BY <1>1, <2>2, TimelineFacts
    <3>2. QED  BY <3>1, HistoryConstants DEF Sample
  <2>4. CASE Lost
    <3>1. series = file.series
      BY <1>1, <2>2, <2>4, NewRiseFacts DEF LogInv
    <3>2. QED  BY <1>4, <2>2, <3>1
  <2>5. CASE ~Lost
    <3>1. file.series[j].ts <= Base.ts
      BY <1>3, <2>2, <2>5, NewRiseFacts
    <3>2. RiseFrom(file.series, j) + Rise(Last(file.series).v, seen.v)
             <= RisesSince(rises, file.series[j].ts)
      BY <2>2 DEF SeriesInv, NotMore
    <3>3. RiseFrom(file.series, j) \in Nat
      BY <1>3, RiseFromIsNat
    <3>4. QED  BY <1>3, <2>2, <2>3, <2>5, <3>1, <3>2, <3>3, CountedOn
  <2>6. QED  BY <2>4, <2>5
<1>7. QED  BY <1>1, <1>5, <1>6

LEMMA NotLessTick ==
    ASSUME HistoryTypes, SamplesSeen, LogInv, SeriesInv, Tick
    PROVE  /\ NotLess(series', masked', rises')
           /\ NotLess(file'.series, masked', rises')
<1>1. /\ running /\ now \in Nat /\ ticked \in Int /\ ticked < now
      /\ series' = WithSample(series, counter) /\ series' \in Timelines(now)
      /\ counter \in 0 .. MaxTrouble + 1 /\ counter \in Nat
      /\ file'.series = series' \/ (file' = file /\ NewDrops = 0)
      /\ series \in Timelines(ticked) /\ file.series \in Timelines(ticked)
  BY TickFacts, HistoryConstants DEF HistoryTypes
<1>2. masked' = IF Masks(series, counter) THEN now ELSE masked
  BY DEF Tick
<1>3. /\ series \in Seq(Sample) /\ file.series \in Seq(Sample) /\ series' \in Seq(Sample)
      /\ \A j \in 1 .. Len(series) : series[j].ts \in Nat
      /\ \A j \in 1 .. Len(file.series) : file.series[j].ts \in Nat /\ file.series[j].ts <= ticked
      /\ \A j \in 1 .. Len(series') : series'[j].ts \in Nat /\ series'[j].ts <= now
  BY <1>1, TimelineFacts
<1>4. now # None
  BY <1>1, HistoryConstants
<1>5. CASE Masks(series, counter)
  <2>1. masked' = now
    BY <1>2, <1>5
  <2>2. \A j \in 1 .. Len(series') : ~(masked' = None \/ masked' < series'[j].ts)
    BY <1>1, <1>3, <1>4, <2>1
  <2>3. \A j \in 1 .. Len(file.series) : ~(masked' = None \/ masked' < file.series[j].ts)
    BY <1>1, <1>3, <1>4, <2>1
  <2>4. NotLess(series', masked', rises') /\ NotLess(file.series, masked', rises')
    BY <2>2, <2>3 DEF NotLess
  <2>5. QED  BY <1>1, <2>4
<1>6. CASE ~Masks(series, counter)
  <2>1. masked' = masked
    BY <1>2, <1>6
  <2>2. NotLess(series', masked, rises')
    <3>1. SUFFICES ASSUME NEW i \in 1 .. Len(series'), masked = None \/ masked < series'[i].ts
                   PROVE  WatchedSince(rises', series'[i].ts) <= RiseFrom(series', i)
      BY DEF NotLess
    <3>2. seen # None => series'[i].ts \in Nat /\ WatchedSince(rises', series'[i].ts) \in Nat
      BY <1>3, LogTotals
    <3>3. CASE seen = None
      <4>1. rises' = {}
        BY <3>3, TickFacts, LoggedIs DEF LogInv, OldRises
      <4>2. {r \in rises' : r.watched /\ r.from >= series'[i].ts} = {}
        BY <4>1
      <4>3. Total({}) = 0
        BY TotalChosen, FS_EmptySet
      <4>4. RiseFrom(series', i) \in Nat
        BY <1>3, RiseFromIsNat
      <4>5. WatchedSince(rises', series'[i].ts) = 0
        BY <4>2, <4>3 DEF WatchedSince
      <4>6. QED  BY <4>4, <4>5
    <3>4. CASE seen # None /\ series'[i].ts = now /\ RiseFrom(series', i) = 0
      <4>1. WatchedSince(rises', now) = 0
        <5>1. now <= now
          BY <1>1
        <5>2. QED  BY <1>1, <3>4, <5>1, LogTotals
      <4>2. QED  BY <3>4, <4>1
    <3>5. CASE /\ seen # None
               /\ \E j \in 1 .. Len(series) :
                    /\ series'[i].ts = series[j].ts
                    /\ RiseFrom(series', i) = RiseFrom(series, j) + Rise(Last(series).v, counter)
      <4>1. PICK j \in 1 .. Len(series) :
                    /\ series'[i].ts = series[j].ts
                    /\ RiseFrom(series', i) = RiseFrom(series, j) + Rise(Last(series).v, counter)
        BY <3>5
      <4> DEFINE t == series[j].ts
      <4>2. t \in Nat /\ RiseFrom(series, j) \in Nat
        BY <1>3, RiseFromIsNat
      <4>3. Rise(Last(series).v, counter) \in Nat
        BY <1>1, <3>5, NewRiseFacts, RiseIsNat
      <4>4. WatchedSince(rises, t) <= RiseFrom(series, j)
        BY <3>1, <4>1 DEF SeriesInv, NotLess
      <4> HIDE DEF t
      <4>5. /\ WatchedSince(rises, t) \in Nat /\ WatchedSince(rises', t) \in Nat
            /\ WatchedSince(rises', t) <= WatchedSince(rises, t) + Rise(Last(series).v, counter)
        <5>1. /\ WatchedSince(rises, t) \in Nat /\ WatchedSince(rises', t) \in Nat
              /\ last = None => WatchedSince(rises', t) <= WatchedSince(rises, t)
              /\ last # None => WatchedSince(rises', t)
                                   <= WatchedSince(rises, t) + Rise(last.v, counter)
          BY <3>5, <4>2, LogTotals
        <5>2. last # None => last = Last(series)
          BY DEF SamplesSeen
        <5>3. \A a, b, c \in Nat : a <= b => a <= b + c
          OBVIOUS
        <5>4. CASE last = None
          BY <4>3, <5>1, <5>3, <5>4
        <5>5. CASE last # None
          BY <5>1, <5>2, <5>5
        <5>6. QED  BY <5>4, <5>5
      <4>6. WatchedSince(rises', t) <= RiseFrom(series, j) + Rise(Last(series).v, counter)
        BY <4>2, <4>3, <4>4, <4>5 DEF t
      <4>7. QED  BY <4>1, <4>6 DEF t
    <3>6. \/ series'[i].ts = now /\ RiseFrom(series', i) = 0
          \/ \E j \in 1 .. Len(series) :
                    /\ series'[i].ts = series[j].ts
                    /\ RiseFrom(series', i) = RiseFrom(series, j) + Rise(Last(series).v, counter)
      BY <1>1, <1>6, SampleKept
    <3>7. QED  BY <3>3, <3>4, <3>5, <3>6
  <2>3. CASE file' = file /\ NewDrops = 0
    <3>1. SUFFICES ASSUME NEW j \in 1 .. Len(file.series),
                          masked = None \/ masked < file.series[j].ts
                   PROVE  WatchedSince(rises', file.series[j].ts) <= RiseFrom(file.series, j)
      BY <2>1, <2>2, <2>3 DEF NotLess
    <3>2. seen # None
      <4>1. file.series # <<>>
        BY <3>1
      <4>2. QED  BY <4>1 DEF SamplesSeen
    <3> DEFINE t == file.series[j].ts
    <3>3. t \in Nat /\ RiseFrom(file.series, j) \in Nat
      BY <1>3, RiseFromIsNat
    <3>4. WatchedSince(rises, t) <= RiseFrom(file.series, j)
      BY <3>1 DEF SeriesInv, NotLess
    <3> HIDE DEF t
    <3>5. /\ WatchedSince(rises, t) \in Nat /\ WatchedSince(rises', t) \in Nat
          /\ last = None => WatchedSince(rises', t) <= WatchedSince(rises, t)
          /\ last # None =>
                WatchedSince(rises', t) <= WatchedSince(rises, t) + Rise(last.v, counter)
      BY <3>2, <3>3, LogTotals
    <3>6. last # None => Rise(last.v, counter) = 0
      BY <2>3, NoRiseUnsaved
    <3>7. WatchedSince(rises', t) <= WatchedSince(rises, t)
      BY <3>5, <3>6
    <3>8. WatchedSince(rises', t) <= RiseFrom(file.series, j)
      BY <3>3, <3>4, <3>5, <3>7
    <3>9. QED  BY <3>8 DEF t
  <2>4. QED  BY <1>1, <2>1, <2>2, <2>3
<1>7. QED  BY <1>5, <1>6

LEMMA DenseTick ==
    ASSUME HistoryTypes, SamplesSeen, LogInv, SeriesInv, Tick
    PROVE  /\ Dense(series', now - Day + KeepFor, rises')
           /\ Dense(file'.series, now - Day + KeepFor, rises')
<1>1. /\ running /\ now \in Nat /\ ticked \in Int /\ ticked < now
      /\ series' = WithSample(series, counter)
      /\ counter \in 0 .. MaxTrouble + 1
      /\ \/ file'.series = series'
         \/ file' = file /\ NewDrops = 0
      /\ series \in Timelines(ticked)
  BY TickFacts DEF HistoryTypes
<1>2. Day \in Nat /\ KeepFor \in Nat
  BY HistoryConstants
<1>3. /\ series \in Seq(Sample) /\ Len(series) \in Nat
      /\ \A j \in 1 .. Len(series) : series[j].ts \in Nat
      /\ \A i, j \in 1 .. Len(series) : i < j => series[i].ts < series[j].ts
  BY <1>1, TimelineFacts
<1>4. \A j \in 1 .. Len(series) :
          /\ now - series[j].ts <= Day + KeepFor
          /\ Provisional(series, counter) => j < Len(series)
          => \E i \in 1 .. Len(series') - 1 : series'[i].ts = series[j].ts
  BY <1>1, SampleKept
<1>5. ASSUME NEW r \in rises, r.watched, now - Day + KeepFor <= r.from, r.from \in Nat
      PROVE  ticked - Day + KeepFor <= r.from
  BY <1>1, <1>2, <1>5
<1>6. ASSUME NEW r \in rises', r.watched, now - Day + KeepFor <= r.from
      PROVE  \E i \in 1 .. Len(series') - 1 :
                r.from - KeepFor <= series'[i].ts /\ series'[i].ts <= r.from
  <2>1. r.from \in Nat
    BY <1>6, WatchedFrom
  <2>2. \E j \in 1 .. Len(series) :
            /\ Provisional(series, counter) => j < Len(series)
            /\ r.from - KeepFor <= series[j].ts /\ series[j].ts <= r.from
    <3>1. CASE \E q \in rises : q.watched /\ q.from = r.from
      <4>1. PICK q \in rises : q.watched /\ q.from = r.from
        BY <3>1
      <4>2. ticked - Day + KeepFor <= q.from
        BY <1>5, <1>6, <2>1, <4>1
      <4>3. PICK j \in 1 .. Len(series) - 1 :
                q.from - KeepFor <= series[j].ts /\ series[j].ts <= q.from
        BY <1>1, <4>1, <4>2 DEF SeriesInv, Dense
      <4>4. j \in 1 .. Len(series) /\ j < Len(series)
        BY <1>3
      <4>5. QED  BY <4>1, <4>3, <4>4
    <3>2. CASE last # None /\ r.from = last.ts
      <4>1. series # <<>> /\ Last(series) = last
        BY <3>2 DEF SamplesSeen
      <4>2. last = series[Len(series)] /\ Len(series) \in 1 .. Len(series)
        BY <1>1, <4>1, TimelineFacts
      <4>3. r.from = series[Len(series)].ts
        BY <3>2, <4>2
      <4>4. CASE Provisional(series, counter)
        <5> DEFINE j == Len(series) - 1
        <5>1. Len(series) >= 2 /\ series[Len(series)].ts - series[j].ts < KeepFor
          BY <4>4 DEF Provisional
        <5>2. j \in 1 .. Len(series) /\ j < Len(series)
          BY <1>3, <5>1
        <5> HIDE DEF j
        <5>3. series[j].ts < r.from /\ series[j].ts \in Nat
          BY <1>3, <4>2, <4>3, <5>2
        <5>4. r.from - series[j].ts < KeepFor
          BY <4>3, <5>1
        <5>5. r.from - KeepFor <= series[j].ts /\ series[j].ts <= r.from
          BY <1>2, <2>1, <5>3, <5>4
        <5>6. QED  BY <5>2, <5>5
      <4>5. CASE ~Provisional(series, counter)
        <5>1. r.from - KeepFor <= r.from /\ r.from <= r.from
          BY <1>2, <2>1
        <5>2. QED  BY <4>2, <4>3, <4>5, <5>1
      <4>6. QED  BY <4>4, <4>5
    <3>3. QED  BY <1>6, <3>1, <3>2, WatchedFrom
  <2>3. PICK j \in 1 .. Len(series) :
            /\ Provisional(series, counter) => j < Len(series)
            /\ r.from - KeepFor <= series[j].ts /\ series[j].ts <= r.from
    BY <2>2
  <2>4. now - series[j].ts <= Day + KeepFor
    BY <1>1, <1>2, <1>3, <1>6, <2>1, <2>3
  <2>5. PICK i \in 1 .. Len(series') - 1 : series'[i].ts = series[j].ts
    BY <1>4, <2>3, <2>4
  <2>6. QED  BY <2>3, <2>5
<1>7. Dense(series', now - Day + KeepFor, rises')
  BY <1>6 DEF Dense
<1>8. CASE file' = file /\ NewDrops = 0
  <2>1. SUFFICES ASSUME NEW r \in rises', r.watched, now - Day + KeepFor <= r.from
                 PROVE  \E j \in 1 .. Len(file.series) - 1 :
                          r.from - KeepFor <= file.series[j].ts /\ file.series[j].ts <= r.from
    BY <1>7, <1>8 DEF Dense
  <2>2. ~(last # None /\ Rise(last.v, counter) # 0)
    BY <1>8, NoRiseUnsaved
  <2>3. r.from \in Nat /\ \E q \in rises : q.watched /\ q.from = r.from
    BY <2>1, <2>2, WatchedFrom
  <2>4. PICK q \in rises : q.watched /\ q.from = r.from
    BY <2>3
  <2>5. ticked - Day + KeepFor <= q.from
    BY <1>5, <2>1, <2>3, <2>4
  <2>6. QED  BY <2>4, <2>5 DEF SeriesInv, Dense
<1>9. QED  BY <1>1, <1>7, <1>8

-----------------------------------------------------------------------------
(* What the published delta tells.                                         *)

(* The rises that a record of time t cannot be without. *)
DueAt(R, t) == {r \in R : r.watched /\ r.to <= t /\ t - Day + KeepFor <= r.from}

(* A record tells them for as long as it stands. *)
Covers(d, t, m, R) ==
    /\ d = None => DueAt(R, t) = {}
    /\ d # None /\ (m = None \/ m < t - Day) => Total(DueAt(R, t)) <= d

RecordTells == record # None => Covers(record.delta, record.ts, masked, rises)

LEMMA SeriesTick ==
    ASSUME HistoryTypes, SamplesSeen, LogInv, SeriesInv, Tick
    PROVE  SeriesInv'
<1>1. ticked' = now /\ running' = running /\ running /\ seen' = [ts |-> now, v |-> counter]
  BY TickFacts
<1>2. seen'.v = counter
  BY <1>1
<1>3. /\ NotMore(series', counter, rises') /\ NotMore(file'.series, counter, rises')
      /\ NotLess(series', masked', rises') /\ NotLess(file'.series, masked', rises')
      /\ Dense(series', now - Day + KeepFor, rises')
      /\ Dense(file'.series, now - Day + KeepFor, rises')
  BY NotMoreTick, NotLessTick, DenseTick
<1>4. QED  BY <1>1, <1>2, <1>3 DEF SeriesInv

(* The delta that a tick computes. *)
LEMMA DeltaTick ==
    ASSUME HistoryTypes, SamplesSeen, LogInv, SeriesInv, Tick
    PROVE  LET d   == Delta(series')
               due == {r \in rises' : r.watched /\ r.from >= now - Day + KeepFor}
           IN  /\ d = None => due = {}
               /\ d # None => /\ d <= Total({r \in rises' : r.from >= now - Day})
                              /\ \/ d >= Total(due)
                                 \/ masked' # None /\ now - masked' <= Day
<1> DEFINE X == series'
           d == Delta(series')
           due == {r \in rises' : r.watched /\ r.from >= now - Day + KeepFor}
           inDay == {r \in rises' : r.from >= now - Day}
<1>1. /\ now \in Nat /\ X \in Timelines(now) /\ X # <<>> /\ counter \in Nat
      /\ Last(X) = [ts |-> now, v |-> counter] /\ Day \in Nat /\ KeepFor \in Nat
      /\ d \in Nat \cup {None} /\ ticked' = now
  <2>1. series' \in Seq(Sample)
    BY TickFacts DEF Timelines
  <2>2. QED  BY <2>1, TickFacts, DeltaIsNat, HistoryConstants
<1>2. /\ NotMore(X, counter, rises') /\ NotLess(X, masked', rises')
      /\ Dense(X, now - Day + KeepFor, rises')
  BY NotMoreTick, NotLessTick, DenseTick
<1>3. LogInv'
  BY LogTick
<1>4. Numbered(rises') /\ (masked' # None => masked' \in 0 .. now)
  BY <1>1, <1>3 DEF LogInv
<1>5. /\ (\E i \in 1 .. Len(X) - 1 : now - X[i].ts <= Day) => d # None
      /\ d # None =>
            \E k \in 1 .. Len(X) :
               /\ d = RiseFrom(X, k) /\ now - X[k].ts <= Day
               /\ \A i \in 1 .. Len(X) : now - X[i].ts <= Day => k <= i
  BY <1>1, DeltaFacts
<1>6. /\ \A i \in 1 .. Len(X) : X[i].ts \in Nat
      /\ \A i, j \in 1 .. Len(X) : i < j => X[i].ts < X[j].ts
      /\ Len(X) \in Nat /\ X \in Seq(Sample)
  BY <1>1, TimelineFacts
<1>7. \A r \in rises' : r.watched => r.from \in Nat
  BY WatchedFrom
<1> HIDE DEF X, d
<1>8. ASSUME NEW r \in due
      PROVE  \E j \in 1 .. Len(X) - 1 : now - X[j].ts <= Day /\ X[j].ts <= r.from
  <2>1. r \in rises' /\ r.watched /\ now - Day + KeepFor <= r.from /\ r.from \in Nat
    BY <1>7, <1>8
  <2>2. PICK j \in 1 .. Len(X) - 1 : r.from - KeepFor <= X[j].ts /\ X[j].ts <= r.from
    BY <1>2, <2>1 DEF Dense
  <2>3. X[j].ts \in Nat
    BY <1>6
  <2>4. now - X[j].ts <= Day
    BY <1>1, <2>1, <2>2, <2>3
  <2>5. QED  BY <2>2, <2>4
<1>9. d = None => due = {}
  BY <1>5, <1>8
<1>10. ASSUME d # None
       PROVE  d <= Total(inDay) /\ (d >= Total(due) \/ (masked' # None /\ now - masked' <= Day))
  <2>1. PICK k \in 1 .. Len(X) :
               /\ d = RiseFrom(X, k) /\ now - X[k].ts <= Day
               /\ \A i \in 1 .. Len(X) : now - X[i].ts <= Day => k <= i
    BY <1>5, <1>10
  <2> DEFINE t == X[k].ts
  <2>2. t \in Nat /\ now - t <= Day
    BY <1>6, <2>1
  <2>3. d \in Nat
    BY <1>6, <2>1, RiseFromIsNat
  <2>4. d <= RisesSince(rises', t)
    <3>1. Rise(Last(X).v, counter) = 0
      BY <1>1 DEF Rise
    <3>2. RiseFrom(X, k) + Rise(Last(X).v, counter) <= RisesSince(rises', t)
      BY <1>2 DEF NotMore
    <3>3. QED  BY <2>1, <2>3, <3>1, <3>2
  <2>5. /\ RisesSince(rises', t) <= Total(inDay)
        /\ RisesSince(rises', t) \in Nat /\ Total(inDay) \in Nat
    <3> DEFINE A == {r \in rises' : r.from >= t}
    <3>1. \A r \in rises' : r.from \in Nat
      <4>1. rises' \subseteq Rises
        BY TickLogs
      <4>2. QED  BY <4>1 DEF Rises
    <3>2. A \subseteq inDay /\ inDay \subseteq rises' /\ A \subseteq rises'
      BY <1>1, <2>2, <3>1
    <3> HIDE DEF A
    <3>3. Numbered(inDay) /\ Numbered(A)
      BY <1>4, <3>2, NumberedPart
    <3> HIDE DEF inDay
    <3>4. Total(A) <= Total(inDay) /\ Total(A) \in Nat /\ Total(inDay) \in Nat
      BY <3>2, <3>3, TotalPart, TotalType
    <3>5. QED  BY <3>4 DEF RisesSince, A
  <2>6. ASSUME ~(masked' # None /\ now - masked' <= Day)
        PROVE  d >= Total(due)
    <3>1. masked' = None \/ masked' < t
      BY <1>1, <1>4, <2>2, <2>6
    <3>2. WatchedSince(rises', t) <= d
      BY <1>2, <2>1, <3>1 DEF NotLess
    <3> DEFINE B == {r \in rises' : r.watched /\ r.from >= t}
    <3>3. due \subseteq B
      <4>1. SUFFICES ASSUME NEW r \in due PROVE r.from >= t
        OBVIOUS
      <4>2. PICK j \in 1 .. Len(X) - 1 : now - X[j].ts <= Day /\ X[j].ts <= r.from
        BY <1>8
      <4>3. j \in 1 .. Len(X) /\ X[j].ts \in Nat
        BY <1>6
      <4>4. k <= j
        BY <2>1, <4>2, <4>3
      <4>5. k = j \/ k < j
        BY <1>6, <4>4
      <4>6. t <= X[j].ts
        BY <1>6, <2>2, <4>3, <4>5
      <4>7. r.from \in Nat
        BY <1>7
      <4>8. QED  BY <2>2, <4>2, <4>3, <4>6, <4>7
    <3>4. B \subseteq rises'
      OBVIOUS
    <3> HIDE DEF B, due
    <3>5. Numbered(B) /\ Numbered(due)
      BY <1>4, <3>3, <3>4, NumberedPart
    <3>6. Total(due) <= Total(B) /\ Total(due) \in Nat /\ Total(B) \in Nat
      BY <3>3, <3>5, TotalPart, TotalType
    <3>7. Total(B) <= d
      BY <3>2 DEF WatchedSince, B
    <3>8. QED  BY <2>3, <3>6, <3>7
  <2>7. d <= Total(inDay)
    BY <2>3, <2>4, <2>5
  <2>8. QED  BY <2>6, <2>7
<1>11. QED  BY <1>9, <1>10, Zenon DEF d

DeltaInv == LogInv /\ SeriesInv /\ DeltaTells /\ RecordTells

LEMMA RecordTick ==
    ASSUME HistoryTypes, SamplesSeen, DeltaInv, Tick
    PROVE  DeltaTells' /\ RecordTells'
<1>1. LogInv /\ SeriesInv /\ RecordTells
  BY DEF DeltaInv
<1>2. /\ now \in Nat /\ ticked \in Int /\ ticked < now /\ now' = now /\ Day \in Nat
      /\ Delta(series') \in Nat \cup {None}
  <2>1. series' \in Seq(Sample)
    BY TickFacts DEF Timelines
  <2>2. QED  BY <2>1, TickFacts, DeltaIsNat, HistoryConstants DEF HistoryTypes
<1>3. CASE record' = record
  <2>1. SUFFICES ASSUME record # None PROVE DeltaTells' /\ RecordTells'
    BY <1>3 DEF DeltaTells, RecordTells
  <2> DEFINE t == record.ts
             D == DueAt(rises, t)
             D2 == DueAt(rises', t)
  <2>2. t \in Nat /\ t < now /\ record'.ts # now'
    BY <1>2, <1>3, <2>1 DEF HistoryTypes
  <2>3. D2 \subseteq {Copied[r] : r \in D}
    <3>1. SUFFICES ASSUME NEW r \in D2 PROVE \E q \in D : r = Copied[q]
      OBVIOUS
    <3>2. r \in rises' /\ r.watched /\ r.to <= t /\ t - Day + KeepFor <= r.from
      BY <3>1 DEF DueAt
    <3>3. r \in OldRises
      <4>1. rises' = IF seen = None \/ Rise(seen.v, counter) = 0 THEN OldRises
                     ELSE OldRises \cup {NewRise}
        BY TickFacts, LoggedIs
      <4>2. NewRise.to = now
        BY DEF NewRise
      <4>3. r # NewRise
        BY <1>2, <2>2, <3>2, <4>2
      <4>4. QED  BY <3>2, <4>1, <4>3
    <3>4. PICK q \in rises : r = Copied[q]
      BY <3>3 DEF OldRises
    <3>5. q.watched /\ q.to <= t /\ t - Day + KeepFor <= q.from
      BY <1>1, <3>2, <3>4, CopyFacts
    <3>6. QED  BY <3>4, <3>5 DEF DueAt
  <2>4. D \subseteq rises
    BY DEF DueAt
  <2> HIDE DEF D, D2
  <2>5. Numbered({Copied[r] : r \in D}) /\ Total({Copied[r] : r \in D}) = Total(D)
    BY <1>1, <2>4, CopyTotals
  <2>6. Total(D2) <= Total(D) /\ Total(D2) \in Nat /\ Total(D) \in Nat
    <3>1. Numbered(D2)
      BY <2>3, <2>5, NumberedPart
    <3>2. Numbered(D)
      BY <1>1, <2>4, NumberedPart DEF LogInv
    <3>3. QED  BY <2>3, <2>5, <3>1, <3>2, TotalPart, TotalType
  <2>7. D = {} => D2 = {}
    BY <2>3
  <2>8. masked' = masked \/ masked' = now
    BY DEF Tick
  <2>9. now # None /\ ~(now < t - Day)
    BY <1>2, <2>2, HistoryConstants
  <2>10. Covers(record.delta, t, masked, rises)
    BY <1>1, <2>1 DEF RecordTells
  <2>11. record.delta \in Nat \cup {None}
    BY <2>1 DEF HistoryTypes
  <2>12. Covers(record.delta, t, masked', rises')
    <3>1. record.delta = None => D2 = {}
      BY <2>7, <2>10 DEF Covers, D
    <3>2. ASSUME record.delta # None, masked' = None \/ masked' < t - Day
          PROVE  Total(D2) <= record.delta
      <4>1. masked' = masked
        BY <2>8, <2>9, <3>2
      <4>2. Total(D) <= record.delta
        BY <2>10, <3>2, <4>1 DEF Covers, D
      <4>3. QED  BY <2>6, <2>11, <3>2, <4>2
    <3>3. QED  BY <3>1, <3>2 DEF Covers, D2
  <2>13. QED  BY <1>3, <2>2, <2>12 DEF DeltaTells, RecordTells
<1>4. CASE record' = [lfc |-> counter, delta |-> Delta(series'), drops |-> drops',
                      ts |-> now]
  <2>1. record'.delta = Delta(series') /\ record'.ts = now
    BY <1>4
  <2> DEFINE d == Delta(series')
             due == {r \in rises' : r.watched /\ r.from >= now - Day + KeepFor}
  <2>2. /\ d = None => due = {}
        /\ d # None => /\ d <= Total({r \in rises' : r.from >= now - Day})
                       /\ \/ d >= Total(due)
                          \/ masked' # None /\ now - masked' <= Day
    BY <1>1, DeltaTick
  <2>3. DeltaTells'
    BY <1>2, <2>1, <2>2, Zenon DEF DeltaTells
  <2>4. DueAt(rises', now) = due
    <3>1. LogInv'
      BY <1>1, LogTick
    <3>2. ticked' = now
      BY TickFacts
    <3>3. \A r \in rises' : r.to <= now
      BY <3>1, <3>2 DEF LogInv
    <3>4. KeepFor \in Nat /\ \A r \in rises' : r.watched => r.from \in Nat
      BY <1>1, WatchedFrom, HistoryConstants
    <3>5. QED  BY <1>2, <3>3, <3>4 DEF DueAt
  <2>5. Numbered(rises')
    <3>1. LogInv'
      BY <1>1, LogTick
    <3>2. QED  BY <3>1 DEF LogInv
  <2>6. Total(due) \in Nat
    <3>1. due \subseteq rises'
      OBVIOUS
    <3> HIDE DEF due
    <3>2. QED  BY <2>5, <3>1, NumberedPart, TotalType
  <2>7. masked' # None => masked' \in Nat
    <3>1. LogInv' /\ ticked' = now
      BY <1>1, LogTick, TickFacts
    <3>2. QED  BY <1>2, <3>1 DEF LogInv
  <2> HIDE DEF due
  <2>8. ASSUME d # None, masked' = None \/ masked' < now - Day
        PROVE  Total(due) <= d
    <3>1. ~(masked' # None /\ now - masked' <= Day)
      BY <1>2, <2>7, <2>8
    <3>2. d >= Total(due)
      BY <2>2, <2>8, <3>1
    <3>3. d \in Nat
      BY <1>2, <2>8
    <3>4. QED  BY <2>6, <3>2, <3>3
  <2>9. Covers(d, now, masked', rises')
    BY <2>2, <2>4, <2>8, Zenon DEF Covers
  <2>10. RecordTells'
    BY <2>1, <2>9 DEF RecordTells
  <2>11. QED  BY <2>3, <2>10
<1>5. QED  BY <1>3, <1>4, TickFacts

(* A step that leaves log and record alone, and the samples to the file. *)
LEMMA DeltaOutside ==
    ASSUME DeltaInv, UNCHANGED <<file, record, logVars>>,
           \/ series' = series /\ running' = running /\ last' = last
           \/ running' = FALSE /\ series' = <<>> /\ last' = None
           \/ running' /\ series' = file.series /\ last' = None,
           last' # None => now' <= ticked + 1,
           DeltaTells'
    PROVE  DeltaInv'
<1>1. /\ file' = file /\ record' = record /\ ticked' = ticked /\ seen' = seen
      /\ rises' = rises /\ masked' = masked
  BY DEF logVars
<1>2. LogInv /\ SeriesInv /\ RecordTells
  BY DEF DeltaInv
<1>3. LogInv'
  BY <1>1, <1>2 DEF LogInv
<1>4. RecordTells'
  BY <1>1, <1>2 DEF RecordTells
<1>5. SeriesInv'
  <2>1. CASE series' = series /\ running' = running
    BY <1>1, <1>2, <2>1 DEF SeriesInv
  <2>2. CASE running' = FALSE /\ series' = <<>>
    <3>1. NotMore(<<>>, seen.v, rises) /\ NotLess(<<>>, masked, rises)
      BY DEF NotMore, NotLess
    <3>2. QED  BY <1>1, <1>2, <2>2, <3>1 DEF SeriesInv
  <2>3. CASE running' /\ series' = file.series
    BY <1>1, <1>2, <2>3 DEF SeriesInv
  <2>4. QED  BY <2>1, <2>2, <2>3
<1>6. QED  BY <1>3, <1>4, <1>5 DEF DeltaInv

LEMMA DeltaInit == Init => DeltaInv
<1> SUFFICES ASSUME Init PROVE DeltaInv
  OBVIOUS
<1>1. /\ series = <<>> /\ file.series = <<>> /\ last = None /\ record = None
      /\ ticked = -1 /\ now = 0 /\ seen = None /\ rises = {} /\ masked = None
  BY DEF Init, HistoryInit, EmptyFile
<1>2. Numbered({})
  BY FS_EmptySet DEF Numbered
<1>3. LogInv
  BY <1>1, <1>2 DEF LogInv
<1>4. SeriesInv
  BY <1>1 DEF SeriesInv, NotLess, Dense
<1>5. DeltaTells /\ RecordTells
  BY <1>1 DEF DeltaTells, RecordTells
<1>6. QED  BY <1>3, <1>4, <1>5 DEF DeltaInv

LEMMA DeltaStep ==
    ASSUME HistoryTypes, SamplesSeen, DeltaInv, HistoryStep
    PROVE  DeltaInv'
<1>1. /\ now \in Nat /\ ticked \in Int /\ ticked <= now /\ LogInv /\ DeltaTells
      /\ record # None => record.ts \in Nat /\ record.ts <= ticked
  BY HistoryConstants DEF HistoryTypes, DeltaInv
<1>2. last # None => running /\ now <= ticked + 1
  BY DEF SamplesSeen, LogInv, DeltaInv
<1>3. ASSUME now' = now, UNCHANGED <<record, logVars>>
      PROVE  DeltaTells'
  BY <1>1, <1>3, Zenon DEF DeltaTells, logVars
<1>4. CASE Elapse
  <2>1. /\ now' = now + 1 /\ (running => ticked = now)
        /\ UNCHANGED <<series, running, last, file, record, logVars>>
    BY <1>4 DEF Elapse, memoryVars
  <2>2. DeltaTells'
    <3>1. record' # None => record'.ts # now'
      BY <1>1, <2>1
    <3>2. QED  BY <3>1 DEF DeltaTells
  <2>3. last' # None => now' <= ticked + 1
    BY <1>1, <1>2, <2>1
  <2>4. QED  BY <2>1, <2>2, <2>3, DeltaOutside
<1>5. CASE LinkFails \/ BondReset \/ UNCHANGED historyVars
  <2>1. now' = now /\ UNCHANGED <<series, running, last, file, record, logVars>>
    BY <1>5 DEF LinkFails, BondReset, historyVars, kernelVars, memoryVars
  <2>2. QED  BY <1>2, <1>3, <2>1, DeltaOutside
<1>6. CASE Crash
  <2>1. /\ running' = FALSE /\ series' = <<>> /\ last' = None /\ now' = now
        /\ UNCHANGED <<file, record, logVars>>
    BY <1>6 DEF Crash
  <2>2. QED  BY <1>3, <2>1, DeltaOutside
<1>7. CASE Start
  <2>1. /\ running' /\ series' = file.series /\ last' = last /\ ~running /\ now' = now
        /\ UNCHANGED <<file, record, logVars>>
    BY <1>7 DEF Start, kernelVars
  <2>2. last' = None
    BY <1>2, <2>1
  <2>3. QED  BY <1>3, <2>1, <2>2, DeltaOutside
<1>8. CASE Tick
  BY <1>8, LogTick, SeriesTick, RecordTick DEF DeltaInv
<1>9. QED  BY <1>4, <1>5, <1>6, <1>7, <1>8 DEF HistoryStep, HistoryNext

(* Whatever is overwritten, dropped from the series or lost in a crash, the *)
(* published delta covers the watched rises of the day, and nothing before  *)
(* it, unless a reset is masked (_keep, _delta and _load).                  *)
THEOREM DeltaTrue == Spec => []DeltaTells
<1>1. Init => NetTypes /\ RisesInv /\ DeltaInv
  BY NetTypesInit, RisesInit, DeltaInit
<1>2. NetTypes /\ RisesInv /\ DeltaInv /\ [Next]_vars => (NetTypes /\ RisesInv /\ DeltaInv)'
  <2>1. NetTypes /\ RisesInv /\ DeltaInv /\ [Next]_vars => DeltaInv'
    BY StepsParts, DeltaStep DEF NetTypes, RisesInv
  <2>2. QED  BY <2>1, NetTypesStep, RisesStep
<1>3. DeltaInv => DeltaTells
  BY DEF DeltaInv
<1>4. QED  BY <1>1, <1>2, <1>3, PTL DEF Spec

-----------------------------------------------------------------------------
(* What an acknowledgement does not hide.                                  *)

(* A baseline b of time t that the counter has not started anew since: the  *)
(* counter stands no lower than it, and higher after a rise, and so does    *)
(* what the record reports of it.                                           *)
Rising(t, b) ==
    /\ t <= ticked /\ seen # None
    /\ resetAt < t =>
          /\ b <= seen.v /\ seen.v <= counter
          /\ (\E r \in rises : t < r.to) => b < seen.v
          /\ record # None /\ t <= record.ts =>
                /\ b <= record.lfc
                /\ (\E r \in rises : t < r.to /\ r.to <= record.ts) => b < record.lfc

BaselinesRise ==
    /\ resetAt \in 0 .. now
    /\ record # None => Rising(record.ts, record.lfc)
    /\ reading # None => Rising(reading.ts, reading.lfc)
    /\ ack # None => Rising(ack.seen, ack.lfc)

LEMMA RisingTick ==
    ASSUME HistoryTypes, SamplesSeen, LogInv, Tick
    PROVE  /\ \A t, b \in Nat : Rising(t, b) => Rising(t, b)'
           /\ record' = record \/ Rising(record.ts, record.lfc)'
<1>1. /\ ticked < now /\ ticked' = now /\ now \in Nat /\ ticked \in Int
      /\ resetAt' = resetAt /\ counter' = counter /\ counter \in Nat
      /\ seen' = [ts |-> now, v |-> counter] /\ seen' \in Sample
      /\ \/ record' = record
         \/ record'.lfc = counter /\ record'.ts = now
      /\ rises' = IF seen = None \/ Rise(seen.v, counter) = 0 THEN OldRises
                  ELSE OldRises \cup {NewRise}
  <2>1. counter \in 0 .. MaxTrouble + 1 /\ MaxTrouble \in Nat
    BY TickFacts, HistoryConstants
  <2>2. counter \in Nat
    BY <2>1
  <2>3. QED  BY <2>2, TickFacts, LoggedIs DEF HistoryTypes
<1>2. seen' # None /\ seen'.v = counter
  <2>1. \A x \in Sample : x \in [ts : Nat, v : Nat]
    BY HistoryConstants DEF Sample
  <2>2. QED  BY <1>1, <2>1, HistoryConstants
<1>3. \A r \in rises' : r.to \in Nat /\ r.to <= now
  <2>1. LogInv' /\ rises' \subseteq Rises
    BY LogTick, TickLogs
  <2>2. QED  BY <1>1, <2>1 DEF LogInv, Rises
<1>4. ASSUME NEW t \in Nat, NEW b \in Nat, Rising(t, b)
      PROVE  Rising(t, b)'
  <2>1. t <= ticked /\ seen # None
    BY <1>4 DEF Rising
  <2>2. t <= ticked'
    BY <1>1, <2>1
  <2>3. SUFFICES ASSUME resetAt < t
                 PROVE  /\ b <= counter /\ counter <= counter'
                        /\ (\E r \in rises' : t < r.to) => b < counter
                        /\ record' # None /\ t <= record'.ts =>
                              /\ b <= record'.lfc
                              /\ (\E r \in rises' : t < r.to /\ r.to <= record'.ts) =>
                                    b < record'.lfc
    BY <1>1, <1>2, <2>2 DEF Rising
  <2>4. seen.v \in Nat /\ b <= seen.v /\ seen.v <= counter
    BY <1>4, <2>1, <2>3, NewRiseFacts DEF Rising
  <2>5. ASSUME NEW r \in rises', t < r.to
        PROVE  /\ b < counter
               /\ r.to # now => \E q \in rises : q.to = r.to
    <3>1. CASE r \in OldRises
      <4>1. PICK q \in rises : r = Copied[q]
        BY <3>1 DEF OldRises
      <4>2. q.to = r.to
        BY <4>1, CopyFacts
      <4>3. b < seen.v
        BY <1>4, <2>3, <2>5, <4>2 DEF Rising
      <4>4. QED  BY <1>1, <2>4, <4>2, <4>3
    <3>2. CASE r \notin OldRises
      <4>1. r = NewRise /\ Rise(seen.v, counter) # 0
        BY <1>1, <3>2
      <4>2. r.to = now
        BY <4>1 DEF NewRise
      <4>3. seen.v < counter
        BY <1>1, <2>4, <4>1 DEF Rise
      <4>4. QED  BY <1>1, <2>4, <4>2, <4>3
    <3>3. QED  BY <3>1, <3>2
  <2>6. b <= counter
    BY <1>1, <2>4
  <2>7. CASE record'.lfc = counter
    BY <1>1, <2>5, <2>6, <2>7
  <2>8. CASE record' = record
    <3>1. SUFFICES ASSUME record # None, t <= record.ts
                   PROVE  /\ b <= record.lfc
                          /\ (\E r \in rises' : t < r.to /\ r.to <= record.ts) => b < record.lfc
      BY <1>1, <2>5, <2>6, <2>8
    <3>2. /\ b <= record.lfc
          /\ (\E r \in rises : t < r.to /\ r.to <= record.ts) => b < record.lfc
      BY <1>4, <2>3, <3>1 DEF Rising
    <3>3. record.ts \in Nat /\ record.ts < now
      BY <1>1, <3>1 DEF HistoryTypes
    <3>4. ASSUME NEW r \in rises', t < r.to, r.to <= record.ts
          PROVE  \E q \in rises : t < q.to /\ q.to <= record.ts
      <4>1. r.to # now
        BY <1>1, <3>3, <3>4
      <4>2. QED  BY <2>5, <3>4, <4>1
    <3>5. QED  BY <3>2, <3>4
  <2>9. QED  BY <1>1, <2>7, <2>8
<1>5. ASSUME record' # record PROVE Rising(record.ts, record.lfc)'
  <2>1. record'.lfc = counter /\ record'.ts = now
    BY <1>1, <1>5
  <2>2. \A r \in rises' : ~(now < r.to)
    BY <1>1, <1>3
  <2>3. QED  BY <1>1, <1>2, <2>1, <2>2 DEF Rising
<1>6. QED  BY <1>4, <1>5

(* While the log and the record stay, a baseline is one for as long as the  *)
(* counter does not go down without starting anew.                          *)
LEMMA RisingOutside ==
    ASSUME NetTypes, UNCHANGED <<ticked, seen, rises, record>>,
           resetAt \in Nat, now \in Nat, ticked <= now,
           \/ resetAt' = resetAt /\ counter <= counter'
           \/ resetAt' = now,
           counter' \in Nat,
           NEW t \in Nat, NEW b \in Nat, Rising(t, b)
    PROVE  Rising(t, b)'
<1>1. t <= ticked /\ seen # None /\ ticked \in Int /\ counter \in Nat /\ seen.v \in Nat
  BY HistoryConstants DEF Rising, NetTypes, HistoryTypes, Sample
<1>2. CASE resetAt' = resetAt /\ counter <= counter'
  <2>1. seen.v <= counter => seen.v <= counter'
    BY <1>1, <1>2
  <2>2. QED  BY <1>1, <1>2, <2>1 DEF Rising
<1>3. CASE resetAt' = now
  <2>1. ~(resetAt' < t)
    BY <1>1, <1>3
  <2>2. QED  BY <1>1, <2>1 DEF Rising
<1>4. QED  BY <1>2, <1>3

(* Baselines that stay are still of a counter that has not gone down. *)
LEMMA BaselinesStay ==
    ASSUME NetTypes, BaselinesRise, ack' = ack, reading' = reading,
           \A t, b \in Nat : Rising(t, b) => Rising(t, b)'
    PROVE  /\ reading' # None => Rising(reading.ts, reading.lfc)'
           /\ ack' # None => Rising(ack.seen, ack.lfc)'
           /\ record' = record /\ record' # None => Rising(record.ts, record.lfc)'
<1>1. /\ reading # None => reading.ts \in Nat /\ reading.lfc \in Nat
      /\ ack # None => ack.seen \in Nat /\ ack.lfc \in Nat
      /\ record # None => record.ts \in Nat /\ record.lfc \in Nat
  BY HistoryConstants DEF NetTypes, PanelTypes, HistoryTypes
<1>2. reading' # None => Rising(reading.ts, reading.lfc)'
  <2>1. SUFFICES ASSUME reading # None PROVE Rising(reading.ts, reading.lfc)'
    OBVIOUS
  <2> DEFINE t == reading.ts
             b == reading.lfc
  <2>2. t' = t /\ b' = b /\ t \in Nat /\ b \in Nat /\ Rising(t, b)
    BY <1>1, <2>1 DEF BaselinesRise
  <2> HIDE DEF t, b
  <2>3. Rising(t, b)'
    BY <2>2
  <2>4. QED  BY <2>3 DEF t, b
<1>3. ack' # None => Rising(ack.seen, ack.lfc)'
  <2>1. SUFFICES ASSUME ack # None PROVE Rising(ack.seen, ack.lfc)'
    OBVIOUS
  <2> DEFINE t == ack.seen
             b == ack.lfc
  <2>2. t' = t /\ b' = b /\ t \in Nat /\ b \in Nat /\ Rising(t, b)
    BY <1>1, <2>1 DEF BaselinesRise
  <2> HIDE DEF t, b
  <2>3. Rising(t, b)'
    BY <2>2
  <2>4. QED  BY <2>3 DEF t, b
<1>4. record' = record /\ record' # None => Rising(record.ts, record.lfc)'
  <2>1. SUFFICES ASSUME record' = record, record # None
                 PROVE  Rising(record.ts, record.lfc)'
    OBVIOUS
  <2> DEFINE t == record.ts
             b == record.lfc
  <2>2. t' = t /\ b' = b /\ t \in Nat /\ b \in Nat /\ Rising(t, b)
    BY <1>1, <2>1 DEF BaselinesRise
  <2> HIDE DEF t, b
  <2>3. Rising(t, b)'
    BY <2>2
  <2>4. QED  BY <2>3 DEF t, b
<1>5. QED  BY <1>2, <1>3, <1>4

LEMMA BaselinesTick ==
    ASSUME NetTypes, RisesInv, DeltaInv, BaselinesRise, Tick, UNCHANGED panelVars
    PROVE  BaselinesRise'
<1>1. HistoryTypes /\ SamplesSeen /\ LogInv /\ ack' = ack /\ reading' = reading
  BY DEF NetTypes, RisesInv, DeltaInv, panelVars
<1>2. /\ \A t, b \in Nat : Rising(t, b) => Rising(t, b)'
      /\ record' = record \/ Rising(record.ts, record.lfc)'
  BY <1>1, RisingTick
<1>3. resetAt' \in 0 .. now'
  BY <1>1, TickFacts DEF BaselinesRise
<1>4. QED  BY <1>1, <1>2, <1>3, BaselinesStay DEF BaselinesRise

LEMMA BaselinesInit == Init => BaselinesRise
BY DEF Init, HistoryInit, BaselinesRise

(* Steps of the host and of the process, other than its ticks. *)
LEMMA BaselinesOutside ==
    ASSUME NetTypes, BaselinesRise, UNCHANGED panelVars,
           Elapse \/ LinkFails \/ BondReset \/ Crash \/ Start \/ UNCHANGED historyVars
    PROVE  BaselinesRise'
<1>1. /\ UNCHANGED <<ticked, seen, rises, record>> /\ ack' = ack /\ reading' = reading
      /\ resetAt' = resetAt \/ resetAt' = now
      /\ now' = now \/ now' = now + 1
  BY DEF Elapse, LinkFails, BondReset, Crash, Start, historyVars, logVars, kernelVars,
         memoryVars, panelVars
<1>2. /\ now \in Nat /\ ticked \in Int /\ ticked <= now /\ counter \in Nat
      /\ resetAt \in Nat /\ resetAt <= now
  BY HistoryConstants DEF NetTypes, HistoryTypes, BaselinesRise
<1>3. /\ counter' \in Nat
      /\ \/ resetAt' = resetAt /\ counter <= counter'
         \/ resetAt' = now
  BY <1>2 DEF Elapse, LinkFails, BondReset, Crash, Start, historyVars, kernelVars
<1>4. \A t, b \in Nat : Rising(t, b) => Rising(t, b)'
  BY <1>1, <1>2, <1>3, RisingOutside
<1>5. resetAt' \in 0 .. now'
  BY <1>1, <1>2
<1>6. QED  BY <1>1, <1>4, <1>5, BaselinesStay DEF BaselinesRise

(* A baseline is read from the record and set as it was read. *)
LEMMA BaselinesPanel ==
    ASSUME BaselinesRise, AckRead \/ AckSet \/ Poll \/ PanelRestart
    PROVE  BaselinesRise'
<1>1. UNCHANGED historyVars
  BY DEF AckRead, AckSet, Poll, PanelRestart
<1>2. /\ UNCHANGED <<ticked, seen, rises, record, resetAt, now, counter>>
      /\ \A t, b : Rising(t, b)' <=> Rising(t, b)
  BY <1>1 DEF historyVars, logVars, kernelVars, Rising
<1>3. CASE AckRead
  <2>1. /\ record # None /\ ack' = ack /\ reading' = [lfc |-> record.lfc, ts |-> record.ts]
    BY <1>3 DEF AckRead, LiveRecord
  <2>2. reading'.ts = record.ts /\ reading'.lfc = record.lfc
    BY <2>1
  <2>3. QED  BY <1>2, <2>1, <2>2 DEF BaselinesRise, Rising
<1>4. CASE AckSet
  <2>1. /\ reading # None /\ reading' = None
        /\ ack' = [lfc |-> reading.lfc, ts |-> now, seen |-> reading.ts]
    BY <1>4 DEF AckSet
  <2>2. ack'.seen = reading.ts /\ ack'.lfc = reading.lfc
    BY <2>1
  <2>3. QED  BY <1>2, <2>1, <2>2 DEF BaselinesRise, Rising
<1>5. CASE Poll \/ PanelRestart
  <2>1. ack' = ack /\ reading' = reading
    BY <1>5 DEF Poll, PanelRestart
  <2>2. QED  BY <1>2, <2>1 DEF BaselinesRise, Rising
<1>6. QED  BY <1>3, <1>4, <1>5

LEMMA BaselinesStep ==
    ASSUME NetTypes, RisesInv, DeltaInv, BaselinesRise, [Next]_vars
    PROVE  BaselinesRise'
<1>1. CASE Tick /\ UNCHANGED panelVars
  BY <1>1, BaselinesTick
<1>2. CASE /\ Elapse \/ LinkFails \/ BondReset \/ Crash \/ Start \/ UNCHANGED historyVars
           /\ UNCHANGED panelVars
  BY <1>2, BaselinesOutside
<1>3. CASE AckRead \/ AckSet \/ Poll \/ PanelRestart
  BY <1>3, BaselinesPanel
<1>4. QED  BY <1>1, <1>2, <1>3 DEF Next, vars, Around, HistoryNext

(* The rises that must keep a column yellow. *)
Due == {r \in Unseen : /\ r.watched /\ r.to <= record.ts
                       /\ r.from >= record.ts - Day + KeepFor}

(* The record counts them, *)
LEMMA DueCounted ==
    ASSUME NetTypes, RisesInv, DeltaInv, LiveRecord # None, Due # {},
           masked = None \/ now - masked > Day + RecordTTL
    PROVE  record.delta \in Nat \ {0}
<1>1. /\ record # None /\ HistoryTypes /\ LogInv /\ RecordTells
      /\ \A r \in rises : r.from \in Nat /\ r.to \in Nat /\ r.n \in Nat
  BY DEF LiveRecord, NetTypes, DeltaInv, RisesInv, SamplesSeen, Rises
<1> DEFINE t == record.ts
           D == DueAt(rises, t)
<1>2. /\ now \in Nat /\ ticked \in Int /\ ticked <= now /\ t \in Nat /\ now - t < RecordTTL
      /\ Day \in Nat /\ KeepFor \in Nat /\ RecordTTL \in Nat
      /\ record.delta \in Nat \cup {None}
  BY <1>1, HistoryConstants, PanelConstants DEF HistoryTypes, LiveRecord
<1>3. Due \subseteq D
  <2>1. SUFFICES ASSUME NEW r \in Due PROVE r \in D
    OBVIOUS
  <2>2. r \in rises /\ r.watched /\ r.to <= t /\ r.from >= t - Day + KeepFor
    BY DEF Due, Unseen
  <2>3. t - Day + KeepFor <= r.from
    BY <1>1, <1>2, <2>2
  <2>4. QED  BY <2>2, <2>3 DEF DueAt
<1>4. D \subseteq rises /\ D # {} /\ \A r \in D : r.n \in Nat \ {0}
  <2>1. \A r \in D : r \in rises /\ r.watched
    BY DEF DueAt
  <2>2. \A r \in rises : r.watched => r.n > 0
    BY <1>1 DEF LogInv
  <2>3. QED  BY <1>1, <1>3, <2>1, <2>2
<1> HIDE DEF D
<1>5. Total(D) \in Nat \ {0}
  <2>1. Numbered(D)
    BY <1>1, <1>4, NumberedPart DEF LogInv
  <2>2. PICK r \in D : TRUE
    BY <1>4
  <2>3. Total(D) = r.n + Total(D \ {r})
    BY <2>1, TotalMinus
  <2>4. Total(D \ {r}) \in Nat
    <3>1. D \ {r} \subseteq D
      OBVIOUS
    <3>2. QED  BY <2>1, <3>1, NumberedPart, TotalType
  <2>5. r.n \in Nat \ {0}
    BY <1>4
  <2>6. QED  BY <2>3, <2>4, <2>5
<1>6. masked = None \/ masked < t - Day
  <2>1. masked # None => masked \in Nat
    BY <1>1, <1>2 DEF LogInv
  <2>2. QED  BY <1>2, <2>1
<1>7. Covers(record.delta, t, masked, rises)
  BY <1>1 DEF RecordTells
<1>8. record.delta # None /\ Total(D) <= record.delta
  BY <1>4, <1>6, <1>7 DEF Covers, D
<1>9. QED  BY <1>2, <1>5, <1>8

(* and the acknowledgement leaves some of the count. *)
LEMMA DueWarns ==
    ASSUME NetTypes, RisesInv, DeltaInv, BaselinesRise, LiveRecord # None, Due # {},
           masked = None \/ now - masked > Day + RecordTTL,
           LiveAck # None => resetAt < ack.seen,
           Poll
    PROVE  column' # "calm"
<1>1. record.delta \in Nat \ {0} /\ record.delta # None
  BY DueCounted, HistoryConstants
<1>2. column' = Attention(IF LiveAck = None THEN record ELSE ApplyAck(record, ack))
  BY DEF Poll
<1>3. CASE LiveAck = None
  <2>1. Attention(record) = "yellow"
    BY <1>1 DEF Attention
  <2>2. QED  BY <1>2, <1>3, <2>1
<1>4. CASE LiveAck # None
  <2>1. ack # None /\ record # None
    BY <1>4 DEF LiveAck, LiveRecord
  <2>2. /\ record \in [lfc : Nat, delta : Nat \cup {None}, drops : DropLists(ticked),
                       ts : 0 .. ticked]
        /\ ack.lfc \in Nat /\ ack.seen \in Nat /\ ticked \in Int
    BY <2>1, HistoryConstants DEF NetTypes, HistoryTypes, PanelTypes
  <2>3. PICK r \in rises : ack.seen < r.to /\ r.to <= record.ts /\ r.to \in Nat
    <3>1. PICK r \in Due : TRUE
      OBVIOUS
    <3>2. r \in rises /\ r.to > ack.seen /\ r.to <= record.ts
      BY <1>4 DEF Due, Unseen
    <3>3. r.to \in Nat
      BY <3>2 DEF RisesInv, SamplesSeen, Rises
    <3>4. QED  BY <2>2, <3>2, <3>3
  <2>4. ack.lfc < record.lfc
    <3>1. Rising(ack.seen, ack.lfc) /\ resetAt < ack.seen
      BY <1>4, <2>1 DEF BaselinesRise
    <3>2. ack.seen <= record.ts
      BY <2>2, <2>3
    <3>3. QED  BY <2>1, <2>3, <3>1, <3>2 DEF Rising
  <2> DEFINE d == record.delta
             m == record.lfc - ack.lfc
             e == EffectiveDelta(d, record.lfc, ack.lfc)
             w == Within(record.drops, {t \in ToSet(record.drops) : t > ack.ts})
  <2>5. m \in Nat \ {0} /\ d \in Nat \ {0}
    BY <1>1, <2>2, <2>4
  <2>6. e = Min({d, m})
    BY <1>1, <2>2, <2>4 DEF EffectiveDelta
  <2> HIDE DEF d, m
  <2>7. Min({d, m}) \in Nat \ {0}
    <3>1. d \in Int /\ m \in Int
      BY <2>5
    <3>2. Min({d, m}) \in {d, m}
      BY <3>1, MinOfTwo
    <3>3. QED  BY <2>5, <3>2
  <2>8. ApplyAck(record, ack) = [record EXCEPT !.delta = e, !.drops = w]
    BY DEF ApplyAck, d
  <2>9. e \in Nat \ {0} /\ e # None
    BY <2>6, <2>7, HistoryConstants
  <2> HIDE DEF e, w
  <2>10. [record EXCEPT !.delta = e, !.drops = w].delta = e
    BY <2>2
  <2>11. Attention(ApplyAck(record, ack)) = "yellow"
    BY <2>8, <2>9, <2>10 DEF Attention
  <2>12. QED  BY <1>2, <1>4, <2>11
<1>5. QED  BY <1>3, <1>4

(* An acknowledgement hides nothing else: a rise that its acker did not see *)
(* and the record counts keeps the column yellow, through crashes, samples  *)
(* that are overwritten and however late the baseline is set (ack_net,      *)
(* net_apply_ack and effective_delta).                                      *)
THEOREM UnseenTrue == Spec => UnseenWarns
<1> DEFINE Inv == NetTypes /\ RisesInv /\ DeltaInv /\ BaselinesRise
<1>1. Init => Inv
  BY NetTypesInit, RisesInit, DeltaInit, BaselinesInit
<1>2. Inv /\ [Next]_vars => Inv'
  <2>1. Inv /\ [Next]_vars => DeltaInv'
    BY StepsParts, DeltaStep DEF NetTypes, RisesInv
  <2>2. QED  BY <2>1, NetTypesStep, RisesStep, BaselinesStep
<1>3. Inv /\ [Next]_vars =>
        [LET due == {r \in Unseen : /\ r.watched /\ r.to <= record.ts
                                    /\ r.from >= record.ts - Day + KeepFor}
         IN  Poll /\ LiveRecord # None /\ due # {}
              /\ (masked = None \/ now - masked > Day + RecordTTL)
              /\ (LiveAck # None => resetAt < ack.seen)
             => column' # "calm"]_vars
  BY DueWarns DEF Due
<1>4. QED  BY <1>1, <1>2, <1>3, PTL DEF Spec, UnseenWarns
=============================================================================
