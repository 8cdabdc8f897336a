---------------------------- MODULE ScreenProofs ----------------------------
(***************************************************************************)
(* Pruned cards stay away, and no card leaves unasked; what is painted     *)
(* follows what was polled, in the order it should; for any number of      *)
(* cards, hosts, scripts, slots and cells.                                 *)
(***************************************************************************)
EXTENDS Screen, ListProofs

(* What a poll admits, it has read. *)
LEMMA AdmittedRead ==
    ASSUME NEW kind, NEW limit, NEW read, NEW S \in Admitted(kind, limit, read)
    PROVE  S \subseteq read
BY DEF Admitted, kSubset

(* Every part of the screen keeps what the footer strip is proved to keep   *)
(* by its own steps.                                                        *)
StripStep == StripNext \/ (\E W : Writers(W)) \/ UNCHANGED stripVars

LEMMA ScreenStepsStrip == [ScreenNext]_screenVars => StripStep
BY DEF ScreenNext, Poll, Evict, Paint, Restart, Outside, StripStep, StripNext,
       screenVars

-----------------------------------------------------------------------------
(* A card that was evicted is silent: so is one whose command is sent, and  *)
(* one that a script has deleted and nobody published since it began.       *)
Silent ==
    /\ evicted \cap DOMAIN entries = {}
    /\ evicted \cap keys = {} /\ settled \cap keys = {}
    /\ \A p \in Pruners : (deleted[p] \ renewed[p]) \cap keys = {}

(* The shape of the scripts' tables, all that Silent needs of the types. *)
ScriptTables ==
    DOMAIN rows = Pruners /\ DOMAIN deleted = Pruners /\ DOMAIN renewed = Pruners

LEMMA SilentInit == StripInit => Silent /\ ScriptTables
BY DEF StripInit, Silent, ScriptTables

LEMMA SilentStep ==
    ASSUME Silent, ScriptTables, StripStep
    PROVE  Silent' /\ ScriptTables'
<1> USE DEF Silent, ScriptTables
<1>1. ASSUME NEW c, Publish(c) PROVE Silent' /\ ScriptTables'
  BY <1>1 DEF Publish, scriptVars, panelVars
<1>2. ASSUME NEW p \in Pruners, NEW S, StartPrune(p, S)
      PROVE  Silent' /\ ScriptTables'
  BY <1>2 DEF StartPrune, panelVars
<1>3. ASSUME NEW p \in Pruners, DeleteRow(p) PROVE Silent' /\ ScriptTables'
  BY <1>3 DEF DeleteRow, panelVars, ghostVars
<1>4. ASSUME NEW p \in Pruners, StopRows(p) PROVE Silent' /\ ScriptTables'
  BY <1>4 DEF StopRows, panelVars, ghostVars
<1>5. ASSUME NEW p \in Pruners, Send(p) PROVE Silent' /\ ScriptTables'
  BY <1>5 DEF Send, panelVars
<1>6. CASE CommandExpires \/ UNCHANGED stripVars
  BY <1>6 DEF CommandExpires, scriptVars, panelVars, ghostVars, stripVars
<1>7. CASE PollCards
  <2>1. DOMAIN entries' \subseteq DOMAIN entries \cup keys
    BY <1>7, AdmittedRead DEF PollCards
  <2>2. QED  BY <1>7, <2>1 DEF PollCards, scriptVars, ghostVars
<1>8. CASE PollEvict
  BY <1>8 DEF PollEvict, scriptVars, ghostVars
<1>9. CASE PaintStrip
  BY <1>9 DEF PaintStrip, scriptVars
<1>10. CASE StripRestart
  BY <1>10 DEF StripRestart, scriptVars, ghostVars, EmptyTable
<1>11. QED
  BY <1>1, <1>2, <1>3, <1>4, <1>5, <1>6, <1>7, <1>8, <1>9, <1>10
  DEF StripStep, StripNext, Writers

(* Polls, publishers, deleting scripts and the command that follows them    *)
(* interleave as they like: an evicted card returns only when its publisher *)
(* writes again.                                                            *)
THEOREM EvictionSticks == ScreenSpec => []EvictedStaysAway
<1>1. ScreenInit => Silent /\ ScriptTables
  BY SilentInit DEF ScreenInit
<1>2. Silent /\ ScriptTables /\ [ScreenNext]_screenVars
      => (Silent /\ ScriptTables)'
  BY SilentStep, ScreenStepsStrip
<1>3. Silent => EvictedStaysAway
  BY DEF Silent, EvictedStaysAway
<1>4. QED  BY <1>1, <1>2, <1>3, PTL DEF ScreenSpec

-----------------------------------------------------------------------------
(* The command in Redis and the targets the panel has taken are of cards    *)
(* ordered away and not evicted since.                                      *)
Pending == command \subseteq ordered /\ targets \subseteq ordered

LEMMA PendingStep == Pending /\ StripStep => Pending'
<1> SUFFICES ASSUME Pending, StripStep PROVE Pending'
  OBVIOUS
<1> USE DEF Pending
<1>1. ASSUME NEW W, Writers(W) PROVE Pending'
  BY <1>1 DEF Writers, Publish, StartPrune, DeleteRow, StopRows, Send,
              CommandExpires, panelVars, ghostVars
<1>2. CASE PollCards \/ PaintStrip \/ StripRestart \/ UNCHANGED stripVars
  BY <1>2 DEF PollCards, PaintStrip, StripRestart, ghostVars, stripVars, panelVars
<1>3. CASE PollEvict
  BY <1>3 DEF PollEvict, ghostVars, kSubset
<1>4. QED  BY <1>1, <1>2, <1>3 DEF StripStep, StripNext

(* A service or apt-temps card leaves the panel by an evict command that    *)
(* named it, and by each command once; nothing else takes one down.         *)
THEOREM OnlyOrdered == ScreenSpec => LeavesByOrderOnly
<1>1. ScreenInit => Pending
  BY DEF ScreenInit, StripInit, Pending
<1>2. Pending /\ [ScreenNext]_screenVars => Pending'
  BY PendingStep, ScreenStepsStrip
<1>3. ASSUME Pending, StripStep
      PROVE  [DOMAIN entries \ DOMAIN entries' \subseteq ordered
                \/ StripRestart]_stripVars
  <2>1. CASE PaintStrip
    BY <1>3, <2>1 DEF PaintStrip, Pending
  <2>2. CASE PollCards
    BY <2>2 DEF PollCards
  <2>3. CASE PollEvict \/ UNCHANGED stripVars
    BY <2>3 DEF PollEvict
  <2>4. ASSUME NEW W, Writers(W) PROVE entries' = entries
    BY <2>4 DEF Writers, Publish, StartPrune, DeleteRow, StopRows, Send,
                CommandExpires, panelVars
  <2>5. QED  BY <1>3, <2>1, <2>2, <2>3, <2>4 DEF StripStep, StripNext
<1>4. Pending /\ [ScreenNext]_screenVars =>
          [DOMAIN entries \ DOMAIN entries' \subseteq ordered
             \/ StripRestart]_stripVars
  BY <1>3, ScreenStepsStrip
<1>5. QED  BY <1>1, <1>2, <1>4, PTL DEF ScreenSpec, LeavesByOrderOnly

-----------------------------------------------------------------------------
(* The footer strip.                                                       *)

MovedLoop == INSTANCE Loops WITH Step <- MoveLast

LEMMA MoveLastLoop ==
    ASSUME NEW s, NEW moved PROVE AllMovedLast(s, moved) = MovedLoop!Loop(s, moved)
BY Zenon DEF AllMovedLast, FoldLeft, MovedLoop!Loop, MovedLoop!FoldLeft, MapThenFoldSet,
             MovedLoop!MapThenFoldSet, Max, MovedLoop!Max

(* What is moved last, one after the other, stands last in that order. *)
LEMMA MovedLast ==
    ASSUME NEW V, NEW s \in Seq(V), NEW moved \in Seq(V), IsInjective(moved)
    PROVE  AllMovedLast(s, moved) = Without(s, ToSet(moved)) \o moved
<1> DEFINE n == Len(moved)
           head(i) == SubSeq(moved, 1, i)
           I == [i \in 0 .. n |-> {Without(s, ToSet(head(i))) \o head(i)}]
<1>1. n \in Nat /\ DOMAIN moved = 1 .. n
  OBVIOUS
<1>2. \A i \in 0 .. n : I[i] = {Without(s, ToSet(head(i))) \o head(i)}
  OBVIOUS
<1>3. \A i \in 0 .. n : /\ head(i) \in Seq(V) /\ Len(head(i)) = i
                        /\ \A j \in 1 .. i : head(i)[j] = moved[j]
  OBVIOUS
<1>4. ASSUME NEW i \in 1 .. n
      PROVE  /\ head(i) = Append(head(i - 1), moved[i])
             /\ moved[i] \in V
             /\ moved[i] \notin ToSet(head(i - 1))
  <2>1. i - 1 \in 0 .. n
    BY <1>1
  <2>2. head(i) = Append(head(i - 1), moved[i]) /\ moved[i] \in V
    BY <1>1
  <2>3. \A j \in 1 .. i - 1 : head(i - 1)[j] = moved[j] /\ moved[j] # moved[i]
    <3>1. \A j \in 1 .. i - 1 : head(i - 1)[j] = moved[j]
      BY <1>3, <2>1
    <3>2. \A j \in 1 .. i - 1 : j \in 1 .. n /\ j # i
      BY <1>1
    <3>3. QED  BY <1>1, <3>1, <3>2 DEF IsInjective
  <2>4. DOMAIN head(i - 1) = 1 .. i - 1
    BY <1>3, <2>1
  <2>5. QED  BY <2>2, <2>3, <2>4 DEF ToSet
<1>5. head(0) = <<>> /\ ToSet(head(0)) = {} /\ head(n) = moved
  BY <1>1 DEF ToSet
<1> HIDE DEF n, head, I
<1>6. s \in I[0]
  <2>1. Without(s, {}) = s
    BY WithoutSame
  <2>2. 0 \in 0 .. n
    BY <1>1
  <2>3. s \o <<>> = s
    OBVIOUS
  <2>4. QED  BY <1>2, <1>5, <2>1, <2>2, <2>3
<1>7. ASSUME NEW i \in 1 .. n, NEW v \in I[i - 1] PROVE MoveLast(v, moved[i]) \in I[i]
  <2> DEFINE h == head(i - 1)
             c == moved[i]
             a == Without(s, ToSet(h))
  <2>1. i - 1 \in 0 .. n /\ i \in 0 .. n
    BY <1>1
  <2>2. v = a \o h
    BY <1>2, <1>7, <2>1
  <2>3. a \in Seq(V) /\ h \in Seq(V)
    BY <1>3, <2>1, WithoutFacts
  <2>31. head(i) = Append(h, c) /\ c \in V /\ c \notin ToSet(h)
    BY <1>4
  <2>32. Without(a, {c}) = Without(s, ToSet(h) \cup {c})
    BY WithoutTwice
  <2> HIDE DEF h, c, a
  <2>4. /\ head(i) = Append(h, c) /\ c \in V /\ c \notin ToSet(h)
        /\ ToSet(head(i)) = ToSet(h) \cup {c}
    <3>1. ToSet(Append(h, c)) = ToSet(h) \cup {c}
      BY <2>3, <2>31, AppendedSet
    <3>2. QED  BY <2>31, <3>1
  <2>5. Without(v, {c}) = Without(a, {c}) \o Without(h, {c})
    <3>1. \A T : Without(a \o h, T) = Without(a, T) \o Without(h, T)
      BY <2>3, WithoutConcat
    <3>2. QED  BY <2>2, <3>1
  <2>6. Without(h, {c}) = h
    <3>1. ToSet(h) \cap {c} = {}
      BY <2>4
    <3>2. QED  BY <2>3, <3>1, WithoutSame
  <2>7. Without(a, {c}) = Without(s, ToSet(head(i)))
    BY <2>4, <2>32
  <2> DEFINE b == Without(s, ToSet(head(i)))
  <2>8. b \in Seq(V)
    BY WithoutFacts
  <2> HIDE DEF b
  <2>9. Append(b \o h, c) = b \o Append(h, c)
    <3>1. Append(b \o h, c) = (b \o h) \o <<c>> /\ Append(h, c) = h \o <<c>>
      <4>1. b \o h \in Seq(V)
        BY <2>3, <2>8
      <4>2. QED  BY <2>3, <2>4, <4>1, AppendedIs
    <3>2. (b \o h) \o <<c>> = b \o (h \o <<c>>)
      BY <2>3, <2>4, <2>8
    <3>3. QED  BY <3>1, <3>2
  <2>10. MoveLast(v, c) = b \o head(i)
    BY <2>4, <2>5, <2>6, <2>7, <2>9 DEF MoveLast, b
  <2>11. QED  BY <1>2, <2>1, <2>10 DEF b, c
<1>8. MovedLoop!Loop(s, moved) \in I[n]
  BY <1>6, <1>7, MovedLoop!LoopKeeps DEF n
<1>9. n \in 0 .. n
  BY <1>1
<1>10. QED  BY <1>2, <1>5, <1>8, <1>9, MoveLastLoop

(* An arranged strip: what is neither a staleness card nor a zone, then the *)
(* staleness cards, then the zones.                                         *)
StandsBehind(front, kept, services, zones) ==
    /\ Arranged(kept, services, zones) = front \o (stale \o zones)
    /\ IsInjective(front)
    /\ ToSet(front) = (ToSet(kept) \cup ToSet(services))
                         \ (ToSet(stale) \cup ToSet(zones))

LEMMA ArrangedStands ==
    ASSUME NEW V, stale \in Seq(V), IsInjective(stale),
           NEW kept \in Seq(V), IsInjective(kept),
           NEW services \in Seq(V), IsInjective(services),
           NEW zones \in Seq(V), IsInjective(zones),
           ToSet(stale) \cap ToSet(zones) = {}
    PROVE  \E front \in Seq(V) : StandsBehind(front, kept, services, zones)
<1> DEFINE created == Without(services, ToSet(kept))
           all == kept \o created
           S == ToSet(stale)
           Z == ToSet(zones)
           front == Without(all, S \cup Z)
<1>1. /\ created \in Seq(V) /\ IsInjective(created)
      /\ ToSet(created) = ToSet(services) \ ToSet(kept)
  BY WithoutFacts
<1> HIDE DEF created
<1>2. /\ all \in Seq(V) /\ IsInjective(all)
      /\ ToSet(all) = ToSet(kept) \cup ToSet(services)
  <2>1. all \in Seq(V) /\ ToSet(all) = ToSet(kept) \cup ToSet(created)
    BY <1>1, ConcatSet
  <2>2. ToSet(kept) \cap ToSet(created) = {}
    BY <1>1
  <2>3. IsInjective(all)
    BY <1>1, <2>2, ConcatInjective
  <2>4. QED  BY <1>1, <2>1, <2>3
<1>3. Arranged(kept, services, zones) = AllMovedLast(AllMovedLast(all, stale), zones)
  BY DEF Arranged, created
<1> HIDE DEF all
<1>4. AllMovedLast(all, stale) = Without(all, S) \o stale
  BY <1>2, MovedLast
<1>5. Without(all, S) \in Seq(V)
  BY <1>2, WithoutFacts
<1>6. AllMovedLast(Without(all, S) \o stale, zones)
         = Without(Without(all, S) \o stale, Z) \o zones
  <2>1. Without(all, S) \o stale \in Seq(V)
    BY <1>5
  <2>2. QED  BY <2>1, MovedLast
<1>7. Without(Without(all, S) \o stale, Z) = Without(Without(all, S), Z) \o Without(stale, Z)
  <2> DEFINE b == Without(all, S)
  <2>1. b \in Seq(V)
    BY <1>5
  <2> HIDE DEF b
  <2>2. \A T : Without(b \o stale, T) = Without(b, T) \o Without(stale, T)
    BY <2>1, WithoutConcat, SMTT(60)
  <2>3. QED  BY <2>2 DEF b
<1>8. Without(stale, Z) = stale
  BY WithoutSame
<1>9. Without(Without(all, S), Z) = front
  BY <1>2, WithoutTwice
<1>10. /\ front \in Seq(V) /\ IsInjective(front)
       /\ ToSet(front) = ToSet(all) \ (S \cup Z)
  BY <1>2, WithoutFacts
<1> HIDE DEF front
<1>11. Arranged(kept, services, zones) = front \o (stale \o zones)
  <2>1. (front \o stale) \o zones = front \o (stale \o zones)
    BY <1>10
  <2>2. QED  BY <1>3, <1>4, <1>6, <1>7, <1>8, <1>9, <2>1
<1>12. QED  BY <1>2, <1>10, <1>11 DEF StandsBehind

-----------------------------------------------------------------------------
(* The arrays of the strip name no card twice. *)
StripArrays ==
    /\ strip \in Seq(Cards \cup StaleHosts) /\ IsInjective(strip)
    /\ stale \in Seq(StaleHosts) /\ IsInjective(stale)

StripInv == StripTypeOK /\ StripArrays /\ StripMirrorsEntries /\ GroupsInOrder

(* Whatever the array held, the paint makes it follow entries and stale. *)
LEMMA PaintStripArranges ==
    ASSUME StripTypeOK, StripArrays, PaintStrip
    PROVE  StripArrays' /\ StripMirrorsEntries' /\ GroupsInOrder'
<1> DEFINE V == Cards \cup StaleHosts
           D == DOMAIN entries'
           kept == Within(strip, ToSet(stale) \cup {c \in D : entries[c]})
           services == Ascending(D \cap Services)
           zones == Ascending(D \cap Zones)
<1>1. stale' = stale /\ strip' = Arranged(kept, services, zones) /\ D \subseteq Cards
  BY Zenon DEF PaintStrip, StripTypeOK
<1>2. ToSet(stale) \subseteq StaleHosts /\ stale \in Seq(V) /\ IsInjective(stale)
  BY DEF StripArrays, ToSet
<1>3. /\ services \in Seq(V) /\ IsInjective(services) /\ ToSet(services) = D \cap Services
      /\ zones \in Seq(V) /\ IsInjective(zones) /\ ToSet(zones) = D \cap Zones
  <2>1. /\ D \cap Services \in SUBSET Int /\ IsFiniteSet(D \cap Services)
        /\ D \cap Zones \in SUBSET Int /\ IsFiniteSet(D \cap Zones)
    <3>1. /\ D \cap Services \in SUBSET Services /\ Services \subseteq Int
          /\ D \cap Zones \in SUBSET Zones /\ Zones \subseteq Int
      BY StripConstants
    <3> HIDE DEF D
    <3>2. QED  BY <3>1, StripConstants, FS_Subset
  <2>2. /\ services \in Seq(D \cap Services) /\ zones \in Seq(D \cap Zones)
        /\ IsInjective(services) /\ ToSet(services) = D \cap Services
        /\ IsInjective(zones) /\ ToSet(zones) = D \cap Zones
    BY <2>1, AscendingFacts
  <2> HIDE DEF services, zones, D
  <2>3. QED  BY <2>2 DEF Cards
<1>4. /\ kept \in Seq(V) /\ IsInjective(kept)
      /\ ToSet(kept) \subseteq ToSet(stale) \cup D
  BY WithinFacts DEF StripArrays
<1>5. ToSet(stale) \cap ToSet(zones) = {} /\ ToSet(stale) \cap D = {}
  BY <1>1, <1>2, <1>3, StripConstants
<1> HIDE DEF kept, services, zones, D, V
<1>6. PICK front \in Seq(V) :
          /\ Arranged(kept, services, zones) = front \o (stale \o zones)
          /\ IsInjective(front)
          /\ ToSet(front) = (ToSet(kept) \cup ToSet(services))
                               \ (ToSet(stale) \cup ToSet(zones))
  <2>1. \E front \in Seq(V) : StandsBehind(front, kept, services, zones)
    BY <1>2, <1>3, <1>4, <1>5, ArrangedStands
  <2>2. QED  BY <2>1 DEF StandsBehind
<1> DEFINE back == stale \o zones
<1>7. back \in Seq(V) /\ ToSet(back) = ToSet(stale) \cup ToSet(zones) /\ IsInjective(back)
  BY <1>2, <1>3, <1>5, ConcatSet, ConcatInjective
<1> HIDE DEF back
<1>8. /\ front \o back \in Seq(V) /\ ToSet(front \o back) = ToSet(front) \cup ToSet(back)
      /\ IsInjective(front \o back)
  <2>1. ToSet(front) \cap ToSet(back) = {}
    BY <1>6, <1>7
  <2>2. QED  BY <1>6, <1>7, <2>1, ConcatSet, ConcatInjective
<1>9. strip' = front \o back
  BY <1>1, <1>6 DEF back
<1>10. StripArrays'
  BY <1>1, <1>8, <1>9 DEF StripArrays, V
<1>11. StripMirrorsEntries'
  <2>1. ToSet(strip') = D \cup ToSet(stale)
    BY <1>1, <1>3, <1>4, <1>6, <1>7, <1>8, <1>9 DEF Cards
  <2>2. QED  BY <1>1, <1>8, <1>9, <2>1 DEF StripMirrorsEntries, D
<1>12. GroupsInOrder'
  <2>1. /\ SubSeq(strip', 1, Len(front)) = front
        /\ SubSeq(strip', Len(front) + 1, Len(strip')) = stale' \o zones
        /\ Len(front) \in 0 .. Len(strip')
    BY <1>1, <1>6, <1>7, <1>9, ConcatParts, ConcatEntries DEF back
  <2>2. ToSet(front) \subseteq Services
    BY <1>1, <1>3, <1>4, <1>6 DEF Cards
  <2>3. QED  BY <2>1, <2>2 DEF GroupsInOrder, zones, D
<1>13. QED  BY <1>10, <1>11, <1>12

(* Admission respects the capacity of the array. *)
LEMMA AdmittedFits ==
    ASSUME NEW kind, IsFiniteSet(kind), NEW limit \in Nat, NEW read,
           Cardinality(DOMAIN entries \cap kind) <= limit,
           NEW S \in Admitted(kind, limit, read)
    PROVE  /\ S \subseteq read \cap kind
           /\ Cardinality((DOMAIN entries \cap kind) \cup S) <= limit
<1> DEFINE held == DOMAIN entries \cap kind
           new == (read \cap kind) \ held
           k == Min({limit - Cardinality(held), Cardinality(new)})
<1>1. held \in SUBSET kind /\ new \in SUBSET kind
  OBVIOUS
<1>2. S \in kSubset(k, new)
  BY DEF Admitted
<1>3. IsFiniteSet(held) /\ IsFiniteSet(new) /\ held \cap new = {}
  BY <1>1, FS_Subset
<1>4. Cardinality(held) <= limit /\ new \subseteq read \cap kind
  OBVIOUS
<1> HIDE DEF held, new, k
<1>5. Cardinality(held) \in Nat /\ Cardinality(new) \in Nat
  BY <1>3, FS_CardinalityType
<1>6. k <= limit - Cardinality(held) /\ k \in Int
  BY <1>5, MinOfTwo DEF k
<1>7. S \subseteq new /\ IsFiniteSet(S) /\ Cardinality(S) = k
  BY <1>2, <1>3, SubsetOfSize
<1>8. Cardinality(held \cup S) = Cardinality(held) + Cardinality(S)
  <2>1. held \cap S = {}
    BY <1>3, <1>7
  <2>2. /\ Cardinality(held \cup S)
              = Cardinality(held) + Cardinality(S) - Cardinality(held \cap S)
        /\ Cardinality(held \cap S) = 0 /\ Cardinality(S) \in Nat
    BY <1>3, <1>7, <2>1, FS_Union, FS_EmptySet, FS_CardinalityType
  <2>3. QED  BY <1>5, <2>2
<1>9. Cardinality(held \cup S) <= limit
  BY <1>5, <1>6, <1>7, <1>8
<1>10. QED  BY <1>4, <1>7, <1>9 DEF held

LEMMA PollCardsTypes ==
    ASSUME StripTypeOK, PollCards
    PROVE  StripTypeOK'
<1>1. PICK read \in SUBSET keys :
        \E s \in Admitted(Services, ServiceMax, read),
           z \in Admitted(Zones, ZoneMax, read) :
            entries' = [c \in DOMAIN entries \cup s \cup z |->
                           c \in DOMAIN entries /\ entries[c]]
  BY DEF PollCards
<1>2. PICK s \in Admitted(Services, ServiceMax, read),
           z \in Admitted(Zones, ZoneMax, read) :
            entries' = [c \in DOMAIN entries \cup s \cup z |->
                           c \in DOMAIN entries /\ entries[c]]
  BY <1>1
<1>3. /\ s \subseteq Services /\ z \subseteq Zones
      /\ Cardinality((DOMAIN entries \cap Services) \cup s) <= ServiceMax
      /\ Cardinality((DOMAIN entries \cap Zones) \cup z) <= ZoneMax
  <2>1. /\ IsFiniteSet(Services) /\ ServiceMax \in Nat
        /\ IsFiniteSet(Zones) /\ ZoneMax \in Nat
        /\ Cardinality(DOMAIN entries \cap Services) <= ServiceMax
        /\ Cardinality(DOMAIN entries \cap Zones) <= ZoneMax
    BY StripConstants DEF StripTypeOK
  <2>2. /\ s \subseteq read \cap Services
        /\ Cardinality((DOMAIN entries \cap Services) \cup s) <= ServiceMax
    BY <2>1, AdmittedFits
  <2>3. /\ z \subseteq read \cap Zones
        /\ Cardinality((DOMAIN entries \cap Zones) \cup z) <= ZoneMax
    BY <2>1, AdmittedFits
  <2>4. QED  BY <2>2, <2>3
<1>4. DOMAIN entries' = DOMAIN entries \cup s \cup z
  BY <1>2
<1>5. \A c \in DOMAIN entries' : entries'[c] \in BOOLEAN
  BY <1>2, <1>4 DEF StripTypeOK
<1>6. /\ DOMAIN entries' \cap Services = (DOMAIN entries \cap Services) \cup s
      /\ DOMAIN entries' \cap Zones = (DOMAIN entries \cap Zones) \cup z
  BY <1>3, <1>4, StripConstants
<1>7. DOMAIN entries' \subseteq Cards
  BY <1>3, <1>4 DEF StripTypeOK, Cards
<1>8. QED
  BY <1>3, <1>5, <1>6, <1>7, Zenon DEF StripTypeOK, PollCards, scriptVars, ghostVars

LEMMA StaleTablesOK ==
    ASSUME StripArrays, NEW t \in StaleTables
    PROVE  t \in Seq(StaleHosts) /\ IsInjective(t)
<1>1. stale \in Seq(StaleHosts) /\ IsInjective(stale)
  BY DEF StripArrays
<1>2. CASE t = stale
  BY <1>1, <1>2
<1>3. ASSUME NEW h \in StaleHosts, h \notin ToSet(stale), t = Append(stale, h)
      PROVE  t \in Seq(StaleHosts) /\ IsInjective(t)
  <2>1. Append(stale, h) \in Seq(StaleHosts)
    BY <1>1, <1>3
  <2>2. IsInjective(Append(stale, h))
    BY <1>1, <1>3, AppendedSet
  <2>3. QED  BY <1>3, <2>1, <2>2
<1>4. ASSUME NEW h, t = Without(stale, {h})
      PROVE  t \in Seq(StaleHosts) /\ IsInjective(t)
  BY <1>1, <1>4, WithoutFacts
<1>5. QED  BY <1>2, <1>3, <1>4 DEF StaleTables

LEMMA PollEvictTypes ==
    ASSUME StripTypeOK, StripArrays, PollEvict
    PROVE  StripTypeOK' /\ StripArrays'
<1>1. stale' \in Seq(StaleHosts) /\ IsInjective(stale')
  BY StaleTablesOK DEF PollEvict
<1>2. ToSet(stale') \subseteq StaleHosts
  BY <1>1 DEF ToSet
<1>3. targets' \subseteq Cards /\ Cardinality(targets') <= TargetsMax
  <2>1. CASE UNCHANGED targets
    BY <2>1 DEF StripTypeOK
  <2>2. CASE targets' \in kSubset(Min({TargetsMax, Cardinality(command)}), command)
    <3>1. IsFiniteSet(Cards)
      BY StripConstants, FS_Union DEF Cards
    <3>2. command \in SUBSET Cards
      BY DEF StripTypeOK
    <3>3. IsFiniteSet(command) /\ Cardinality(command) \in Nat
      BY <3>1, <3>2, FS_Subset, FS_CardinalityType
    <3> DEFINE k == Min({TargetsMax, Cardinality(command)})
    <3>4. k <= TargetsMax
      BY <3>3, MinOfTwo, StripConstants
    <3> HIDE DEF k
    <3>5. targets' \subseteq command /\ Cardinality(targets') = k
      BY <2>2, <3>3, SubsetOfSize DEF k
    <3>6. QED  BY <3>2, <3>4, <3>5
  <2>3. QED  BY <2>1, <2>2 DEF PollEvict
<1>4. command' \subseteq Cards /\ strip' = strip /\ pc' = "paint"
  BY DEF PollEvict, StripTypeOK
<1>5. StripTypeOK'
  BY <1>2, <1>3, <1>4, Zenon DEF StripTypeOK, PollEvict, scriptVars, ghostVars
<1>6. QED  BY <1>1, <1>4, <1>5 DEF StripArrays

LEMMA PaintStripTypes ==
    ASSUME StripTypeOK, StripArrays, PaintStrip
    PROVE  StripTypeOK'
<1>1. StripArrays'
  BY PaintStripArranges
<1>2. ToSet(strip') \subseteq Cards \cup StaleHosts
  BY <1>1 DEF StripArrays, ToSet
<1>3. /\ entries' = [c \in DOMAIN entries \ targets |-> TRUE]
      /\ DOMAIN entries' = DOMAIN entries \ targets
  BY DEF PaintStrip
<1>4. ASSUME NEW kind, IsFiniteSet(kind), NEW limit \in Nat,
             Cardinality(DOMAIN entries \cap kind) <= limit
      PROVE  Cardinality(DOMAIN entries' \cap kind) <= limit
  <2> DEFINE A == DOMAIN entries \cap kind
             B == DOMAIN entries' \cap kind
  <2>1. A \in SUBSET kind /\ B \in SUBSET A
    BY <1>3
  <2>2. Cardinality(A) <= limit
    BY <1>4
  <2> HIDE DEF A, B
  <2>3. IsFiniteSet(A) /\ IsFiniteSet(B) /\ Cardinality(B) <= Cardinality(A)
    BY <1>4, <2>1, FS_Subset
  <2>4. Cardinality(A) \in Nat /\ Cardinality(B) \in Nat
    BY <2>3, FS_CardinalityType
  <2>5. QED  BY <2>2, <2>3, <2>4 DEF B
<1>5. /\ Cardinality(DOMAIN entries' \cap Services) <= ServiceMax
      /\ Cardinality(DOMAIN entries' \cap Zones) <= ZoneMax
  <2>1. /\ IsFiniteSet(Services) /\ ServiceMax \in Nat
        /\ IsFiniteSet(Zones) /\ ZoneMax \in Nat
        /\ Cardinality(DOMAIN entries \cap Services) <= ServiceMax
        /\ Cardinality(DOMAIN entries \cap Zones) <= ZoneMax
    BY StripConstants DEF StripTypeOK
  <2>2. Cardinality(DOMAIN entries' \cap Services) <= ServiceMax
    BY <1>4, <2>1
  <2>3. Cardinality(DOMAIN entries' \cap Zones) <= ZoneMax
    BY <1>4, <2>1
  <2>4. QED  BY <2>2, <2>3
<1>6. /\ DOMAIN entries' \subseteq Cards
      /\ \A c \in DOMAIN entries' : entries'[c] \in BOOLEAN
  BY <1>3 DEF StripTypeOK
<1>7. targets' \subseteq Cards /\ Cardinality(targets') <= TargetsMax
  <2>1. targets' = {} /\ TargetsMax \in Nat
    BY StripConstants DEF PaintStrip
  <2>2. QED  BY <2>1, FS_EmptySet
<1>8. /\ evicted' \subseteq Cards /\ settled' \subseteq Cards /\ ordered' \subseteq Cards
      /\ pc' = "idle"
  BY DEF PaintStrip, StripTypeOK
<1>9. UNCHANGED <<keys, command, scriptVars, stale, renewed>>
  BY DEF PaintStrip
<1>10. QED
  BY <1>2, <1>5, <1>6, <1>7, <1>8, <1>9, Zenon DEF StripTypeOK, scriptVars

LEMMA WritersTypes ==
    ASSUME StripTypeOK, NEW W, Writers(W)
    PROVE  StripTypeOK' /\ UNCHANGED panelVars
<1>1. ASSUME NEW c \in Cards, Publish(c) PROVE StripTypeOK' /\ UNCHANGED panelVars
  BY <1>1 DEF Publish, StripTypeOK, scriptVars, panelVars
<1>2. ASSUME NEW p \in Pruners, NEW S \in SUBSET Cards, StartPrune(p, S)
      PROVE  StripTypeOK' /\ UNCHANGED panelVars
  BY <1>2 DEF StartPrune, StripTypeOK, panelVars
<1>3. ASSUME NEW p \in Pruners, DeleteRow(p) PROVE StripTypeOK' /\ UNCHANGED panelVars
  BY <1>3 DEF DeleteRow, StripTypeOK, panelVars, ghostVars
<1>4. ASSUME NEW p \in Pruners, StopRows(p) PROVE StripTypeOK' /\ UNCHANGED panelVars
  BY <1>4 DEF StopRows, StripTypeOK, panelVars, ghostVars
<1>5. ASSUME NEW p \in Pruners, Send(p) PROVE StripTypeOK' /\ UNCHANGED panelVars
  <2>1. deleted[p] \subseteq Cards
    BY DEF StripTypeOK
  <2>2. QED  BY <1>5, <2>1 DEF Send, StripTypeOK, panelVars
<1>6. CASE CommandExpires
  BY <1>6 DEF CommandExpires, StripTypeOK, scriptVars, panelVars, ghostVars
<1>7. QED
  <2>1. \A S : S \in SUBSET (Cards \cap W) => S \in SUBSET Cards
    OBVIOUS
  <2>2. QED  BY <1>1, <1>2, <1>3, <1>4, <1>5, <1>6, <2>1 DEF Writers

LEMMA EmptyStrip ==
    ASSUME NEW s, NEW e, NEW t, s = <<>>, t = <<>>, e = EmptyTable
    PROVE  /\ ToSet(s) = {} /\ ToSet(t) = {} /\ DOMAIN e = {}
           /\ IsInjective(s) /\ IsInjective(t)
           /\ Cardinality(DOMAIN e \cap Services) = 0
           /\ Cardinality(DOMAIN e \cap Zones) = 0
           /\ \E k \in 0 .. Len(s) :
                 /\ ToSet(SubSeq(s, 1, k)) \subseteq Services
                 /\ SubSeq(s, k + 1, Len(s)) = t \o Ascending(DOMAIN e \cap Zones)
<1>1. /\ ToSet(<<>>) = {} /\ IsInjective(<<>>) /\ Cardinality({}) = 0
      /\ DOMAIN EmptyTable = {}
  BY FS_EmptySet DEF ToSet, IsInjective, EmptyTable
<1>2. {} \cap Services = {} /\ {} \cap Zones = {}
  OBVIOUS
<1>3. <<>> \in Seq({}) /\ Len(<<>>) = 0
  OBVIOUS
<1>4. Ascending({}) = <<>>
  <2>1. Ascending({}) \in Seq({}) /\ Len(Ascending({})) = 0
    BY <1>1, FS_EmptySet, AscendingFacts
  <2>2. QED  BY <2>1
<1>5. SubSeq(<<>>, 1, 0) = <<>> /\ SubSeq(<<>>, 0 + 1, 0) = <<>> \o <<>> /\ 0 \in 0 .. 0
  OBVIOUS
<1>6. QED  BY <1>1, <1>2, <1>3, <1>4, <1>5

LEMMA StripInvInit == StripInit => StripInv
<1> SUFFICES ASSUME StripInit PROVE StripInv
  OBVIOUS
<1>1. /\ strip = <<>> /\ stale = <<>> /\ entries = EmptyTable
      /\ Cardinality(targets) = 0
  BY FS_EmptySet DEF StripInit
<1>2. StripTypeOK
  <2>1. /\ ToSet(strip) = {} /\ ToSet(stale) = {} /\ DOMAIN entries = {}
        /\ Cardinality(DOMAIN entries \cap Services) = 0
        /\ Cardinality(DOMAIN entries \cap Zones) = 0
    BY <1>1, EmptyStrip
  <2>2. 0 <= ServiceMax /\ 0 <= ZoneMax /\ 0 <= TargetsMax
    BY StripConstants
  <2>3. QED  BY <1>1, <2>1, <2>2 DEF StripInit, StripTypeOK
<1>3. StripArrays /\ StripMirrorsEntries /\ GroupsInOrder
  <2>1. strip \in Seq(Cards \cup StaleHosts) /\ stale \in Seq(StaleHosts)
    BY <1>1
  <2>2. QED
    BY <1>1, <2>1, EmptyStrip, Zenon DEF StripArrays, StripMirrorsEntries, GroupsInOrder
<1>4. QED  BY <1>2, <1>3 DEF StripInv

LEMMA StripInvStep == StripInv /\ StripStep => StripInv'
<1> SUFFICES ASSUME StripInv, StripStep PROVE StripInv'
  OBVIOUS
<1>1. CASE UNCHANGED panelVars /\ StripTypeOK'
  BY <1>1, Zenon DEF StripInv, StripArrays, StripMirrorsEntries, GroupsInOrder, panelVars
<1>2. ASSUME NEW W, Writers(W) PROVE StripInv'
  BY <1>1, <1>2, WritersTypes DEF StripInv
<1>3. CASE UNCHANGED stripVars
  <2>1. StripTypeOK' /\ UNCHANGED panelVars
    BY <1>3, Zenon DEF StripInv, StripTypeOK, stripVars, scriptVars, panelVars, ghostVars
  <2>2. QED  BY <1>1, <2>1
<1>4. CASE PollCards
  <2>1. StripTypeOK'
    BY <1>4, PollCardsTypes DEF StripInv
  <2>2. UNCHANGED <<stale, strip>> /\ pc' # "idle"
    BY <1>4 DEF PollCards
  <2>3. QED
    BY <2>1, <2>2 DEF StripInv, StripArrays, StripMirrorsEntries, GroupsInOrder
<1>5. CASE PollEvict
  <2>1. StripTypeOK' /\ StripArrays'
    BY <1>5, PollEvictTypes DEF StripInv
  <2>2. pc' # "idle"
    BY <1>5 DEF PollEvict
  <2>3. QED  BY <2>1, <2>2 DEF StripInv, StripMirrorsEntries, GroupsInOrder
<1>6. CASE PaintStrip
  BY <1>6, PaintStripTypes, PaintStripArranges DEF StripInv
<1>7. CASE StripRestart
  <2>1. /\ strip' = <<>> /\ stale' = <<>> /\ entries' = EmptyTable
        /\ Cardinality(targets') = 0
    BY <1>7, FS_EmptySet DEF StripRestart
  <2>2. StripTypeOK'
    <3>1. /\ ToSet(strip') = {} /\ ToSet(stale') = {} /\ DOMAIN entries' = {}
          /\ Cardinality(DOMAIN entries' \cap Services) = 0
          /\ Cardinality(DOMAIN entries' \cap Zones) = 0
      BY <2>1, EmptyStrip
    <3>2. 0 <= ServiceMax /\ 0 <= ZoneMax /\ 0 <= TargetsMax
      BY StripConstants
    <3>3. QED
      BY <1>7, <2>1, <3>1, <3>2
      DEF StripInv, StripRestart, StripTypeOK, scriptVars, ghostVars
  <2>3. StripArrays' /\ StripMirrorsEntries' /\ GroupsInOrder'
    <3>1. strip' \in Seq(Cards \cup StaleHosts) /\ stale' \in Seq(StaleHosts)
      BY <2>1
    <3>2. QED
      BY <2>1, <3>1, EmptyStrip, Zenon
      DEF StripArrays, StripMirrorsEntries, GroupsInOrder
  <2>4. QED  BY <2>2, <2>3 DEF StripInv
<1>8. QED
  BY <1>2, <1>3, <1>4, <1>5, <1>6, <1>7 DEF StripStep, StripNext

-----------------------------------------------------------------------------
(* The client grid.                                                        *)

ExchangeLoop == INSTANCE Loops WITH Step <- ExchangeIf
LeastLoop == INSTANCE Loops WITH Step <- LeastTo

(* What an arrangement of the hosts S is: a list without repetition. *)
Orders(S) == {s \in Seq(S) : IsInjective(s) /\ ToSet(s) = S}

(* The sort compares ranks: a host without priority comes after all others. *)
RankOf(h) == IF PriorityIndex(h) = 0 THEN Len(Priority) + 1 ELSE PriorityIndex(h)

LEMMA PriorityRange ==
    ASSUME NEW h
    PROVE  /\ PriorityIndex(h) \in 0 .. Len(Priority)
           /\ RankOf(h) \in 1 .. Len(Priority) + 1
<1>1. Len(Priority) \in Nat /\ DOMAIN Priority = 1 .. Len(Priority)
  BY GridConstants
<1>2. CASE h \in ToSet(Priority)
  <2>1. \E i \in DOMAIN Priority : Priority[i] = h
    BY <1>2 DEF ToSet
  <2>2. PriorityIndex(h) \in DOMAIN Priority
    BY <1>2, <2>1 DEF PriorityIndex
  <2>3. QED  BY <1>1, <2>2 DEF RankOf
<1>3. CASE h \notin ToSet(Priority)
  BY <1>1, <1>3 DEF PriorityIndex, RankOf
<1>4. QED  BY <1>2, <1>3

LEMMA OutranksIsRank ==
    ASSUME NEW g, NEW h
    PROVE  Outranks(g, h) <=> RankOf(g) < RankOf(h)
<1>1. /\ PriorityIndex(g) \in 0 .. Len(Priority)
      /\ PriorityIndex(h) \in 0 .. Len(Priority)
      /\ Len(Priority) \in Nat
  BY PriorityRange, GridConstants
<1>2. QED  BY <1>1 DEF Outranks, RankOf

LEMMA ExchangeOrders ==
    ASSUME NEW S, NEW s \in Orders(S), NEW i \in 1 .. Len(s), NEW j \in 1 .. Len(s),
           i # j
    PROVE  /\ Exchange(s, i, j) \in Orders(S)
           /\ Len(Exchange(s, i, j)) = Len(s)
           /\ \A k \in 1 .. Len(s) : Exchange(s, i, j)[k] =
                  IF k = i THEN s[j] ELSE IF k = j THEN s[i] ELSE s[k]
<1> DEFINE t == Exchange(s, i, j)
           n == Len(s)
<1>1. /\ s \in [1 .. n -> S] /\ n \in Nat /\ DOMAIN s = 1 .. n
      /\ IsInjective(s) /\ ToSet(s) = S
  BY DEF Orders
<1>2. \A k \in 1 .. n : t[k] = IF k = i THEN s[j] ELSE IF k = j THEN s[i] ELSE s[k]
  BY <1>1 DEF Exchange
<1>3. t \in [1 .. n -> S]
  BY <1>1 DEF Exchange
<1> HIDE DEF t
<1>4. t \in Seq(S) /\ Len(t) = n /\ DOMAIN t = 1 .. n
  BY <1>1, <1>3
<1>5. IsInjective(t)
  BY <1>1, <1>2, <1>4 DEF IsInjective
<1>6. ToSet(t) = S
  <2>1. ToSet(t) \subseteq S
    BY <1>3, <1>4 DEF ToSet
  <2>2. ASSUME NEW x \in S PROVE \E k \in 1 .. n : t[k] = x
    <3>1. PICK k \in 1 .. n : s[k] = x
      BY <1>1 DEF ToSet
    <3>2. CASE k = i
      BY <1>2, <3>1, <3>2
    <3>3. CASE k = j
      BY <1>2, <3>1, <3>3
    <3>4. QED  BY <1>2, <3>1, <3>2, <3>3
  <2>3. QED  BY <1>4, <2>1, <2>2 DEF ToSet
<1>7. QED  BY <1>2, <1>4, <1>5, <1>6 DEF Orders, t

(* The first i places of s are settled: nothing behind them goes before. *)
Settled(s, i) == \A a \in 1 .. i : \A b \in a + 1 .. Len(s) : RankOf(s[a]) <= RankOf(s[b])

LEMMA LeastToSettles ==
    ASSUME NEW S, NEW s \in Orders(S), NEW i \in 1 .. Len(s), Settled(s, i - 1)
    PROVE  /\ LeastTo(s, i) \in Orders(S)
           /\ Len(LeastTo(s, i)) = Len(s)
           /\ Settled(LeastTo(s, i), i)
<1> DEFINE n == Len(s)
           pairs == [k \in 1 .. n - i |-> <<i, i + k>>]
           W == (1 .. n) \X (1 .. n)
           I == [m \in 0 .. n - i |->
                   {t \in Orders(S) : /\ Len(t) = n /\ Settled(t, i - 1)
                                      /\ \A b \in i + 1 .. i + m : RankOf(t[i]) <= RankOf(t[b])}]
<1>1. n \in Nat
  BY DEF Orders
<1>2. pairs \in Seq(W) /\ Len(pairs) = n - i /\ \A k \in 1 .. n - i : pairs[k] = <<i, i + k>>
  BY <1>1
<1>3. \A m \in 0 .. n - i : I[m] =
         {t \in Orders(S) : /\ Len(t) = n /\ Settled(t, i - 1)
                            /\ \A b \in i + 1 .. i + m : RankOf(t[i]) <= RankOf(t[b])}
  OBVIOUS
<1> HIDE DEF I, pairs, W, n
<1>4. s \in I[0]
  <2>1. 0 \in 0 .. n - i /\ \A b \in i + 1 .. i + 0 : FALSE
    BY <1>1 DEF n
  <2>2. QED  BY <1>3, <2>1 DEF n
<1>5. ASSUME NEW k \in 1 .. Len(pairs), NEW t \in I[k - 1]
      PROVE  ExchangeIf(t, pairs[k]) \in I[k]
  <2> DEFINE j == i + k
             u == ExchangeIf(t, pairs[k])
  <2>1. /\ k \in 1 .. n - i /\ k - 1 \in 0 .. n - i /\ k \in 0 .. n - i
        /\ i \in 1 .. n /\ j \in i + 1 .. n /\ j \in 1 .. n /\ i # j
    BY <1>1, <1>2 DEF n
  <2>2. /\ t \in Orders(S) /\ Len(t) = n /\ Settled(t, i - 1)
        /\ \A b \in i + 1 .. i + (k - 1) : RankOf(t[i]) <= RankOf(t[b])
    BY <1>3, <1>5, <2>1
  <2>3. u = IF RankOf(t[j]) < RankOf(t[i]) THEN Exchange(t, i, j) ELSE t
    BY <1>2, <2>1, OutranksIsRank DEF ExchangeIf
  <2>4. \A a \in 1 .. n : RankOf(t[a]) \in Int
    BY PriorityRange, GridConstants
  <2>5. \A b \in i + 1 .. i + k : b \in i + 1 .. i + (k - 1) \/ b = j
    BY <2>1
  <2>6. CASE ~(RankOf(t[j]) < RankOf(t[i]))
    <3>1. u = t
      BY <2>3, <2>6
    <3>2. RankOf(t[i]) <= RankOf(t[j])
      BY <2>1, <2>4, <2>6
    <3>3. \A b \in i + 1 .. i + k : RankOf(t[i]) <= RankOf(t[b])
      BY <2>2, <2>5, <3>2
    <3>4. t \in I[k]
      BY <1>3, <2>1, <2>2, <3>3
    <3>5. QED  BY <3>1, <3>4
  <2>7. CASE RankOf(t[j]) < RankOf(t[i])
    <3>1. u = Exchange(t, i, j)
      BY <2>3, <2>7
    <3> HIDE DEF u
    <3>2. /\ u \in Orders(S) /\ Len(u) = n
          /\ \A b \in 1 .. n : u[b] =
                 IF b = i THEN t[j] ELSE IF b = j THEN t[i] ELSE t[b]
      <4>1. i \in 1 .. Len(t) /\ j \in 1 .. Len(t) /\ i # j
        BY <2>1, <2>2
      <4>2. /\ Exchange(t, i, j) \in Orders(S) /\ Len(Exchange(t, i, j)) = Len(t)
            /\ \A b \in 1 .. Len(t) : Exchange(t, i, j)[b] =
                 IF b = i THEN t[j] ELSE IF b = j THEN t[i] ELSE t[b]
        BY <2>2, <4>1, ExchangeOrders, SMTT(60)
      <4>3. QED  BY <2>2, <3>1, <4>2, Zenon
    <3>3. Settled(u, i - 1)
      <4>1. SUFFICES ASSUME NEW a \in 1 .. i - 1, NEW b \in a + 1 .. n
                     PROVE  RankOf(u[a]) <= RankOf(u[b])
        BY <3>2 DEF Settled
      <4>2. a \in 1 .. n /\ b \in 1 .. n /\ a # i /\ a # j /\ i \in a + 1 .. n /\ j \in a + 1 .. n
        BY <1>1, <2>1
      <4>3. u[a] = t[a] /\ \E c \in a + 1 .. n : u[b] = t[c]
        BY <3>2, <4>2
      <4>4. QED  BY <2>2, <4>3 DEF Settled
    <3>4. \A b \in i + 1 .. i + k : RankOf(u[i]) <= RankOf(u[b])
      <4>1. SUFFICES ASSUME NEW b \in i + 1 .. i + k PROVE RankOf(u[i]) <= RankOf(u[b])
        OBVIOUS
      <4>2. u[i] = t[j] /\ i \in 1 .. n /\ b \in 1 .. n /\ b # i
        BY <1>1, <2>1, <3>2
      <4>3. CASE b = j
        <5>1. u[b] = t[i]
          BY <2>1, <3>2, <4>3
        <5>2. QED  BY <2>1, <2>4, <2>7, <4>2, <5>1
      <4>4. CASE b # j
        <5>1. u[b] = t[b] /\ RankOf(t[i]) <= RankOf(t[b])
          BY <2>2, <2>5, <3>2, <4>2, <4>4
        <5>2. QED  BY <2>1, <2>4, <2>7, <4>2, <5>1
      <4>5. QED  BY <4>3, <4>4
    <3>5. u \in I[k]
      BY <1>3, <2>1, <3>2, <3>3, <3>4
    <3>6. QED  BY <3>5 DEF u
  <2>8. QED  BY <2>6, <2>7
<1>6. LeastTo(s, i) = ExchangeLoop!Loop(s, pairs)
  BY Zenon DEF LeastTo, FoldLeft, ExchangeLoop!Loop, ExchangeLoop!FoldLeft,
     MapThenFoldSet, ExchangeLoop!MapThenFoldSet, Max, ExchangeLoop!Max, pairs, n
<1>7. LeastTo(s, i) \in I[n - i]
  <2>1. ExchangeLoop!Loop(s, pairs) \in I[Len(pairs)]
    BY <1>2, <1>4, <1>5, ExchangeLoop!LoopKeeps
  <2>2. QED  BY <1>2, <1>6, <2>1
<1> DEFINE r == LeastTo(s, i)
<1>8. /\ r \in Orders(S) /\ Len(r) = n /\ Settled(r, i - 1)
      /\ \A b \in i + 1 .. i + (n - i) : RankOf(r[i]) <= RankOf(r[b])
  <2>1. n - i \in 0 .. n - i
    BY <1>1 DEF n
  <2>2. QED  BY <1>3, <1>7, <2>1
<1> HIDE DEF r
<1>9. Settled(r, i)
  <2>1. SUFFICES ASSUME NEW a \in 1 .. i, NEW b \in a + 1 .. n
                 PROVE  RankOf(r[a]) <= RankOf(r[b])
    BY <1>8 DEF Settled
  <2>2. a \in 1 .. i - 1 \/ a = i
    BY <1>1 DEF n
  <2>3. i + (n - i) = n
    BY <1>1 DEF n
  <2>4. QED  BY <1>8, <2>2, <2>3 DEF Settled
<1>10. QED  BY <1>8, <1>9 DEF r, n

(* The nested loops sort. *)
LEMMA ByPrioritySorts ==
    ASSUME NEW S, NEW hosts \in Orders(S)
    PROVE  /\ ByPriority(hosts) \in Orders(S)
           /\ Len(ByPriority(hosts)) = Len(hosts)
           /\ Settled(ByPriority(hosts), Len(hosts))
<1> DEFINE n == Len(hosts)
           turns == [i \in 1 .. n |-> i]
           W == 1 .. n
           I == [i \in 0 .. n |->
                   {s \in Orders(S) : Len(s) = n /\ Settled(s, i)}]
<1>1. n \in Nat
  BY DEF Orders
<1>2. turns \in Seq(W) /\ Len(turns) = n /\ \A i \in 1 .. n : turns[i] = i
  BY <1>1
<1>3. \A i \in 0 .. n : I[i] = {s \in Orders(S) : Len(s) = n /\ Settled(s, i)}
  OBVIOUS
<1> HIDE DEF I, turns, W, n
<1>4. hosts \in I[0]
  <2>1. 0 \in 0 .. n /\ Settled(hosts, 0)
    BY <1>1 DEF Settled
  <2>2. QED  BY <1>3, <2>1 DEF n
<1>5. ASSUME NEW i \in 1 .. Len(turns), NEW s \in I[i - 1]
      PROVE  LeastTo(s, turns[i]) \in I[i]
  <2>1. i \in 1 .. n /\ i - 1 \in 0 .. n /\ i \in 0 .. n /\ turns[i] = i
    BY <1>1, <1>2
  <2>2. s \in Orders(S) /\ Len(s) = n /\ Settled(s, i - 1)
    BY <1>3, <1>5, <2>1
  <2>3. /\ LeastTo(s, i) \in Orders(S) /\ Len(LeastTo(s, i)) = n
        /\ Settled(LeastTo(s, i), i)
    BY <2>1, <2>2, LeastToSettles
  <2>4. QED  BY <1>3, <2>1, <2>3
<1>6. ByPriority(hosts) = LeastLoop!Loop(hosts, turns)
  BY Zenon DEF ByPriority, FoldLeft, LeastLoop!Loop, LeastLoop!FoldLeft,
     MapThenFoldSet, LeastLoop!MapThenFoldSet, Max, LeastLoop!Max, turns, n
<1>7. LeastLoop!Loop(hosts, turns) \in I[Len(turns)]
  BY <1>2, <1>4, <1>5, LeastLoop!LoopKeeps
<1>8. n \in 0 .. n
  BY <1>1
<1>9. QED  BY <1>2, <1>3, <1>6, <1>7, <1>8 DEF n

CardLoop == INSTANCE Loops WITH Step <- AddCard
PlaceLoop == INSTANCE Loops WITH Step <- MoveHost

(* An array of cards or of objects. *)
CardArrays == {s \in Seq(Clients) : IsInjective(s) /\ Len(s) <= MaxClients}

(* New cards come behind those there are, and only a full array lacks one. *)
LEMMA CardsAdded ==
    ASSUME cards \in CardArrays, NEW S \in SUBSET Clients, NEW hosts \in Orders(S)
    PROVE  LET made == WithNewCards(hosts)
           IN  /\ made \in CardArrays
               /\ ToSet(cards) \subseteq ToSet(made)
               /\ ToSet(made) \subseteq ToSet(cards) \cup S
               /\ S \subseteq ToSet(made) \/ Len(made) = MaxClients
<1> DEFINE n == Len(hosts)
           I == [i \in 0 .. n |->
                  {s \in CardArrays :
                     /\ ToSet(cards) \subseteq ToSet(s)
                     /\ ToSet(s) \subseteq ToSet(cards) \cup S
                     /\ \/ \A j \in 1 .. i : hosts[j] \in ToSet(s)
                        \/ Len(s) = MaxClients}]
<1>1. n \in Nat /\ hosts \in Seq(S) /\ S = {hosts[j] : j \in 1 .. n}
  BY DEF Orders, ToSet
<1>2. \A i \in 0 .. n : I[i] =
                  {s \in CardArrays :
                     /\ ToSet(cards) \subseteq ToSet(s)
                     /\ ToSet(s) \subseteq ToSet(cards) \cup S
                     /\ \/ \A j \in 1 .. i : hosts[j] \in ToSet(s)
                        \/ Len(s) = MaxClients}
  OBVIOUS
<1> HIDE DEF I, n
<1>3. cards \in I[0]
  <2>1. 0 \in 0 .. n /\ \A j \in 1 .. 0 : FALSE
    BY <1>1
  <2>2. QED  BY <1>2, <2>1
<1>4. ASSUME NEW i \in 1 .. Len(hosts), NEW s \in I[i - 1]
      PROVE  AddCard(s, hosts[i]) \in I[i]
  <2> DEFINE h == hosts[i]
  <2>1. i - 1 \in 0 .. n /\ i \in 0 .. n
    BY <1>1 DEF n
  <2>2. h \in S
    BY <1>1 DEF n
  <2>3. /\ s \in CardArrays
        /\ ToSet(cards) \subseteq ToSet(s)
        /\ ToSet(s) \subseteq ToSet(cards) \cup S
        /\ \/ \A j \in 1 .. i - 1 : hosts[j] \in ToSet(s)
           \/ Len(s) = MaxClients
    BY <1>2, <1>4, <2>1
  <2>4. \A j \in 1 .. i : j \in 1 .. i - 1 \/ j = i
    BY <1>1
  <2>5. Len(s) \in Nat /\ MaxClients \in Nat /\ Len(s) <= MaxClients
    BY <2>3, GridConstants DEF CardArrays
  <2>6. CASE h \in ToSet(s)
    BY <1>2, <2>1, <2>3, <2>4, <2>6 DEF AddCard
  <2>7. CASE h \notin ToSet(s) /\ Len(s) >= MaxClients
    BY <1>2, <2>1, <2>3, <2>5, <2>7 DEF AddCard
  <2>8. CASE h \notin ToSet(s) /\ Len(s) < MaxClients
    <3> DEFINE t == Append(s, h)
    <3>1. AddCard(s, h) = t
      BY <2>5, <2>8 DEF AddCard
    <3>2. s \in Seq(Clients) /\ IsInjective(s) /\ h \in Clients
      BY <2>2, <2>3 DEF CardArrays
    <3>3. t \in Seq(Clients) /\ IsInjective(t) /\ ToSet(t) = ToSet(s) \cup {h}
      <4>1. t \in Seq(Clients)
        BY <3>2
      <4>2. QED  BY <2>8, <3>2, <4>1, AppendedSet
    <3>4. Len(t) = Len(s) + 1
      BY <3>2
    <3> HIDE DEF t
    <3>5. t \in CardArrays
      BY <2>5, <2>8, <3>3, <3>4 DEF CardArrays
    <3>6. \A j \in 1 .. i : hosts[j] \in ToSet(t) \/ Len(t) = MaxClients
      BY <2>3, <2>4, <2>5, <2>8, <3>3
    <3>7. \/ \A j \in 1 .. i : hosts[j] \in ToSet(t)
          \/ Len(t) = MaxClients
      BY <3>6
    <3>8. ToSet(cards) \subseteq ToSet(t) /\ ToSet(t) \subseteq ToSet(cards) \cup S
      BY <2>2, <2>3, <3>3
    <3> HIDE DEF h
    <3>9. t \in I[i]
      BY <1>2, <2>1, <3>5, <3>7, <3>8
    <3>10. QED  BY <3>1, <3>9 DEF h
  <2>9. QED  BY <2>5, <2>6, <2>7, <2>8
<1>5. WithNewCards(hosts) = CardLoop!Loop(cards, hosts)
  BY Zenon DEF WithNewCards, FoldLeft, CardLoop!Loop, CardLoop!FoldLeft,
     MapThenFoldSet, CardLoop!MapThenFoldSet, Max, CardLoop!Max
<1>6. CardLoop!Loop(cards, hosts) \in I[n]
  BY <1>1, <1>3, <1>4, CardLoop!LoopKeeps DEF n
<1>7. n \in 0 .. n
  BY <1>1
<1> DEFINE made == WithNewCards(hosts)
<1>8. /\ made \in CardArrays
      /\ ToSet(cards) \subseteq ToSet(made)
      /\ ToSet(made) \subseteq ToSet(cards) \cup S
      /\ \/ \A j \in 1 .. n : hosts[j] \in ToSet(made)
         \/ Len(made) = MaxClients
  BY <1>2, <1>5, <1>6, <1>7
<1> HIDE DEF made
<1>9. /\ made \in CardArrays
      /\ ToSet(cards) \subseteq ToSet(made)
      /\ ToSet(made) \subseteq ToSet(cards) \cup S
      /\ S \subseteq ToSet(made) \/ Len(made) = MaxClients
  BY <1>1, <1>8
<1>10. QED  BY <1>9 DEF made

(* An object that is moved keeps its company. *)
LEMMA MoveToKeeps ==
    ASSUME NEW V, NEW s \in Seq(V), IsInjective(s), NEW h, NEW i \in Nat \ {0}
    PROVE  /\ MoveTo(s, h, i) \in Seq(V) /\ IsInjective(MoveTo(s, h, i))
           /\ ToSet(MoveTo(s, h, i)) = ToSet(s)
<1>1. CASE h \in ToSet(s) /\ i <= Len(s)
  <2> DEFINE w == Without(s, {h})
  <2>1. w \in Seq(V) /\ IsInjective(w) /\ ToSet(w) = ToSet(s) \ {h}
    BY WithoutFacts
  <2> HIDE DEF w
  <2>2. Len(w) = Len(s) - 1
    <3>1. /\ IsFiniteSet(ToSet(s)) /\ Cardinality(ToSet(s)) = Len(s)
          /\ Cardinality(ToSet(w)) = Len(w)
      BY <2>1, InjectiveLength
    <3>2. Cardinality(ToSet(s) \ {h}) = Cardinality(ToSet(s)) - 1
      BY <1>1, <3>1, FS_RemoveElement
    <3>3. QED  BY <2>1, <3>1, <3>2
  <2>3. i \in 1 .. Len(w) + 1 /\ h \in V /\ h \notin ToSet(w)
    <3>1. h \in V
      BY <1>1 DEF ToSet
    <3>2. i \in 1 .. Len(w) + 1
      <4>1. Len(s) \in Nat /\ i <= Len(s)
        BY <1>1
      <4>2. QED  BY <2>2, <4>1
    <3>3. QED  BY <2>1, <3>1, <3>2
  <2>4. /\ InsertAt(w, i, h) \in Seq(V) /\ IsInjective(InsertAt(w, i, h))
        /\ ToSet(InsertAt(w, i, h)) = ToSet(w) \cup {h}
    BY <2>1, <2>3, Inserted
  <2>5. MoveTo(s, h, i) = InsertAt(w, i, h)
    BY <1>1 DEF MoveTo, w
  <2>6. QED  BY <1>1, <2>1, <2>4, <2>5
<1>2. CASE ~(h \in ToSet(s) /\ i <= Len(s))
  BY <1>2 DEF MoveTo
<1>3. QED  BY <1>1, <1>2

(* A host moved behind the places that are settled. *)
LEMMA MovedBehind ==
    ASSUME NEW V, NEW p \in Seq(V), NEW q \in Seq(V), IsInjective(p \o q),
           NEW h \in ToSet(q)
    PROVE  \E r \in Seq(V) : MoveTo(p \o q, h, Len(p) + 1) = Append(p, h) \o r
<1> DEFINE s == p \o q
           r == Without(q, {h})
<1>1. /\ s \in Seq(V) /\ Len(s) = Len(p) + Len(q) /\ ToSet(s) = ToSet(p) \cup ToSet(q)
      /\ Len(p) \in Nat /\ Len(q) \in Nat
  BY ConcatEntries, ConcatSet
<1>2. ToSet(p) \cap {h} = {} /\ h \in V
  <2>1. ToSet(p) \cap ToSet(q) = {}
    BY InjectiveParts
  <2>2. h \in V
    BY DEF ToSet
  <2>3. QED  BY <2>1, <2>2
<1>3. Len(q) # 0
  BY DEF ToSet
<1>4. MoveTo(s, h, Len(p) + 1) = InsertAt(Without(s, {h}), Len(p) + 1, h)
  BY <1>1, <1>3 DEF MoveTo
<1>5. Without(p, {h}) = p
  BY <1>2, WithoutSame
<1>6. Without(s, {h}) = Without(p, {h}) \o r
  <2>1. \A T : Without(p \o q, T) = Without(p, T) \o Without(q, T)
    BY WithoutConcat
  <2>2. QED  BY <2>1
<1>7. r \in Seq(V)
  BY WithoutFacts
<1> HIDE DEF s, r
<1>8. InsertAt(p \o r, Len(p) + 1, h) = (p \o <<h>>) \o r
  BY <1>7, InsertedBehind
<1>9. Append(p, h) = p \o <<h>>
  BY <1>2, AppendedIs
<1>10. MoveTo(s, h, Len(p) + 1) = Append(p, h) \o r
  BY <1>4, <1>5, <1>6, <1>8, <1>9
<1>11. QED  BY <1>7, <1>10 DEF s

(* The objects keep their company; with one for each client, and no other,  *)
(* they end in the clients' order.                                          *)
LEMMA AllMovedKeeps ==
    ASSUME NEW s \in Seq(Clients), IsInjective(s),
           NEW S \in SUBSET Clients, NEW hosts \in Orders(S)
    PROVE  LET r == AllMovedTo(s, hosts)
           IN  /\ r \in Seq(Clients) /\ IsInjective(r) /\ ToSet(r) = ToSet(s)
               /\ ToSet(s) = S => r = hosts
<1> DEFINE n == Len(hosts)
           pairs == [i \in 1 .. n |-> <<hosts[i], i>>]
           head(i) == SubSeq(hosts, 1, i)
           W == S \X Nat
           I == [i \in 0 .. n |->
                   {t \in Seq(Clients) :
                      /\ IsInjective(t) /\ ToSet(t) = ToSet(s)
                      /\ ToSet(s) = S => \E q \in Seq(Clients) : t = head(i) \o q}]
<1>1. /\ n \in Nat /\ hosts \in Seq(S) /\ hosts \in Seq(Clients)
      /\ IsInjective(hosts) /\ ToSet(hosts) = S /\ DOMAIN hosts = 1 .. n
  BY DEF Orders
<1>2. pairs \in Seq(W) /\ Len(pairs) = n /\ \A i \in 1 .. n : pairs[i] = <<hosts[i], i>>
  BY <1>1
<1>3. \A i \in 0 .. n : I[i] =
                   {t \in Seq(Clients) :
                      /\ IsInjective(t) /\ ToSet(t) = ToSet(s)
                      /\ ToSet(s) = S => \E q \in Seq(Clients) : t = head(i) \o q}
  OBVIOUS
<1>4. \A i \in 0 .. n : head(i) \in Seq(Clients) /\ Len(head(i)) = i
  BY <1>1
<1>5. \A i \in 1 .. n : head(i) = Append(head(i - 1), hosts[i])
  BY <1>1
<1>6. head(0) = <<>> /\ head(n) = hosts
  BY <1>1
<1> HIDE DEF I, pairs, head, W, n
<1>7. s \in I[0]
  <2>1. s = <<>> \o s /\ 0 \in 0 .. n
    BY <1>1
  <2>2. QED  BY <1>3, <1>6, <2>1
<1>8. ASSUME NEW i \in 1 .. Len(pairs), NEW t \in I[i - 1]
      PROVE  MoveHost(t, pairs[i]) \in I[i]
  <2> DEFINE h == hosts[i]
             u == MoveTo(t, h, i)
             p == head(i - 1)
  <2>1. i - 1 \in 0 .. n /\ i \in 0 .. n /\ i \in 1 .. n /\ i \in Nat \ {0} /\ h \in S
    BY <1>1, <1>2 DEF n
  <2>2. /\ t \in Seq(Clients) /\ IsInjective(t) /\ ToSet(t) = ToSet(s)
        /\ ToSet(s) = S => \E q \in Seq(Clients) : t = p \o q
    BY <1>3, <1>8, <2>1
  <2>3. MoveHost(t, pairs[i]) = u
    BY <1>2, <2>1 DEF MoveHost
  <2>4. u \in Seq(Clients) /\ IsInjective(u) /\ ToSet(u) = ToSet(s)
    BY <2>1, <2>2, MoveToKeeps
  <2>5. ASSUME ToSet(s) = S PROVE \E q \in Seq(Clients) : u = head(i) \o q
    <3>1. PICK q \in Seq(Clients) : t = p \o q
      BY <2>2, <2>5
    <3>2. p \in Seq(Clients) /\ Len(p) + 1 = i /\ head(i) = Append(p, h)
      BY <1>4, <1>5, <2>1
    <3>3. h \notin ToSet(p)
      <4>1. Append(p, h) \in Seq(Clients) /\ Len(Append(p, h)) = i
        BY <1>4, <2>1, <3>2
      <4>2. \A j \in 1 .. i - 1 : head(i - 1)[j] = hosts[j]
        BY <1>1, <2>1 DEF head
      <4>3. \A j \in 1 .. i - 1 : j \in 1 .. n /\ j # i
        BY <1>1, <2>1
      <4>4. \A j \in 1 .. i - 1 : p[j] # h
        BY <1>1, <2>1, <4>2, <4>3 DEF IsInjective
      <4>5. DOMAIN p = 1 .. i - 1
        BY <1>4, <2>1
      <4>6. QED  BY <4>4, <4>5 DEF ToSet
    <3>4. h \in ToSet(q)
      <4>1. ToSet(t) = ToSet(p) \cup ToSet(q)
        BY <3>1, <3>2, ConcatSet
      <4>2. QED  BY <2>1, <2>2, <2>5, <3>3, <4>1
    <3> HIDE DEF u, p, h
    <3>5. \E r \in Seq(Clients) : MoveTo(p \o q, h, Len(p) + 1) = Append(p, h) \o r
      BY <2>2, <3>1, <3>2, <3>4, MovedBehind
    <3>6. QED  BY <3>1, <3>2, <3>5 DEF u
  <2> HIDE DEF u
  <2>6. QED  BY <1>3, <2>1, <2>3, <2>4, <2>5
<1>9. AllMovedTo(s, hosts) = PlaceLoop!Loop(s, pairs)
  BY Zenon DEF AllMovedTo, FoldLeft, PlaceLoop!Loop, PlaceLoop!FoldLeft,
     MapThenFoldSet, PlaceLoop!MapThenFoldSet, Max, PlaceLoop!Max, pairs, n
<1>10. PlaceLoop!Loop(s, pairs) \in I[n]
  <2>1. PlaceLoop!Loop(s, pairs) \in I[Len(pairs)]
    BY <1>2, <1>7, <1>8, PlaceLoop!LoopKeeps
  <2>2. QED  BY <1>2, <2>1
<1> DEFINE r == AllMovedTo(s, hosts)
<1>11. /\ r \in Seq(Clients) /\ IsInjective(r) /\ ToSet(r) = ToSet(s)
       /\ ToSet(s) = S => \E q \in Seq(Clients) : r = hosts \o q
  <2>1. n \in 0 .. n
    BY <1>1
  <2>2. QED  BY <1>3, <1>6, <1>9, <1>10, <2>1
<1> HIDE DEF r
<1>12. ASSUME ToSet(s) = S PROVE r = hosts
  <2>1. PICK q \in Seq(Clients) : r = hosts \o q
    BY <1>11, <1>12
  <2>2. ToSet(hosts) \cap ToSet(q) = {} /\ ToSet(r) = ToSet(hosts) \cup ToSet(q)
    BY <1>1, <1>11, <2>1, InjectiveParts, ConcatSet
  <2>3. ToSet(q) = {}
    BY <1>1, <1>11, <1>12, <2>2
  <2>4. Len(q) = 0
    <3>1. \A j \in 1 .. Len(q) : q[j] \in ToSet(q)
      BY DEF ToSet
    <3>2. QED  BY <2>3, <3>1
  <2>5. q = <<>>
    BY <2>4
  <2>6. QED  BY <1>1, <2>1, <2>5
<1>13. QED  BY <1>11, <1>12 DEF r

-----------------------------------------------------------------------------
LEMMA SlotsAreArrays ==
    ASSUME NEW s, IsInjective(s)
    PROVE  s \in Slots(MaxClients) <=> s \in CardArrays
<1>1. ASSUME s \in Slots(MaxClients) PROVE s \in CardArrays
  <2>1. PICK k \in 0 .. MaxClients : s \in [1 .. k -> Clients]
    BY <1>1 DEF Slots
  <2>2. s \in Seq(Clients) /\ Len(s) = k
    BY <2>1
  <2>3. QED  BY <2>1, <2>2, GridConstants DEF CardArrays
<1>2. ASSUME s \in CardArrays PROVE s \in Slots(MaxClients)
  <2>1. s \in [1 .. Len(s) -> Clients] /\ Len(s) \in 0 .. MaxClients
    BY <1>2, GridConstants DEF CardArrays
  <2>2. QED  BY <2>1 DEF Slots
<1>3. QED  BY <1>1, <1>2

(* A finite set that is covered by a list. *)
LEMMA ArrayLength ==
    ASSUME NEW s \in Seq(Clients), IsInjective(s), NEW S, IsFiniteSet(S), ToSet(s) \subseteq S
    PROVE  /\ Len(s) <= Cardinality(S)
           /\ Len(s) = Cardinality(S) => ToSet(s) = S
<1>1. IsFiniteSet(ToSet(s)) /\ Cardinality(ToSet(s)) = Len(s)
  BY InjectiveLength
<1>2. QED  BY <1>1, FS_Subset

(* The client grid: the array of hosts, the cards, the objects.  A poll of  *)
(* at most MaxClients hosts leaves the array within its bounds, and what    *)
(* was painted last was no more.                                            *)
GridInv ==
    /\ clients \in CardArrays /\ cards \in CardArrays /\ grid \in CardArrays
    /\ ToSet(grid) = ToSet(cards) /\ ToSet(cards) \subseteq before
    /\ before \subseteq Clients /\ Cardinality(before) <= MaxClients
    /\ ToSet(grid) = before =>
          \A i \in 1 .. Len(grid) : \A j \in i + 1 .. Len(grid) :
              RankOf(grid[i]) <= RankOf(grid[j])

LEMMA GridInvTells ==
    GridInv => GridTypeOK /\ GridMirrorsCards /\ PriorityLeads
<1> SUFFICES ASSUME GridInv PROVE GridTypeOK /\ GridMirrorsCards /\ PriorityLeads
  OBVIOUS
<1>1. GridTypeOK
  <2>1. \A s \in CardArrays : IsInjective(s) /\ s \in Slots(MaxClients)
    BY SlotsAreArrays DEF CardArrays
  <2>2. QED  BY <2>1 DEF GridInv, GridTypeOK
<1>2. GridMirrorsCards
  BY DEF GridInv, GridMirrorsCards
<1>3. PriorityLeads
  <2>1. SUFFICES ASSUME ToSet(grid) = before, NEW i \in DOMAIN grid, NEW j \in DOMAIN grid,
                        i < j, PriorityIndex(grid[j]) > 0
                 PROVE  PriorityIndex(grid[i]) \in 1 .. PriorityIndex(grid[j])
    BY DEF PriorityLeads
  <2>2. i \in 1 .. Len(grid) /\ j \in i + 1 .. Len(grid)
    BY <2>1 DEF GridInv, CardArrays
  <2>3. RankOf(grid[i]) <= RankOf(grid[j])
    BY <2>1, <2>2, Zenon DEF GridInv
  <2>4. /\ PriorityIndex(grid[i]) \in 0 .. Len(Priority)
        /\ PriorityIndex(grid[j]) \in 0 .. Len(Priority)
        /\ Len(Priority) \in Nat
    BY PriorityRange, GridConstants
  <2>5. QED  BY <2>1, <2>3, <2>4 DEF RankOf
<1>4. QED  BY <1>1, <1>2, <1>3

LEMMA EmptyGrid ==
    ASSUME NEW s, s = <<>>
    PROVE  s \in CardArrays /\ ToSet(s) = {} /\ Len(s) = 0
BY GridConstants DEF CardArrays, IsInjective, ToSet

LEMMA GridInvInit == GridInit => GridInv
BY EmptyGrid, FS_EmptySet, GridConstants DEF GridInit, GridInv

LEMMA GridInvRestart == GridInv /\ GridRestart => GridInv'
BY EmptyGrid, FS_EmptySet, GridConstants DEF GridRestart, GridInv

LEMMA GridInvPoll ==
    ASSUME GridInv, NEW S \in SUBSET Clients, PollClients(S)
    PROVE  GridInv'
<1> DEFINE kept == Within(clients, S)
           new == S \ ToSet(kept)
<1>1. PICK admitted \in SUBSET new : \E order \in SetToSeqs(admitted) :
          clients' = kept \o order
  BY DEF PollClients
<1>2. PICK order \in SetToSeqs(admitted) : clients' = kept \o order
  BY <1>1
<1>3. Cardinality(S) <= MaxClients /\ UNCHANGED <<cards, grid, before>>
  BY DEF PollClients
<1>4. clients \in Seq(Clients) /\ IsInjective(clients)
  BY DEF GridInv, CardArrays
<1>5. kept \in Seq(Clients) /\ IsInjective(kept) /\ ToSet(kept) \subseteq S
  BY <1>4, WithinFacts
<1>6. admitted \subseteq S /\ ToSet(kept) \cap admitted = {}
  OBVIOUS
<1> HIDE DEF kept, new
<1>7. IsFiniteSet(S) /\ IsFiniteSet(admitted)
  BY <1>6, GridConstants, FS_Subset
<1>8. order \in Seq(Clients) /\ IsInjective(order) /\ ToSet(order) \subseteq admitted
  <2>1. Cardinality(admitted) \in Nat
    BY <1>7, FS_CardinalityType
  <2>2. /\ order \in [1 .. Cardinality(admitted) -> admitted]
        /\ \A i, j \in 1 .. Cardinality(admitted) : i # j => order[i] # order[j]
    BY DEF SetToSeqs
  <2>3. order \in Seq(admitted)
    BY <2>1, <2>2
  <2>4. order \in Seq(Clients)
    BY <1>6, <2>3
  <2>5. QED  BY <2>2, <2>4 DEF IsInjective, ToSet
<1>9. /\ clients' \in Seq(Clients) /\ IsInjective(clients') /\ ToSet(clients') \subseteq S
  <2>1. ToSet(kept) \cap ToSet(order) = {}
    BY <1>6, <1>8
  <2>2. ToSet(kept \o order) = ToSet(kept) \cup ToSet(order) /\ IsInjective(kept \o order)
    BY <1>5, <1>8, <2>1, ConcatSet, ConcatInjective
  <2>3. QED  BY <1>2, <1>5, <1>6, <1>8, <2>2
<1>10. clients' \in CardArrays
  <2>1. Len(clients') <= Cardinality(S) /\ Cardinality(S) \in Nat /\ Len(clients') \in Nat
    BY <1>7, <1>9, ArrayLength, FS_CardinalityType
  <2>2. QED  BY <1>3, <1>9, <2>1, GridConstants DEF CardArrays
<1>11. QED  BY <1>3, <1>10, Zenon DEF GridInv

(* The paint: objects follow cards, cards follow clients, and newcomers are *)
(* turned away only by a full array.                                        *)
LEMMA GridInvPaint ==
    ASSUME GridInv, PaintGrid
    PROVE  GridInv' /\ (before' \subseteq before => before' \subseteq ToSet(cards'))
<1> DEFINE S == ToSet(clients)
           sorted == ByPriority(clients)
           made == WithNewCards(sorted)
           present == Within(made, S)
           fresh == Without(present, ToSet(cards))
           left == Within(grid, S)
           both == left \o fresh
<1>1. /\ clients' = clients /\ cards' = present /\ before' = S
      /\ grid' = AllMovedTo(both, sorted)
  BY DEF PaintGrid
<1>2. /\ clients \in CardArrays /\ cards \in CardArrays /\ grid \in CardArrays
      /\ ToSet(grid) = ToSet(cards) /\ ToSet(cards) \subseteq before
      /\ before \subseteq Clients /\ Cardinality(before) <= MaxClients
  BY DEF GridInv
<1>3. S \in SUBSET Clients /\ clients \in Orders(S)
  BY <1>2 DEF CardArrays, Orders, ToSet
<1> HIDE DEF S, sorted, made, present, fresh, left, both
<1>4. /\ sorted \in Orders(S) /\ Len(sorted) = Len(clients)
      /\ Settled(sorted, Len(clients))
  BY <1>3, ByPrioritySorts DEF sorted
<1>5. /\ made \in CardArrays
      /\ ToSet(cards) \subseteq ToSet(made)
      /\ ToSet(made) \subseteq ToSet(cards) \cup S
      /\ S \subseteq ToSet(made) \/ Len(made) = MaxClients
  BY <1>2, <1>3, <1>4, CardsAdded DEF made
<1>6. /\ present \in Seq(Clients) /\ IsInjective(present)
      /\ Len(present) <= Len(made) /\ ToSet(present) = ToSet(made) \cap S
  BY <1>5, WithinFacts DEF CardArrays, present
<1>7. present \in CardArrays
  <2>1. Len(made) <= MaxClients /\ Len(made) \in Nat /\ Len(present) \in Nat
    BY <1>5, <1>6 DEF CardArrays
  <2>2. QED  BY <1>6, <2>1, GridConstants DEF CardArrays
<1>8. /\ fresh \in Seq(Clients) /\ IsInjective(fresh)
      /\ ToSet(fresh) = ToSet(present) \ ToSet(cards)
  BY <1>6, WithoutFacts DEF fresh
<1>9. /\ left \in Seq(Clients) /\ IsInjective(left)
      /\ ToSet(left) = ToSet(grid) \cap S
  BY <1>2, WithinFacts DEF CardArrays, left
<1>10. /\ both \in Seq(Clients) /\ IsInjective(both) /\ ToSet(both) = ToSet(present)
  <2>1. ToSet(left) \cap ToSet(fresh) = {}
    BY <1>2, <1>8, <1>9
  <2>2. /\ both \in Seq(Clients) /\ IsInjective(both)
        /\ ToSet(both) = ToSet(left) \cup ToSet(fresh)
    BY <1>8, <1>9, <2>1, ConcatSet, ConcatInjective DEF both
  <2>3. QED  BY <1>2, <1>5, <1>6, <1>8, <1>9, <2>2
<1>11. /\ grid' \in Seq(Clients) /\ IsInjective(grid') /\ ToSet(grid') = ToSet(present)
       /\ ToSet(present) = S => grid' = sorted
  BY <1>1, <1>3, <1>4, <1>10, AllMovedKeeps
<1>12. grid' \in CardArrays
  <2>1. Len(grid') = Cardinality(ToSet(present)) /\ Len(present) = Cardinality(ToSet(present))
    BY <1>6, <1>11, InjectiveLength
  <2>2. QED  BY <1>7, <1>11, <2>1 DEF CardArrays
<1>13. IsFiniteSet(S) /\ Cardinality(S) = Len(clients) /\ Len(clients) <= MaxClients
  BY <1>2, InjectiveLength DEF S, CardArrays
<1>14. ASSUME ToSet(grid') = before'
       PROVE  \A i \in 1 .. Len(grid') : \A j \in i + 1 .. Len(grid') :
                 RankOf(grid'[i]) <= RankOf(grid'[j])
  <2>1. grid' = sorted
    BY <1>1, <1>11, <1>14
  <2>2. QED  BY <1>4, <2>1, Zenon DEF Settled
<1>15. GridInv'
  <2>1. clients' \in CardArrays /\ cards' \in CardArrays /\ before' \subseteq Clients
    BY <1>1, <1>2, <1>3, <1>7
  <2>2. ToSet(grid') = ToSet(cards') /\ ToSet(cards') \subseteq before'
    BY <1>1, <1>6, <1>11
  <2>3. Cardinality(before') <= MaxClients
    BY <1>1, <1>13
  <2>4. QED  BY <1>12, <1>14, <2>1, <2>2, <2>3, Zenon DEF GridInv
<1>16. ASSUME before' \subseteq before PROVE before' \subseteq ToSet(cards')
  <2>1. S \subseteq before /\ ToSet(made) \subseteq before
    BY <1>1, <1>2, <1>5, <1>16
  <2>2. S \subseteq ToSet(made)
    <3>1. CASE Len(made) = MaxClients
      <4>1. IsFiniteSet(before) /\ Cardinality(before) \in Nat
        BY <1>2, GridConstants, FS_Subset, FS_CardinalityType
      <4>2. made \in Seq(Clients) /\ IsInjective(made) /\ Len(made) \in Nat
        BY <1>5 DEF CardArrays
      <4>3. Len(made) <= Cardinality(before)
        BY <2>1, <4>1, <4>2, ArrayLength
      <4>4. Len(made) = Cardinality(before)
        BY <1>2, <3>1, <4>1, <4>2, <4>3
      <4>5. ToSet(made) = before
        BY <2>1, <4>1, <4>2, <4>4, ArrayLength
      <4>6. QED  BY <2>1, <4>5
    <3>2. QED  BY <1>5, <3>1
  <2>3. QED  BY <1>1, <1>6, <2>2
<1>17. QED  BY <1>15, <1>16

-----------------------------------------------------------------------------
(* The graphs and the network card.                                        *)

UsedLoop == INSTANCE Loops WITH Step <- AddCells
RoomLoop == INSTANCE Loops WITH Step <- Place
CellLoop == INSTANCE Loops WITH Step <- Allocate

(* What is asked of the pool: each request takes GraphCells cells. *)
Asked == [kind : {0, 4}, cells : {GraphCells}, payload : GraphHosts \cup {NetCard}]

LEMMA UsedCells ==
    ASSUME NEW placed \in Seq(Asked)
    PROVE  Used(placed) = Len(placed) * GraphCells
<1> DEFINE n == Len(placed)
           I == [i \in 0 .. n |-> {i * GraphCells}]
<1>1. n \in Nat /\ GraphCells \in Nat
  BY PoolConstants
<1>2. \A i \in 0 .. n : I[i] = {i * GraphCells}
  OBVIOUS
<1> HIDE DEF I, n
<1>3. 0 \in I[0]
  BY <1>1, <1>2
<1>4. ASSUME NEW i \in 1 .. Len(placed), NEW v \in I[i - 1]
      PROVE  AddCells(v, placed[i]) \in I[i]
  <2>1. i - 1 \in 0 .. n /\ i \in 0 .. n /\ placed[i] \in Asked
    BY <1>1 DEF n
  <2>2. v = (i - 1) * GraphCells /\ placed[i].cells = GraphCells
    BY <1>2, <1>4, <2>1 DEF Asked
  <2>3. (i - 1) * GraphCells + GraphCells = i * GraphCells
    BY <1>1
  <2>4. QED  BY <1>2, <2>1, <2>2, <2>3 DEF AddCells
<1>5. Used(placed) = UsedLoop!Loop(0, placed)
  BY Zenon DEF Used, FoldLeft, UsedLoop!Loop, UsedLoop!FoldLeft,
     MapThenFoldSet, UsedLoop!MapThenFoldSet, Max, UsedLoop!Max
<1>6. UsedLoop!Loop(0, placed) \in I[n]
  BY <1>3, <1>4, UsedLoop!LoopKeeps DEF n
<1>7. n \in 0 .. n
  BY <1>1
<1>8. QED  BY <1>2, <1>5, <1>6, <1>7 DEF n

(* Requests of one size are placed from the first on, until the pool is full. *)
LEMMA PlacedFirst ==
    ASSUME NEW R \in Seq(Asked), ByKind(R) = R
    PROVE  \E k \in 0 .. Len(R) :
              /\ LayoutPool(R) = SubSeq(R, 1, k)
              /\ k * GraphCells <= Capacity
              /\ k = Len(R) \/ (k + 1) * GraphCells > Capacity
<1> DEFINE n == Len(R)
           head(k) == SubSeq(R, 1, k)
           Stops(i, k, p) == /\ p = head(k)
                             /\ k * GraphCells <= Capacity
                             /\ k = i \/ (k + 1) * GraphCells > Capacity
           I == [i \in 0 .. n |-> {p \in Seq(Asked) : \E k \in 0 .. i : Stops(i, k, p)}]
<1>1. n \in Nat /\ GraphCells \in Nat \ {0} /\ Capacity \in Nat
  BY PoolConstants
<1>2. \A i \in 0 .. n : I[i] = {p \in Seq(Asked) : \E k \in 0 .. i : Stops(i, k, p)}
  OBVIOUS
<1>3. \A k \in 0 .. n : head(k) \in Seq(Asked) /\ Len(head(k)) = k
  OBVIOUS
<1>4. \A k \in 1 .. n : head(k) = Append(head(k - 1), R[k]) /\ R[k] \in Asked
  OBVIOUS
<1>5. head(0) = <<>>
  OBVIOUS
<1> HIDE DEF I, head, n
<1>6. <<>> \in I[0]
  <2>1. <<>> \in Seq(Asked) /\ 0 \in 0 .. n /\ 0 \in 0 .. 0 /\ 0 * GraphCells <= Capacity
    BY <1>1
  <2>2. Stops(0, 0, <<>>)
    BY <1>5, <2>1
  <2>3. QED  BY <1>2, <2>1, <2>2
<1>7. ASSUME NEW i \in 1 .. Len(R), NEW p \in I[i - 1]
      PROVE  Place(p, R[i]) \in I[i]
  <2>1. i - 1 \in 0 .. n /\ i \in 0 .. n /\ i \in 1 .. n
    BY <1>1 DEF n
  <2>2. p \in Seq(Asked) /\ \E k \in 0 .. i - 1 : Stops(i - 1, k, p)
    BY <1>2, <1>7, <2>1
  <2>3. PICK k \in 0 .. i - 1 : Stops(i - 1, k, p)
    BY <2>2
  <2>4. k \in 0 .. n /\ k \in 0 .. i /\ p = head(k) /\ Len(p) = k /\ k \in Nat
    BY <1>1, <1>3, <2>1, <2>3
  <2>5. R[i] \in Asked /\ R[i].cells = GraphCells
    BY <1>4, <2>1 DEF Asked
  <2>6. Used(p) = k * GraphCells
    BY <2>2, <2>4, UsedCells
  <2>7. k * GraphCells + GraphCells = (k + 1) * GraphCells
    BY <1>1, <2>4
  <2>8. Fits(Used(p), R[i]) <=> (k + 1) * GraphCells <= Capacity
    BY <2>5, <2>6, <2>7 DEF Fits
  <2>9. (k + 1) * GraphCells \in Nat
    BY <1>1, <2>4
  <2>10. CASE ~((k + 1) * GraphCells <= Capacity)
    <3>1. Place(p, R[i]) = p
      BY <2>8, <2>10 DEF Place
    <3>2. Stops(i, k, p)
      BY <1>1, <2>3, <2>9, <2>10
    <3>3. QED  BY <1>2, <2>1, <2>2, <2>4, <3>1, <3>2
  <2>11. CASE (k + 1) * GraphCells <= Capacity
    <3>1. k = i - 1
      BY <1>1, <2>3, <2>9, <2>11
    <3>2. Place(p, R[i]) = head(i)
      BY <1>4, <2>1, <2>4, <2>8, <2>11, <3>1 DEF Place
    <3>3. (k + 1) * GraphCells = i * GraphCells
      BY <2>1, <3>1
    <3>4. Stops(i, i, head(i)) /\ i \in 0 .. i
      BY <2>1, <2>11, <3>3
    <3>5. QED  BY <1>2, <1>3, <2>1, <3>2, <3>4
  <2>12. QED  BY <2>10, <2>11
<1>8. LayoutPool(R) = RoomLoop!Loop(<<>>, R)
  <2>1. LayoutPool(R) = FoldLeft(Place, <<>>, R)
    BY Zenon DEF LayoutPool
  <2>2. QED
    BY <2>1, Zenon DEF FoldLeft, RoomLoop!Loop, RoomLoop!FoldLeft,
     MapThenFoldSet, RoomLoop!MapThenFoldSet, Max, RoomLoop!Max
<1>9. RoomLoop!Loop(<<>>, R) \in I[n]
  BY <1>6, <1>7, RoomLoop!LoopKeeps DEF n
<1>10. n \in 0 .. n
  BY <1>1
<1>11. PICK k \in 0 .. n : Stops(n, k, LayoutPool(R))
  BY <1>2, <1>8, <1>9, <1>10
<1>12. QED  BY <1>11 DEF head, n

(* They fill the rows from the first cell on. *)
LEMMA AllocatedCells ==
    ASSUME NEW placed \in Seq(Asked)
    PROVE  Allocated(placed) = [j \in 1 .. Len(placed) |-> (j - 1) * GraphCells]
<1> DEFINE n == Len(placed)
           cells(i) == [j \in 1 .. i |-> (j - 1) * GraphCells]
           I == [i \in 0 .. n |-> {[cursor |-> i * GraphCells, at |-> cells(i)]}]
<1>1. n \in Nat /\ GraphCells \in Nat \ {0}
  BY PoolConstants
<1>2. \A i \in 0 .. n : I[i] = {[cursor |-> i * GraphCells, at |-> cells(i)]}
  OBVIOUS
<1>3. \A i \in 0 .. n : cells(i) \in Seq(Nat) /\ Len(cells(i)) = i
  <2>1. ASSUME NEW i \in 0 .. n PROVE cells(i) \in Seq(Nat) /\ Len(cells(i)) = i
    <3>1. cells(i) \in [1 .. i -> Nat]
      BY <1>1
    <3> HIDE DEF cells
    <3>2. QED  BY <1>1, <3>1
  <2>2. QED  BY <2>1
<1>4. cells(0) = <<>>
  OBVIOUS
<1>5. ASSUME NEW i \in 1 .. n PROVE cells(i) = Append(cells(i - 1), (i - 1) * GraphCells)
  <2> DEFINE c == cells(i - 1)
             x == (i - 1) * GraphCells
  <2>1. i - 1 \in 0 .. n /\ i - 1 + 1 = i
    BY <1>1
  <2>2. c \in Seq(Nat) /\ Len(c) = i - 1
    BY <1>3, <2>1
  <2>3. \A j \in 1 .. i - 1 : c[j] = (j - 1) * GraphCells
    OBVIOUS
  <2> HIDE DEF c, x
  <2>4. Append(c, x) = [j \in 1 .. i |-> IF j = i THEN x ELSE c[j]]
    <3> DEFINE t == Append(c, x)
    <3>1. x \in Nat
      BY <1>1 DEF x
    <3>2. /\ t \in Seq(Nat) /\ Len(t) = i /\ t[i] = x
          /\ \A j \in 1 .. i - 1 : t[j] = c[j]
      BY <2>1, <2>2, <3>1
    <3> HIDE DEF t
    <3>3. t = [j \in 1 .. i |-> t[j]]
      BY <3>2
    <3>4. \A j \in 1 .. i : t[j] = IF j = i THEN x ELSE c[j]
      BY <3>2
    <3>5. QED  BY <3>3, <3>4 DEF t
  <2>5. \A j \in 1 .. i : (IF j = i THEN x ELSE c[j]) = (j - 1) * GraphCells
    BY <1>1, <2>3 DEF x
  <2>6. QED  BY <2>4, <2>5 DEF c, x
<1> HIDE DEF I, cells, n
<1>6. [cursor |-> 0, at |-> <<>>] \in I[0]
  <2>1. 0 * GraphCells = 0 /\ 0 \in 0 .. n
    BY <1>1
  <2>2. QED  BY <1>2, <1>4, <2>1
<1>7. ASSUME NEW i \in 1 .. Len(placed), NEW v \in I[i - 1]
      PROVE  Allocate(v, placed[i]) \in I[i]
  <2> DEFINE r == placed[i]
             x == (i - 1) * GraphCells
  <2>1. i - 1 \in 0 .. n /\ i \in 0 .. n /\ i \in 1 .. n /\ i - 1 \in Nat /\ r \in Asked
    BY <1>1 DEF n
  <2>2. v = [cursor |-> x, at |-> cells(i - 1)] /\ r.cells = GraphCells
    BY <1>2, <1>7, <2>1 DEF Asked
  <2>3. (x % Columns) + GraphCells <= Columns
    BY <2>1, PoolConstants, WholeWidgets
  <2>4. x + GraphCells = i * GraphCells /\ x \in Nat
    BY <1>1, <2>1
  <2>5. x % Columns \in Nat
    BY <2>4, PoolConstants, Divided
  <2> HIDE DEF x, r
  <2>6. NextFree(x, r) = x
    <3>1. ~((x % Columns) + GraphCells > Columns)
      BY <1>1, <2>3, <2>5, PoolConstants
    <3>2. QED  BY <2>2, <3>1 DEF NextFree
  <2>7. Allocate(v, r) = [cursor |-> x + GraphCells, at |-> Append(cells(i - 1), x)]
    BY <2>2, <2>6 DEF Allocate
  <2>8. Allocate(v, r) = [cursor |-> i * GraphCells, at |-> cells(i)]
    BY <1>5, <2>1, <2>4, <2>7 DEF x
  <2>9. QED  BY <1>2, <2>1, <2>8 DEF r
<1> DEFINE base == [cursor |-> 0, at |-> <<>>]
<1>8. Allocated(placed) = CellLoop!Loop(base, placed).at
  BY Zenon DEF Allocated, FoldLeft, CellLoop!Loop, CellLoop!FoldLeft,
     MapThenFoldSet, CellLoop!MapThenFoldSet, Max, CellLoop!Max
<1>9. CellLoop!Loop(base, placed) \in I[n]
  <2> HIDE DEF base
  <2>1. QED  BY <1>6, <1>7, CellLoop!LoopKeeps DEF n, base
<1>10. n \in 0 .. n
  BY <1>1
<1>11. CellLoop!Loop(base, placed) = [cursor |-> n * GraphCells, at |-> cells(n)]
  BY <1>2, <1>9, <1>10
<1>12. QED  BY <1>8, <1>11 DEF cells, n

(* The graphs by name, the network card behind them: sorted by kind. *)
LEMMA RequestsSorted ==
    ASSUME NEW H \in SUBSET GraphHosts
    PROVE  /\ IsFiniteSet(H) /\ Cardinality(H) \in Nat
           /\ Requests(H) \in Seq(Asked) /\ Len(Requests(H)) = Cardinality(H) + 1
           /\ \A j \in 1 .. Cardinality(H) :
                 Requests(H)[j].payload = Ascending(H)[j]
           /\ Requests(H)[Cardinality(H) + 1].payload = NetCard
           /\ ByKind(Requests(H)) = Requests(H)
<1> DEFINE names == Ascending(H)
           n == Cardinality(H)
           G == [j \in DOMAIN names |-> Graph(names[j])]
           R == Requests(H)
<1>1. IsFiniteSet(H) /\ H \in SUBSET Int /\ n \in Nat
  <2>1. IsFiniteSet(GraphHosts) /\ GraphHosts \subseteq Nat
    BY PoolConstants, Zenon
  <2>2. H \in SUBSET Int
    BY <2>1
  <2>3. IsFiniteSet(H)
    BY <2>1, FS_Subset
  <2>4. QED  BY <2>2, <2>3, FS_CardinalityType
<1>2. names \in Seq(H) /\ Len(names) = n
  BY <1>1, AscendingFacts
<1> HIDE DEF names, n
<1>3. DOMAIN names = 1 .. n /\ \A j \in 1 .. n : names[j] \in GraphHosts
  BY <1>2
<1>4. /\ \A j \in 1 .. n : Graph(names[j]) \in Asked
      /\ \A j \in 1 .. n : Graph(names[j]).kind = 0 /\ Graph(names[j]).payload = names[j]
      /\ Net \in Asked /\ Net.kind = 4 /\ Net.payload = NetCard
  BY <1>3, PoolConstants DEF Graph, Net, Asked
<1>5. /\ G \in Seq(Asked) /\ Len(G) = n /\ DOMAIN G = 1 .. n
      /\ \A j \in 1 .. n : G[j] = Graph(names[j])
  BY <1>1, <1>3, <1>4
<1>6. R = Append(G, Net)
  BY Zenon DEF Requests, names
<1> HIDE DEF G, R
<1>7. R = G \o <<Net>> /\ R \in Seq(Asked) /\ ToSet(R) = ToSet(G) \cup {Net}
  <2>1. R = G \o <<Net>>
    BY <1>4, <1>5, <1>6, AppendedIs
  <2>2. ToSet(R) = ToSet(G) \cup {Net}
    BY <1>4, <1>5, <1>6, AppendedSet
  <2>3. R \in Seq(Asked)
    BY <1>4, <1>5, <1>6
  <2>4. QED  BY <2>1, <2>2, <2>3
<1>8. Len(R) = n + 1 /\ (\A j \in 1 .. n : R[j] = G[j]) /\ R[n + 1] = Net
  BY <1>4, <1>5, <1>6
<1>9. \A r \in ToSet(G) : r.kind = 0
  BY <1>4, <1>5 DEF ToSet
<1> DEFINE K0 == {r \in ToSet(R) : r.kind = 0}
           K4 == {r \in ToSet(R) : r.kind = 4}
<1>10. /\ ToSet(G) \subseteq K0 /\ ToSet(G) \cap K4 = {}
       /\ {Net} \cap K0 = {} /\ {Net} \subseteq K4
  BY <1>4, <1>7, <1>9
<1>11. <<Net>> \in Seq(Asked) /\ ToSet(<<Net>>) = {Net}
  BY <1>4 DEF ToSet
<1>12. OfKind(R, 0) = Within(R, K0) /\ OfKind(R, 4) = Within(R, K4)
  BY Zenon DEF OfKind
<1> DEFINE t == <<Net>>
<1>13. t \in Seq(Asked) /\ ToSet(t) = {Net} /\ R = G \o t
  BY <1>7, <1>11
<1> HIDE DEF K0, K4, t
<1>14. Within(G, K0) = G /\ Within(t, K4) = t
  BY <1>5, <1>10, <1>13, WithinSame
<1>15. Within(G, K4) = <<>> /\ Within(t, K0) = <<>>
  BY <1>5, <1>10, <1>13, WithinNone
<1>16. \A T : Within(G \o t, T) = Within(G, T) \o Within(t, T)
  BY <1>5, <1>13, WithinConcat
<1>17. ByKind(R) = (G \o <<>>) \o (<<>> \o t)
  BY <1>12, <1>13, <1>14, <1>15, <1>16 DEF ByKind
<1>18. ByKind(R) = R
  <2>1. G \o <<>> = G /\ <<>> \o t = t
    BY <1>5, <1>13
  <2>2. QED  BY <1>13, <1>17, <2>1
<1>19. \A j \in 1 .. n : R[j].payload = names[j]
  BY <1>4, <1>5, <1>8
<1>20. QED  BY <1>1, <1>4, <1>7, <1>8, <1>18, <1>19 DEF R, n, names

(* Where the widgets asked for come to stand: pos names the first k of them *)
(* in the order of their places.                                            *)
StandsAt(spot, H, k, pos) ==
    /\ pos \in [1 .. k -> H \cup {NetCard}]
    /\ \A i, j \in 1 .. k : pos[i] = pos[j] => i = j
    /\ \A i, j \in 1 .. k : i < j /\ pos[j] \in H => pos[i] \in H /\ pos[i] < pos[j]
    /\ DOMAIN spot = {pos[i] : i \in 1 .. k}
    /\ \A i \in 1 .. k : spot[pos[i]] = (i - 1) * GraphCells
    /\ k * GraphCells <= Capacity
    /\ \/ H \cup {NetCard} \subseteq DOMAIN spot
       \/ (k + 1) * GraphCells > Capacity

LEMMA LaidOut ==
    ASSUME NEW H \in SUBSET GraphHosts
    PROVE  \E k \in Nat : \E pos :
              StandsAt(Arrangement(LayoutPool(Requests(H))), H, k, pos)
<1> DEFINE n == Cardinality(H)
           R == Requests(H)
           names == Ascending(H)
           placed == LayoutPool(R)
           at == Allocated(placed)
           spot == Arrangement(placed)
<1>1. /\ IsFiniteSet(H) /\ n \in Nat
      /\ R \in Seq(Asked) /\ Len(R) = n + 1
      /\ \A j \in 1 .. n : R[j].payload = names[j]
      /\ R[n + 1].payload = NetCard
      /\ ByKind(R) = R
  BY RequestsSorted
<1>2. H \in SUBSET Int /\ NetCard \notin H
  <2>1. NetCard \notin GraphHosts /\ GraphHosts \subseteq Nat
    BY PoolConstants, Zenon
  <2>2. NetCard \notin H
    BY <2>1, Zenon
  <2>3. H \in SUBSET Int
    BY <2>1
  <2>4. QED  BY <2>2, <2>3
<1>3. /\ names \in [1 .. n -> H]
      /\ \A i, j \in 1 .. n : i < j => names[i] < names[j]
      /\ \A x \in H : \E i \in 1 .. n : names[i] = x
  BY <1>1, <1>2, AscendingSorts
<1> HIDE DEF n, R, names, placed, spot
<1>4. PICK k \in 0 .. Len(R) : /\ placed = SubSeq(R, 1, k)
                               /\ k * GraphCells <= Capacity
                               /\ k = Len(R) \/ (k + 1) * GraphCells > Capacity
  BY <1>1, PlacedFirst DEF placed
<1>5. k \in Nat /\ k \in 0 .. n + 1
  BY <1>1
<1>6. /\ placed \in Seq(Asked) /\ Len(placed) = k /\ DOMAIN placed = 1 .. k
      /\ \A i \in 1 .. k : placed[i] = R[i]
  BY <1>1, <1>4
<1>7. \A i \in 1 .. k : at[i] = (i - 1) * GraphCells
  <2>1. at = [j \in 1 .. k |-> (j - 1) * GraphCells]
    BY <1>6, AllocatedCells
  <2> HIDE DEF at
  <2>2. QED  BY <2>1
<1> DEFINE pos == [i \in 1 .. k |-> placed[i].payload]
<1>8. ASSUME NEW i \in 1 .. k
      PROVE  \/ i \in 1 .. n /\ pos[i] = names[i] /\ pos[i] \in H
             \/ i = n + 1 /\ pos[i] = NetCard
  BY <1>1, <1>3, <1>5, <1>6
<1>9. pos \in [1 .. k -> H \cup {NetCard}]
  BY <1>8
<1>10. ASSUME NEW i \in 1 .. k, NEW j \in 1 .. k, i < j
       PROVE  /\ pos[i] \in H
              /\ pos[j] \in H => pos[i] < pos[j]
              /\ pos[i] # pos[j]
  <2>1. i \in 1 .. n /\ pos[i] = names[i] /\ pos[i] \in H
    BY <1>1, <1>5, <1>8, <1>10
  <2>2. CASE j = n + 1
    BY <1>1, <1>2, <1>8, <2>1, <2>2
  <2>3. CASE j \in 1 .. n
    <3>1. pos[j] = names[j] /\ names[i] < names[j] /\ names[i] \in Int /\ names[j] \in Int
      BY <1>1, <1>2, <1>3, <1>8, <1>10, <2>1, <2>3
    <3>2. QED  BY <2>1, <3>1
  <2>4. QED  BY <1>1, <1>5, <2>2, <2>3
<1>11. \A i, j \in 1 .. k : pos[i] = pos[j] => i = j
  <2>1. SUFFICES ASSUME NEW i \in 1 .. k, NEW j \in 1 .. k, pos[i] = pos[j], i # j
                 PROVE  FALSE
    OBVIOUS
  <2>2. i < j \/ j < i
    BY <2>1
  <2>3. QED  BY <1>10, <2>1, <2>2
<1>12. spot = [x \in {placed[i].payload : i \in DOMAIN placed} |->
                 at[CHOOSE i \in DOMAIN placed : placed[i].payload = x]]
  BY Zenon DEF Arrangement, spot, at
<1>13. DOMAIN spot = {pos[i] : i \in 1 .. k}
  BY <1>6, <1>12
<1>14. ASSUME NEW i \in 1 .. k PROVE spot[pos[i]] = (i - 1) * GraphCells
  <2>1. \E j \in DOMAIN placed : placed[j].payload = pos[i]
    BY <1>6
  <2> DEFINE j == CHOOSE j \in DOMAIN placed : placed[j].payload = pos[i]
  <2>2. j \in 1 .. k /\ placed[j].payload = pos[i]
    BY <1>6, <2>1
  <2>3. pos[j] = pos[i]
    BY <2>2
  <2>4. spot[pos[i]] = at[j]
    BY <1>6, <1>12
  <2> HIDE DEF j, pos, at
  <2>5. j = i
    BY <1>11, <2>2, <2>3
  <2>6. QED  BY <1>7, <2>4, <2>5
<1> HIDE DEF pos, at
<1>15. \/ H \cup {NetCard} \subseteq DOMAIN spot
       \/ (k + 1) * GraphCells > Capacity
  <2>1. SUFFICES ASSUME k = n + 1 PROVE H \cup {NetCard} \subseteq DOMAIN spot
    BY <1>1, <1>4
  <2>2. \A i \in 1 .. n : i \in 1 .. k
    BY <1>1, <2>1
  <2>3. n + 1 \in 1 .. k
    BY <1>1, <2>1
  <2>4. pos[n + 1] = NetCard
    BY <1>1, <1>8, <2>3
  <2>5. \A i \in 1 .. n : pos[i] = names[i]
    BY <1>1, <1>8, <2>2
  <2>6. QED  BY <1>3, <1>13, <2>2, <2>3, <2>4, <2>5
<1>16. \A i, j \in 1 .. k : i < j /\ pos[j] \in H => pos[i] \in H /\ pos[i] < pos[j]
  BY <1>10
<1>17. StandsAt(spot, H, k, pos)
  BY <1>4, <1>9, <1>11, <1>13, <1>14, <1>15, <1>16, Zenon DEF StandsAt
<1>18. QED  BY <1>5, <1>17 DEF spot, placed, R

-----------------------------------------------------------------------------
LEMMA TimesGrows ==
    ASSUME NEW m \in Nat, NEW n \in Nat, m <= n
    PROVE  m * GraphCells <= n * GraphCells
<1>1. GraphCells \in Nat
  BY PoolConstants
<1>2. PICK d \in Nat : n = m + d
  <2>1. n - m \in Nat /\ n = m + (n - m)
    OBVIOUS
  <2>2. QED  BY <2>1
<1>3. n * GraphCells = m * GraphCells + d * GraphCells
  BY <1>1, <1>2
<1>4. m * GraphCells \in Nat /\ d * GraphCells \in Nat
  BY <1>1
<1>5. QED  BY <1>3, <1>4

(* The cells of the i-th widget. *)
Block(i) == (i - 1) * GraphCells .. (i - 1) * GraphCells + GraphCells - 1

LEMMA BlocksApart ==
    ASSUME NEW i \in Nat \ {0}, NEW j \in Nat \ {0}, i < j
    PROVE  /\ Block(i) \cap Block(j) = {}
           /\ (i - 1) * GraphCells < (j - 1) * GraphCells
<1> DEFINE x == (i - 1) * GraphCells
           y == (j - 1) * GraphCells
<1>1. GraphCells \in Nat \ {0} /\ x \in Nat /\ y \in Nat
  BY PoolConstants
<1>2. x + GraphCells = i * GraphCells
  BY <1>1
<1>3. i * GraphCells <= y
  BY TimesGrows
<1> HIDE DEF x, y
<1>4. x + GraphCells <= y
  BY <1>2, <1>3
<1>5. Block(i) = x .. x + GraphCells - 1 /\ Block(j) = y .. y + GraphCells - 1
  BY Zenon DEF Block, x, y
<1>6. \A c \in Block(i) : c < y
  BY <1>1, <1>4, <1>5
<1>7. QED  BY <1>1, <1>4, <1>5, <1>6 DEF x, y

LEMMA BlockInside ==
    ASSUME NEW k \in Nat, k * GraphCells <= Capacity, NEW i \in 1 .. k
    PROVE  /\ Block(i) \subseteq Cells
           /\ \A c, d \in Block(i) : c \div Columns = d \div Columns
<1> DEFINE x == (i - 1) * GraphCells
           q == x \div Columns
           r == x % Columns
<1>1. /\ GraphCells \in Nat \ {0} /\ Columns \in Nat \ {0} /\ Columns % GraphCells = 0
      /\ Capacity \in Nat /\ i - 1 \in Nat
  BY PoolConstants
<1>2. x \in Nat
  BY <1>1
<1>3. q \in Nat /\ r \in 0 .. Columns - 1 /\ x = Columns * q + r
  BY <1>1, <1>2, Divided
<1>4. r + GraphCells <= Columns
  BY <1>1, WholeWidgets
<1>5. x + GraphCells <= Capacity
  <2>1. i * GraphCells <= k * GraphCells
    BY TimesGrows
  <2>2. x + GraphCells = i * GraphCells /\ i * GraphCells \in Nat /\ k * GraphCells \in Nat
    BY <1>1
  <2> HIDE DEF x
  <2>3. QED  BY <1>1, <1>2, <2>1, <2>2
<1>6. Block(i) = x .. x + GraphCells - 1
  BY Zenon DEF Block
<1> HIDE DEF x, q, r
<1>7. Block(i) \subseteq Cells
  BY <1>1, <1>2, <1>5, <1>6 DEF Cells
<1>8. ASSUME NEW c \in Block(i) PROVE c \div Columns = q
  <2>1. c \in Nat /\ c - x \in 0 .. GraphCells - 1
    BY <1>1, <1>2, <1>6
  <2>2. r + (c - x) \in 0 .. Columns - 1
    BY <1>1, <1>2, <1>3, <1>4, <2>1
  <2>3. c = Columns * q + (r + (c - x))
    <3>1. Columns * q \in Nat
      BY <1>1, <1>3
    <3>2. QED  BY <1>2, <1>3, <2>1, <3>1
  <2>4. QED  BY <1>1, <1>3, <2>1, <2>2, <2>3, Quotient
<1>9. QED  BY <1>7, <1>8

(* The table of series, the widgets and the pool. *)
PoolInv == PoolTypeOK /\ WidgetsOwned /\ NoOverlap /\ PlacedWhileRoom

LEMMA SeriesFinite == PoolTypeOK => IsFiniteSet(DOMAIN series)
<1>1. IsFiniteSet(GraphHosts)
  BY PoolConstants, Zenon
<1>2. PoolTypeOK => DOMAIN series \in SUBSET GraphHosts
  BY DEF PoolTypeOK
<1>3. QED  BY <1>1, <1>2, FS_Subset

LEMMA PoolInvPoll ==
    ASSUME PoolInv, NEW sampled \in SUBSET GraphHosts, NEW off \in SUBSET GraphHosts,
           NEW d \in Nat, PollGraphs(sampled, off, d)
    PROVE  PoolInv'
<1> DEFINE D == DOMAIN series
           new == sampled \ D
           room == GraphMax - Cardinality(D)
           m == Min({room, Cardinality(new)})
<1>1. PICK added \in kSubset(m, new) :
        /\ series' = [h \in D \cup added |->
                         IF h \in sampled THEN 0
                         ELSE Min({series[h] + d, EvictAfter})]
        /\ disabled' = off
        /\ UNCHANGED <<owners, places, netPlace, asked>>
  BY DEF PollGraphs
<1>2. PoolTypeOK /\ WidgetsOwned /\ NoOverlap /\ PlacedWhileRoom
  BY DEF PoolInv
<1>3. GraphMax \in Nat /\ EvictAfter \in Nat /\ IsFiniteSet(GraphHosts)
  BY PoolConstants, Zenon
<1>4. /\ D \in SUBSET GraphHosts /\ Cardinality(D) <= GraphMax
      /\ \A h \in D : series[h] \in 0 .. EvictAfter
  BY <1>2 DEF PoolTypeOK
<1>5. new \in SUBSET GraphHosts /\ new \cap D = {}
  OBVIOUS
<1>6. DOMAIN series' = D \cup added
  BY <1>1
<1> HIDE DEF D, new
<1>7. /\ IsFiniteSet(D) /\ IsFiniteSet(new)
      /\ Cardinality(D) \in Nat /\ Cardinality(new) \in Nat
  BY <1>3, <1>4, <1>5, FS_Subset, FS_CardinalityType
<1>8. m <= room /\ m \in Int
  <2>1. room \in Int
    BY <1>3, <1>7
  <2> HIDE DEF room
  <2>2. QED  BY <1>7, <2>1, MinOfTwo
<1> HIDE DEF m
<1>9. added \subseteq new /\ IsFiniteSet(added) /\ Cardinality(added) = m
  BY <1>7, SubsetOfSize
<1>10. DOMAIN series' \subseteq GraphHosts
  BY <1>4, <1>5, <1>6, <1>9
<1>11. Cardinality(DOMAIN series') <= GraphMax
  <2>1. D \cap added = {}
    BY <1>5, <1>9
  <2>2. /\ Cardinality(D \cup added) = Cardinality(D) + Cardinality(added) - Cardinality(D \cap added)
        /\ Cardinality(D \cap added) = 0
    BY <1>7, <1>9, <2>1, FS_Union, FS_EmptySet
  <2>3. QED  BY <1>3, <1>6, <1>7, <1>8, <1>9, <2>2
<1>12. ASSUME NEW h \in DOMAIN series' PROVE series'[h] \in 0 .. EvictAfter
  <2>1. CASE h \in sampled
    <3>1. series'[h] = 0
      BY <1>1, <1>6, <2>1
    <3>2. QED  BY <1>3, <3>1
  <2>2. CASE h \notin sampled
    <3>1. h \in D
      BY <1>6, <1>9, <2>2 DEF new
    <3>2. series'[h] = Min({series[h] + d, EvictAfter})
      BY <1>1, <1>6, <2>2
    <3>3. series[h] + d \in Nat
      BY <1>4, <3>1
    <3> DEFINE v == series[h] + d
    <3>4. v \in Nat
      BY <3>3
    <3> HIDE DEF v
    <3>5. Min({v, EvictAfter}) \in {v, EvictAfter} /\ Min({v, EvictAfter}) <= EvictAfter
      BY <1>3, <3>4, MinOfTwo
    <3>6. Min({v, EvictAfter}) \in 0 .. EvictAfter
      BY <1>3, <3>4, <3>5
    <3>7. QED  BY <3>2, <3>6 DEF v
  <2>3. QED  BY <2>1, <2>2
<1>13. UNCHANGED <<owners, places, netPlace, asked>> /\ disabled' \subseteq GraphHosts
  BY <1>1
<1>14. PoolTypeOK'
  BY <1>2, <1>10, <1>11, <1>12, <1>13, Zenon DEF PoolTypeOK
<1>15. WidgetsOwned'
  BY <1>2, <1>6, <1>13 DEF WidgetsOwned, D
<1>16. NoOverlap' /\ PlacedWhileRoom'
  <2>1. /\ owners' = owners /\ places' = places
        /\ netPlace' = netPlace /\ asked' = asked
    BY <1>13
  <2>2. NoOverlap'
    BY <1>2, <2>1, Zenon DEF NoOverlap, Area
  <2>3. PlacedWhileRoom'
    BY <1>2, <2>1 DEF PlacedWhileRoom
  <2>4. QED  BY <2>2, <2>3
<1>17. QED  BY <1>14, <1>15, <1>16 DEF PoolInv

(* The paint: what the pool gives is what the screen shows. *)
LEMMA PoolInvPaint ==
    ASSUME PoolInv, PaintGraphs
    PROVE  PoolInv'
<1> DEFINE fresh == {h \in DOMAIN series : series[h] < EvictAfter}
           H == fresh \ disabled
           spot == Arrangement(LayoutPool(Requests(H)))
           D == DOMAIN spot
<1>1. /\ series' = Rows(series, fresh)
      /\ owners' = (owners \cap fresh) \cup (D \ {NetCard})
      /\ places' = [h \in owners' |-> IF h \in D THEN spot[h] ELSE Hidden]
      /\ netPlace' = IF NetCard \in D THEN spot[NetCard] ELSE Hidden
      /\ asked' = H \cup {NetCard}
      /\ disabled' = disabled
  BY Zenon DEF PaintGraphs
<1>2. PoolTypeOK /\ WidgetsOwned
  BY DEF PoolInv
<1>3. /\ DOMAIN series \subseteq GraphHosts
      /\ Cardinality(DOMAIN series) <= GraphMax
      /\ \A h \in DOMAIN series : series[h] \in 0 .. EvictAfter
      /\ owners \subseteq GraphHosts /\ disabled \subseteq GraphHosts
  BY <1>2, Zenon DEF PoolTypeOK
<1>4. H \in SUBSET GraphHosts /\ H \subseteq fresh /\ fresh \subseteq DOMAIN series
  BY <1>3
<1>5. /\ NetCard \notin GraphHosts /\ Hidden \notin Nat /\ GraphHosts \subseteq Nat
      /\ GraphMax \in Nat /\ GraphCells \in Nat \ {0} /\ NetCells = GraphCells
      /\ Capacity \in Nat
  BY PoolConstants, Zenon
<1>6. /\ DOMAIN series' = fresh
      /\ \A h \in fresh : series'[h] = series[h]
  BY <1>1, <1>4 DEF Rows
<1>7. PICK k \in Nat : \E pos : StandsAt(spot, H, k, pos)
  BY <1>4, LaidOut
<1>8. PICK pos : StandsAt(spot, H, k, pos)
  BY <1>7
<1> HIDE DEF fresh, H, spot, D
<1>9. /\ pos \in [1 .. k -> H \cup {NetCard}]
      /\ \A i, j \in 1 .. k : pos[i] = pos[j] => i = j
      /\ \A i, j \in 1 .. k : i < j /\ pos[j] \in H => pos[i] \in H /\ pos[i] < pos[j]
      /\ D = {pos[i] : i \in 1 .. k}
      /\ \A i \in 1 .. k : spot[pos[i]] = (i - 1) * GraphCells
      /\ k * GraphCells <= Capacity
      /\ H \cup {NetCard} \subseteq D \/ (k + 1) * GraphCells > Capacity
  BY <1>8, Zenon DEF StandsAt, D
<1>10. D \subseteq H \cup {NetCard}
  BY <1>9
<1>11. owners' \subseteq fresh /\ owners' \subseteq GraphHosts /\ NetCard \notin owners'
       /\ D \ {NetCard} \subseteq owners'
  BY <1>1, <1>3, <1>4, <1>5, <1>10
<1>12. /\ DOMAIN places' = owners'
       /\ \A h \in owners' : places'[h] = IF h \in D THEN spot[h] ELSE Hidden
  BY <1>1
<1>13. \A x \in D : spot[x] \in Nat /\ spot[x] # Hidden
  <2>1. SUFFICES ASSUME NEW i \in 1 .. k PROVE (i - 1) * GraphCells \in Nat
    BY <1>5, <1>9
  <2>2. i - 1 \in Nat
    OBVIOUS
  <2>3. QED  BY <1>5, <2>2
<1>14. PoolTypeOK'
  <2>1. Cardinality(DOMAIN series') <= GraphMax
    <3>1. IsFiniteSet(DOMAIN series) /\ fresh \in SUBSET (DOMAIN series)
      BY <1>2, <1>4, SeriesFinite
    <3>2. /\ Cardinality(fresh) <= Cardinality(DOMAIN series)
          /\ Cardinality(fresh) \in Nat /\ Cardinality(DOMAIN series) \in Nat
      BY <3>1, FS_Subset, FS_CardinalityType
    <3>3. QED  BY <1>3, <1>5, <1>6, <3>2
  <2>2. \A h \in DOMAIN series' : series'[h] \in 0 .. EvictAfter
    BY <1>3, <1>4, <1>6
  <2>3. DOMAIN series' \subseteq GraphHosts
    BY <1>3, <1>4, <1>6
  <2>4. \A h \in DOMAIN places' : places'[h] \in Nat \cup {Hidden}
    BY <1>12, <1>13
  <2>5. netPlace' \in Nat \cup {Hidden}
    BY <1>1, <1>13
  <2>6. disabled' \subseteq GraphHosts /\ asked' \subseteq GraphHosts \cup {NetCard}
    BY <1>1, <1>3, <1>4
  <2>7. QED  BY <1>11, <2>1, <2>2, <2>3, <2>4, <2>5, <2>6, Zenon DEF PoolTypeOK
<1>15. WidgetsOwned'
  BY <1>6, <1>11, <1>12 DEF WidgetsOwned
<1>16. ASSUME NEW x \in owners' \cup {NetCard}
       PROVE  \/ x \in D /\ \E i \in 1 .. k : x = pos[i] /\ Area(x)' = Block(i)
              \/ Area(x)' = {}
  <2>1. CASE x \in D
    <3>1. PICK i \in 1 .. k : x = pos[i]
      BY <1>9, <2>1
    <3>2. spot[x] = (i - 1) * GraphCells /\ spot[x] # Hidden
      BY <1>9, <1>13, <2>1, <3>1
    <3>3. CASE x = NetCard
      <4>1. netPlace' = spot[x]
        BY <1>1, <2>1, <3>3
      <4>2. Area(x)' = Taken(spot[x], GraphCells)
        BY <1>5, <3>3, <4>1, Zenon DEF Area
      <4>3. Area(x)' = Block(i)
        BY <3>2, <4>2, Zenon DEF Taken, Block
      <4>4. QED  BY <2>1, <3>1, <4>3
    <3>4. CASE x # NetCard
      <4>1. places'[x] = spot[x]
        BY <1>12, <2>1, <3>4
      <4>2. Area(x)' = Taken(spot[x], GraphCells)
        BY <3>4, <4>1, Zenon DEF Area
      <4>3. Area(x)' = Block(i)
        BY <3>2, <4>2, Zenon DEF Taken, Block
      <4>4. QED  BY <2>1, <3>1, <4>3
    <3>5. QED  BY <3>3, <3>4
  <2>2. CASE x \notin D
    <3>1. CASE x = NetCard
      <4>1. netPlace' = Hidden
        BY <1>1, <2>2, <3>1
      <4>2. Area(x)' = {}
        BY <3>1, <4>1, Zenon DEF Area, Taken
      <4>3. QED  BY <4>2
    <3>2. CASE x # NetCard
      <4>1. places'[x] = Hidden
        BY <1>12, <2>2, <3>2
      <4>2. Area(x)' = {}
        BY <3>2, <4>1, Zenon DEF Area, Taken
      <4>3. QED  BY <4>2
    <3>3. QED  BY <3>1, <3>2
  <2>3. QED  BY <2>1, <2>2
<1>17. NoOverlap'
  <2>1. SUFFICES ASSUME NEW x \in owners' \cup {NetCard}
                 PROVE  /\ Area(x)' \subseteq Cells
                        /\ \A c, d \in Area(x)' : c \div Columns = d \div Columns
                        /\ \A y \in (owners' \cup {NetCard}) \ {x} : Area(x)' \cap Area(y)' = {}
    BY <1>12, Zenon DEF NoOverlap
  <2>2. CASE Area(x)' = {}
    BY <2>2
  <2>3. CASE \E i \in 1 .. k : x = pos[i] /\ Area(x)' = Block(i)
    <3>1. PICK i \in 1 .. k : x = pos[i] /\ Area(x)' = Block(i)
      BY <2>3
    <3>2. /\ Block(i) \subseteq Cells
          /\ \A c, d \in Block(i) : c \div Columns = d \div Columns
      BY <1>9, BlockInside
    <3>3. ASSUME NEW y \in (owners' \cup {NetCard}) \ {x}
          PROVE  Area(x)' \cap Area(y)' = {}
      <4>1. CASE Area(y)' = {}
        BY <4>1
      <4>2. CASE \E j \in 1 .. k : y = pos[j] /\ Area(y)' = Block(j)
        <5>1. PICK j \in 1 .. k : y = pos[j] /\ Area(y)' = Block(j)
          BY <4>2
        <5>2. i # j /\ i \in Nat \ {0} /\ j \in Nat \ {0}
          BY <3>1, <5>1
        <5>3. i < j \/ j < i
          BY <5>2
        <5>4. Block(i) \cap Block(j) = {}
          BY <5>2, <5>3, BlocksApart
        <5>5. QED  BY <3>1, <5>1, <5>4, Zenon
      <4>3. QED  BY <1>16, <4>1, <4>2
    <3>4. QED  BY <3>1, <3>2, <3>3, Zenon
  <2>4. QED  BY <1>16, <2>2, <2>3
<1>18. PlacedWhileRoom'
  <2> DEFINE graphs == {h \in DOMAIN places' : places'[h] # Hidden}
             shown == graphs \cup (IF netPlace' = Hidden THEN {} ELSE {NetCard})
  <2>1. graphs = D \ {NetCard}
    BY <1>11, <1>12, <1>13
  <2>2. shown = D
    BY <1>1, <1>13, <2>1
  <2>3. Cardinality(D) = k
    <3>1. /\ pos \in Seq(H \cup {NetCard}) /\ Len(pos) = k /\ DOMAIN pos = 1 .. k
      BY <1>9
    <3>2. IsInjective(pos) /\ ToSet(pos) = D
      BY <1>9, <3>1, Zenon DEF IsInjective, ToSet
    <3>3. QED  BY <3>1, <3>2, InjectiveLength
  <2>4. asked' \subseteq shown \/ Capacity - GraphCells * Cardinality(shown) < GraphCells
    <3>1. (k + 1) * GraphCells = GraphCells * k + GraphCells /\ GraphCells * k \in Nat
      BY <1>5
    <3>2. (k + 1) * GraphCells > Capacity => Capacity - GraphCells * k < GraphCells
      BY <1>5, <3>1
    <3>3. Cardinality(shown) = k
      BY <2>2, <2>3
    <3> HIDE DEF shown
    <3>4. QED  BY <1>1, <1>9, <2>2, <3>2, <3>3
  <2>5. ASSUME NEW g \in graphs, NEW h \in graphs, g < h
        PROVE  places'[g] < places'[h]
    <3>1. g \in D /\ h \in D /\ g \in owners' /\ h \in owners'
      BY <1>11, <2>1
    <3>2. PICK i \in 1 .. k : g = pos[i]
      BY <1>9, <3>1
    <3>3. PICK j \in 1 .. k : h = pos[j]
      BY <1>9, <3>1
    <3>4. g \in H /\ g \in Nat /\ h \in Nat
      BY <1>4, <1>5, <1>10, <2>1, <3>1
    <3>5. i < j
      <4>1. ~(j < i)
        <5>1. j < i => h < g
          BY <1>9, <3>2, <3>3, <3>4
        <5>2. QED  BY <2>5, <3>4, <5>1
      <4>2. i # j
        BY <2>5, <3>2, <3>3, <3>4
      <4>3. QED  BY <4>1, <4>2
    <3>6. places'[g] = (i - 1) * GraphCells /\ places'[h] = (j - 1) * GraphCells
      BY <1>9, <1>12, <3>1, <3>2, <3>3
    <3>7. i \in Nat \ {0} /\ j \in Nat \ {0}
      OBVIOUS
    <3>8. (i - 1) * GraphCells < (j - 1) * GraphCells
      BY <3>5, <3>7, BlocksApart
    <3>9. QED  BY <3>6, <3>8
  <2>6. QED  BY <2>4, <2>5, Zenon DEF PlacedWhileRoom
<1>19. QED  BY <1>14, <1>15, <1>17, <1>18 DEF PoolInv

LEMMA PoolInvInit == PoolInit => PoolInv
<1> SUFFICES ASSUME PoolInit PROVE PoolInv
  OBVIOUS
<1>1. /\ DOMAIN series = {} /\ DOMAIN places = {} /\ owners = {} /\ disabled = {}
      /\ netPlace = Hidden /\ asked = {}
  BY DEF PoolInit, EmptyTable
<1>2. Cardinality(DOMAIN series) <= GraphMax
  BY <1>1, FS_EmptySet, PoolConstants
<1>3. PoolTypeOK /\ WidgetsOwned
  BY <1>1, <1>2 DEF PoolTypeOK, WidgetsOwned
<1>4. NoOverlap
  BY <1>1, Zenon DEF NoOverlap, Area, Taken
<1>5. PlacedWhileRoom
  BY <1>1, Zenon DEF PlacedWhileRoom
<1>6. QED  BY <1>3, <1>4, <1>5 DEF PoolInv

LEMMA PoolInvRestart == PoolRestart => PoolInv'
<1>1. PoolRestart => PoolInit'
  BY DEF PoolRestart, PoolInit
<1>2. QED  BY <1>1, PoolInvInit, PTL

-----------------------------------------------------------------------------
(* The screen: each part makes its own steps.                              *)

GridStep ==
    \/ \E S \in SUBSET Clients : PollClients(S)
    \/ PaintGrid \/ GridRestart \/ UNCHANGED gridVars

PoolStep ==
    \/ \E sampled, off \in SUBSET GraphHosts : \E d \in Nat : PollGraphs(sampled, off, d)
    \/ PaintGraphs \/ PoolRestart \/ UNCHANGED poolVars

LEMMA ScreenStepsParts ==
    ASSUME [ScreenNext]_screenVars
    PROVE  GridStep /\ PoolStep
<1>1. CASE Poll
  <2>1. PICK S \in SUBSET (world \cap (Clients \cup GraphHosts)) :
            \E d \in 0 .. EvictAfter : PollHosts(S, d)
    BY <1>1 DEF Poll
  <2>2. PICK d \in 0 .. EvictAfter : PollHosts(S, d)
    BY <2>1
  <2>3. PollClients(S \cap Clients) /\ S \cap Clients \in SUBSET Clients
    BY <2>2 DEF PollHosts
  <2>4. PICK sampled \in SUBSET (S \cap GraphHosts) :
            \E off \in {world \cap GraphHosts} \cup SUBSET (S \cap GraphHosts) :
                PollGraphs(sampled, off, d)
    BY <2>2, Zenon DEF PollHosts
  <2>5. PICK off \in {world \cap GraphHosts} \cup SUBSET (S \cap GraphHosts) :
                PollGraphs(sampled, off, d)
    BY <2>4
  <2>6. sampled \in SUBSET GraphHosts /\ off \in SUBSET GraphHosts /\ d \in Nat
    BY PoolConstants
  <2>7. QED  BY <2>3, <2>5, <2>6, Zenon DEF GridStep, PoolStep
<1>2. CASE Paint
  BY <1>2 DEF Paint, GridStep, PoolStep
<1>3. CASE Restart
  BY <1>3 DEF Restart, GridStep, PoolStep
<1>4. CASE Evict \/ Outside \/ UNCHANGED screenVars
  BY <1>4 DEF Evict, Outside, screenVars, GridStep, PoolStep
<1>5. QED  BY <1>1, <1>2, <1>3, <1>4 DEF ScreenNext

LEMMA GridInvStep == GridInv /\ GridStep => GridInv'
<1>1. GridInv /\ UNCHANGED gridVars => GridInv'
  BY Zenon DEF gridVars, GridInv
<1>2. QED  BY <1>1, GridInvPoll, GridInvPaint, GridInvRestart DEF GridStep

LEMMA PoolInvStep == PoolInv /\ PoolStep => PoolInv'
<1>1. ASSUME PoolInv, UNCHANGED poolVars PROVE PoolInv'
  <2>1. /\ series' = series /\ owners' = owners /\ places' = places
        /\ netPlace' = netPlace /\ disabled' = disabled /\ asked' = asked
    BY <1>1 DEF poolVars
  <2>2. PoolTypeOK' /\ WidgetsOwned'
    BY <1>1, <2>1, Zenon DEF PoolInv, PoolTypeOK, WidgetsOwned
  <2>3. NoOverlap'
    BY <1>1, <2>1, Zenon DEF PoolInv, NoOverlap, Area
  <2>4. PlacedWhileRoom'
    BY <1>1, <2>1 DEF PoolInv, PlacedWhileRoom
  <2>5. QED  BY <2>2, <2>3, <2>4 DEF PoolInv
<1>2. QED  BY <1>1, PoolInvPoll, PoolInvPaint, PoolInvRestart DEF PoolStep

ScreenInv == StripInv /\ GridInv /\ PoolInv

LEMMA ScreenKeeps == ScreenSpec => []ScreenInv
<1>1. ScreenInit => ScreenInv
  BY StripInvInit, GridInvInit, PoolInvInit DEF ScreenInit, ScreenInv
<1>2. ScreenInv /\ [ScreenNext]_screenVars => ScreenInv'
  BY ScreenStepsStrip, ScreenStepsParts, StripInvStep, GridInvStep, PoolInvStep
  DEF ScreenInv
<1>3. QED  BY <1>1, <1>2, PTL DEF ScreenSpec

(* No array of the panel overflows, and none names what does not exist, for *)
(* any number of cards, hosts, slots and cells.                             *)
THEOREM ScreenTypes == ScreenSpec => []TypeOK
<1>1. ScreenInv => TypeOK
  BY GridInvTells DEF ScreenInv, StripInv, PoolInv, TypeOK
<1>2. QED  BY <1>1, ScreenKeeps, PTL

(* After a paint the footer strip holds an object for each entry and each   *)
(* stale host, once, and nothing else.                                      *)
THEOREM StripFollows == ScreenSpec => []StripMirrorsEntries
<1>1. ScreenInv => StripMirrorsEntries
  BY DEF ScreenInv, StripInv
<1>2. QED  BY <1>1, ScreenKeeps, PTL

(* After a paint the services stand first, then the staleness cards, then   *)
(* the zones, in whatever order they were created and moved.                *)
THEOREM GroupsStand == ScreenSpec => []GroupsInOrder
<1>1. ScreenInv => GroupsInOrder
  BY DEF ScreenInv, StripInv
<1>2. QED  BY <1>1, ScreenKeeps, PTL

(* Client card objects and client cards correspond. *)
THEOREM GridFollows == ScreenSpec => []GridMirrorsCards
<1>1. ScreenInv => GridMirrorsCards
  BY GridInvTells DEF ScreenInv
<1>2. QED  BY <1>1, ScreenKeeps, PTL

(* The exchanging sort and the moves that follow it put the hosts that have *)
(* priority first, in its order.                                            *)
THEOREM PriorityFirst == ScreenSpec => []PriorityLeads
<1>1. ScreenInv => PriorityLeads
  BY GridInvTells DEF ScreenInv
<1>2. QED  BY <1>1, ScreenKeeps, PTL

(* Clients that a full array turned away get their card with the next paint *)
(* that finds no newcomer.                                                  *)
THEOREM NewcomersCatchUp == ScreenSpec => QuietPaintShows
<1>1. ScreenInv /\ [ScreenNext]_screenVars
      => [PaintGrid /\ before' \subseteq before => before' \subseteq ToSet(cards')]_gridVars
  BY GridInvPaint DEF ScreenInv
<1>2. QED  BY <1>1, ScreenKeeps, PTL DEF ScreenSpec, QuietPaintShows

(* Widgets never overlap, nor stick out of their row or of the pool. *)
THEOREM CellsApart == ScreenSpec => []NoOverlap
<1>1. ScreenInv => NoOverlap
  BY DEF ScreenInv, PoolInv
<1>2. QED  BY <1>1, ScreenKeeps, PTL

(* Every widget belongs to a series that is in the table. *)
THEOREM WidgetsBelong == ScreenSpec => []WidgetsOwned
<1>1. ScreenInv => WidgetsOwned
  BY DEF ScreenInv, PoolInv
<1>2. QED  BY <1>1, ScreenKeeps, PTL

(* The graphs stand in name order, and none is left out while there is room *)
(* for it.                                                                  *)
THEOREM PoolFills == ScreenSpec => []PlacedWhileRoom
<1>1. ScreenInv => PlacedWhileRoom
  BY DEF ScreenInv, PoolInv
<1>2. QED  BY <1>1, ScreenKeeps, PTL
=============================================================================
