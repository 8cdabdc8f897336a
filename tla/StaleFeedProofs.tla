-------------------------- MODULE StaleFeedProofs --------------------------
(***************************************************************************)
(* Proofs about the host staleness feed, for every fleet, every capacity   *)
(* and every grace.                                                        *)
(***************************************************************************)
EXTENDS StaleFeed, FiniteSetTheorems, FunctionTheorems, TLAPS

USE DEF Times, Payload

(* What stale_registry_observe does to the pending table: it keeps what is  *)
(* there, adds at most the observed deployer, and drops it only for an      *)
(* excluded host, a full host table or a full deployer list.                *)
LEMMA ObserveKeeps ==
    ASSUME NEW table, NEW h, NEW d, NEW since,
           NEW t, t = Observe(table, h, d, since)
    PROVE  /\ DOMAIN table \subseteq DOMAIN t
           /\ DOMAIN t \subseteq DOMAIN table \cup ({h} \ Excluded)
           /\ \A g \in DOMAIN table :
                /\ DOMAIN table[g] \subseteq DOMAIN t[g]
                /\ \A e \in DOMAIN table[g] : t[g][e] = table[g][e]
BY DEF Observe, Put, EmptyTable

LEMMA ObserveAdds ==
    ASSUME NEW table, NEW h, NEW d, NEW since,
           NEW t, t = Observe(table, h, d, since),
           NEW g \in DOMAIN t, NEW e \in DOMAIN t[g],
           ~ (g \in DOMAIN table /\ e \in DOMAIN table[g])
    PROVE  g = h /\ e = d /\ t[g][e] = since
BY DEF Observe, Put, EmptyTable

LEMMA ObserveRecords ==
    ASSUME NEW table, NEW h, NEW d, NEW since,
           NEW t, t = Observe(table, h, d, since)
    PROVE  \/ h \in Excluded
           \/ h \in DOMAIN t /\ d \in DOMAIN t[h]
           \/ h \notin DOMAIN table /\ Cardinality(DOMAIN table) >= HostsMax
           \/ /\ h \in DOMAIN table /\ d \notin DOMAIN table[h]
              /\ Cardinality(DOMAIN table[h]) >= DeployersMax
BY DEF Observe, Put, EmptyTable
-----------------------------------------------------------------------------
(* Type correctness. *)

PendingType(t) ==
    /\ DOMAIN t \subseteq Hosts \ Excluded
    /\ Cardinality(DOMAIN t) <= HostsMax
    /\ \A h \in DOMAIN t : IsDeployerTable(t[h])

LEMMA ObserveType ==
    ASSUME NEW table, PendingType(table), NEW h \in Hosts,
           NEW d \in Deployers, NEW since \in Payload
    PROVE  PendingType(Observe(table, h, d, since))
<1> DEFINE t == Observe(table, h, d, since)
<1> USE DEF PendingType
<1>1. DOMAIN t \subseteq Hosts \ Excluded
  BY ObserveKeeps
<1>2. \A g \in DOMAIN t : IsDeployerTable(t[g])
  BY DEF Observe, Put, EmptyTable, IsDeployerTable
<1>3. Cardinality(DOMAIN t) <= HostsMax
  <2>1. CASE DOMAIN t = DOMAIN table
    BY <2>1
  <2>2. CASE /\ h \notin DOMAIN table
             /\ DOMAIN t = DOMAIN table \cup {h}
             /\ Cardinality(DOMAIN table) < HostsMax
    <3>1. IsFiniteSet(DOMAIN table)
      BY FS_Subset, StaleConstants
    <3>2. /\ Cardinality(DOMAIN t) = Cardinality(DOMAIN table) + 1
          /\ Cardinality(DOMAIN table) \in Nat
      BY <2>2, <3>1, FS_AddElement, FS_CardinalityType
    <3>3. QED  BY <2>2, <3>2, StaleConstants
  <2>3. QED
    <3>1. IsFiniteSet(DOMAIN table)
      BY FS_Subset, StaleConstants
    <3>2. Cardinality(DOMAIN table) \in Nat
      BY <3>1, FS_CardinalityType
    <3>3. \/ DOMAIN t = DOMAIN table
          \/ /\ h \notin DOMAIN table /\ DOMAIN t = DOMAIN table \cup {h}
             /\ ~ (Cardinality(DOMAIN table) >= HostsMax)
      BY DEF Observe, Put, EmptyTable
    <3>4. QED  BY <2>1, <2>2, <3>2, <3>3, StaleConstants
<1>4. QED  BY <1>1, <1>2, <1>3

(* The pending and the live table are finite, and so are the hosts the      *)
(* commit appends.                                                          *)
LEMMA TablesFinite ==
    ASSUME TypeOK
    PROVE  /\ IsFiniteSet(DOMAIN pending) /\ IsFiniteSet(DOMAIN live)
           /\ Cardinality(DOMAIN live) \in Nat
           /\ IsFiniteSet(New)
           /\ \A h : IsFiniteSet({g \in New : g <= h})
           /\ \A h : Cardinality({g \in New : g <= h}) \in Nat
<1>1. IsFiniteSet(DOMAIN pending) /\ IsFiniteSet(DOMAIN live)
  BY FS_Subset, StaleConstants DEF TypeOK
<1>2. IsFiniteSet(New)
  BY <1>1, FS_Subset DEF New, Kept
<1>3. \A h : {g \in New : g <= h} \in SUBSET New
  OBVIOUS
<1>4. QED  BY <1>1, <1>2, <1>3, FS_Subset, FS_CardinalityType

(* Of two hosts the commit wants to append, the one that comes first by     *)
(* name gets the lower position: no two share a slot.                       *)
LEMMA PositionsDiffer ==
    ASSUME TypeOK, NEW g \in New, NEW h \in New, g < h
    PROVE  Position(g) < Position(h)
<1> DEFINE upTo(x) == {y \in New : y <= x}
<1>1. New \subseteq Nat
  BY StaleConstants DEF New, Kept, TypeOK
<1>2. /\ upTo(g) \cup {h} \in SUBSET upTo(h)
      /\ h \notin upTo(g)
  <2>1. g \in Nat /\ h \in Nat
    BY <1>1
  <2>2. \A y \in upTo(g) : y \in New /\ y <= h
    BY <1>1, <2>1
  <2>3. h \in upTo(h) /\ h \notin upTo(g)
    BY <2>1
  <2>4. QED  BY <2>2, <2>3
<1>3. /\ Cardinality(upTo(g) \cup {h}) = Cardinality(upTo(g)) + 1
      /\ Cardinality(upTo(g) \cup {h}) <= Cardinality(upTo(h))
  BY <1>2, TablesFinite, FS_AddElement, FS_Subset
<1>4. /\ Cardinality(upTo(g)) \in Nat /\ Cardinality(upTo(h)) \in Nat
      /\ Cardinality(DOMAIN live) \in Nat
  BY TablesFinite
<1>5. QED  BY <1>3, <1>4 DEF Position

(* The hosts a commit adds to the live table do not overrun it. *)
LEMMA CommitFits ==
    ASSUME TypeOK
    PROVE  Cardinality(DOMAIN CommitTable) <= HostsMax
<1> DEFINE n == Cardinality(DOMAIN live)
           f == [h \in Added |-> Position(h)]
<1>1. n \in Nat /\ n <= HostsMax /\ HostsMax \in Nat
  BY TablesFinite, StaleConstants DEF TypeOK
<1>2. \A h \in Added : Position(h) \in (n + 1) .. HostsMax
  <2> SUFFICES ASSUME NEW h \in Added
               PROVE  Position(h) \in (n + 1) .. HostsMax
    OBVIOUS
  <2>1. h \in {g \in New : g <= h}
    <3>1. h \in New /\ New \subseteq Hosts
      BY DEF Added, New, Kept, TypeOK
    <3>2. h \in Nat
      BY <3>1, StaleConstants
    <3>3. QED  BY <3>1, <3>2
  <2>2. Cardinality({g \in New : g <= h}) # 0
    BY <2>1, TablesFinite, FS_EmptySet
  <2>3. QED  BY <1>1, <2>2, TablesFinite DEF Added, Position
<1>3. \A g, h \in Added : f[g] = f[h] => g = h
  <2> SUFFICES ASSUME NEW g \in Added, NEW h \in Added, g # h
               PROVE  Position(g) # Position(h)
    OBVIOUS
  <2>1. g \in Nat /\ h \in Nat /\ g \in New /\ h \in New
    BY StaleConstants DEF Added, New, Kept, TypeOK
  <2>2. g < h \/ h < g
    BY <2>1
  <2>3. Position(g) \in Int /\ Position(h) \in Int
    BY <1>2
  <2>4. QED  BY <2>1, <2>2, <2>3, PositionsDiffer
<1>4. f \in Injection(Added, (n + 1) .. HostsMax)
  BY <1>2, <1>3, Fun_IsInj
<1>5. /\ IsFiniteSet(Added)
      /\ Cardinality(Added) \in Nat
      /\ Cardinality(Added) <= HostsMax - n
  <2>1. /\ IsFiniteSet((n + 1) .. HostsMax)
        /\ Cardinality((n + 1) .. HostsMax) = HostsMax - n
    <3>1. n + 1 \in Int /\ HostsMax \in Int
      BY <1>1
    <3>2. /\ IsFiniteSet((n + 1) .. HostsMax)
          /\ Cardinality((n + 1) .. HostsMax) =
               IF n + 1 > HostsMax THEN 0 ELSE HostsMax - (n + 1) + 1
      BY <3>1, FS_Interval
    <3>3. QED  BY <1>1, <3>2
  <2>2. QED  BY <1>4, <2>1, FS_Injection, FS_CardinalityType
<1>6. DOMAIN live \cap Added = {}
  BY DEF Added, New
<1>7. Cardinality(DOMAIN live \cup Added) = n + Cardinality(Added)
  <2>1. Cardinality(DOMAIN live \cap Added) = 0
    BY <1>6, FS_EmptySet
  <2>2. Cardinality(DOMAIN live \cup Added) =
          n + Cardinality(Added) - Cardinality(DOMAIN live \cap Added)
    BY <1>5, TablesFinite, FS_Union
  <2>3. QED  BY <1>1, <1>5, <2>1, <2>2
<1>8. QED  BY <1>1, <1>5, <1>7, FS_CardinalityType DEF CommitTable

LEMMA CommitTableType ==
    ASSUME TypeOK
    PROVE  /\ DOMAIN CommitTable \subseteq Hosts \ Excluded
           /\ \A h \in DOMAIN CommitTable : CommitTable[h] \in Entry
<1>1. Added \subseteq DOMAIN pending
  BY DEF Added, New, Kept
<1>2. \A h \in DOMAIN pending : DOMAIN pending[h] \in SUBSET Deployers
  BY DEF TypeOK, IsDeployerTable
<1>3. \A h \in Added : Position(h) \in Int
  BY TablesFinite DEF Position
<1>4. \A h \in Kept : h \in DOMAIN pending
  BY DEF Kept
<1>5. QED  BY <1>1, <1>2, <1>3, <1>4 DEF TypeOK, CommitTable, Entry

(* The reap and the paint keep the live table in its type and size. *)
LEMMA RefreshType ==
    ASSUME TypeOK, Refresh
    PROVE  /\ DOMAIN live' \subseteq Hosts \ Excluded
           /\ Cardinality(DOMAIN live') <= HostsMax
           /\ \A h \in DOMAIN live' : live'[h] \in Entry
           /\ strip' \subseteq Hosts
<1>1. DOMAIN live' = DOMAIN live \ Emptied
  BY DEF Refresh
<1>2. Cardinality(DOMAIN live') <= HostsMax
  <2>1. /\ DOMAIN live' \in SUBSET DOMAIN live
        /\ IsFiniteSet(DOMAIN live) /\ Cardinality(DOMAIN live) \in Nat
    BY <1>1, TablesFinite
  <2>2. /\ Cardinality(DOMAIN live') <= Cardinality(DOMAIN live)
        /\ Cardinality(DOMAIN live') \in Nat
    BY <2>1, FS_Subset, FS_CardinalityType
  <2>3. QED  BY <2>1, <2>2, StaleConstants DEF TypeOK
<1>3. ASSUME NEW h \in DOMAIN live'
      PROVE  live'[h] \in Entry
  <2> DEFINE below == {g \in Emptied : live[g].pos < live[h].pos}
  <2>1. Cardinality(below) \in Int
    <3>1. below \in SUBSET DOMAIN live
      BY DEF Emptied
    <3>2. QED  BY <3>1, TablesFinite, FS_Subset, FS_CardinalityType
  <2>2. live[h] \in Entry
    BY <1>1, <1>3 DEF TypeOK
  <2>3. live'[h] = [live[h] EXCEPT !.pos = @ - Cardinality(below),
                                   !.container = TRUE]
    BY <1>1, <1>3 DEF Refresh
  <2>4. live[h].pos \in Int /\ live[h].deployers \in SUBSET Deployers
    BY <2>2 DEF Entry
  <2>5. live'[h] = [deployers |-> live[h].deployers,
                    pos |-> live[h].pos - Cardinality(below),
                    container |-> TRUE]
    BY <2>2, <2>3 DEF Entry
  <2>6. live[h].pos - Cardinality(below) \in Int
    BY <2>1, <2>4
  <2>7. QED  BY <2>4, <2>5, <2>6 DEF Entry
<1>4. DOMAIN live' \subseteq Hosts \ Excluded /\ strip' \subseteq Hosts
  BY <1>1 DEF TypeOK, Refresh
<1>5. QED  BY <1>2, <1>3, <1>4

LEMMA TypeInit == Init => TypeOK
<1> SUFFICES ASSUME Init PROVE TypeOK
  OBVIOUS
<1>1. DOMAIN EmptyTable = {}
  BY DEF EmptyTable
<1>2. Cardinality({}) = 0
  BY FS_EmptySet
<1>3. feed \in [Keys -> Payload \cup {None}] /\ now \in Times
  BY StaleConstants DEF Init
<1>4. /\ DOMAIN pending = {} /\ DOMAIN live = {}
      /\ Cardinality(DOMAIN pending) <= HostsMax
      /\ Cardinality(DOMAIN live) <= HostsMax
  BY <1>1, <1>2, StaleConstants DEF Init
<1>5. /\ pc = "boot" /\ page = {} /\ lastPage = FALSE /\ lasting = {}
      /\ owed = {} /\ sighted = {} /\ strip = {} /\ asOf = None
  BY DEF Init
<1>6. QED  BY <1>3, <1>4, <1>5 DEF TypeOK

LEMMA TypeStep == TypeOK /\ [Next]_vars => TypeOK'
<1> SUFFICES ASSUME TypeOK, [Next]_vars PROVE TypeOK'
  OBVIOUS
<1> USE StaleConstants
<1>e. DOMAIN EmptyTable = {} /\ Cardinality({}) = 0 /\ 0 <= HostsMax
  BY FS_EmptySet DEF EmptyTable
<1>p. Present \subseteq Keys
  BY DEF Present
<1>1. ASSUME NEW k \in Keys, Raise(k) PROVE TypeOK'
  BY <1>1 DEF TypeOK, Raise, walkVars
<1>2. ASSUME NEW k \in Keys, Clear(k) PROVE TypeOK'
  BY <1>2 DEF TypeOK, Clear, walkVars
<1>3. CASE Advance
  BY <1>3 DEF TypeOK, Advance, walkVars, seenVars
<1>4. CASE BeginCycle
  BY <1>4, <1>e, <1>p DEF TypeOK, BeginCycle, walkVars, feedVars
<1>5. CASE SkipCycle
  BY <1>5 DEF TypeOK, SkipCycle, walkVars, feedVars, seenVars
<1>6. ASSUME NEW keys \in SUBSET Present, NEW last \in BOOLEAN,
             ScanPage(keys, last)
      PROVE  TypeOK'
  BY <1>6, <1>p DEF TypeOK, ScanPage, feedVars
<1>7. ASSUME NEW k \in Keys, GetKey(k) PROVE TypeOK'
  <2>1. CASE feed[k] = None
    BY <1>7, <2>1 DEF TypeOK, GetKey, ApplyRecord, feedVars, seenVars
  <2>2. CASE feed[k] # None
    <3>1. PICK since \in {feed[k], Unreadable} :
             pending' = Observe(pending, HostOf[k], DeployerOf[k], since)
      BY <1>7, <2>2 DEF GetKey, ApplyRecord
    <3>2. /\ HostOf[k] \in Hosts /\ DeployerOf[k] \in Deployers
          /\ since \in Payload
      BY <2>2, <3>1 DEF TypeOK
    <3>3. PendingType(pending')
      <4>1. PendingType(pending)
        BY DEF TypeOK, PendingType
      <4>2. QED  BY <3>1, <3>2, <4>1, ObserveType
    <3>4. QED  BY <1>7, <3>3 DEF TypeOK, PendingType, GetKey, ApplyRecord, feedVars, seenVars
  <2>3. QED  BY <2>1, <2>2
<1>8. CASE NextPage
  BY <1>8 DEF TypeOK, NextPage, walkVars, feedVars, seenVars
<1>9. CASE AbortCycle
  BY <1>9, <1>e DEF TypeOK, AbortCycle, EndWalk, feedVars, seenVars
<1>10. CASE Commit
  <2>1. /\ DOMAIN live' \subseteq Hosts \ Excluded
        /\ Cardinality(DOMAIN live') <= HostsMax
        /\ \A h \in DOMAIN live' : live'[h] \in Entry
    BY <1>10, CommitFits, CommitTableType DEF Commit
  <2>2. QED  BY <1>10, <1>e, <2>1 DEF TypeOK, Commit, EndWalk, feedVars, seenVars
<1>11. CASE Refresh
  BY <1>11, RefreshType DEF TypeOK, Refresh, walkVars, feedVars
<1>12. CASE Restart
  BY <1>12, <1>e DEF TypeOK, Restart, EndWalk, feedVars
<1>13. CASE UNCHANGED vars
  BY <1>13 DEF TypeOK, vars
<1>14. QED
  BY <1>1, <1>2, <1>3, <1>4, <1>5, <1>6, <1>7, <1>8, <1>9, <1>10, <1>11,
     <1>12, <1>13 DEF Next, Fleet, Dashboard

(* Every variable keeps its type, and neither the pending nor the live      *)
(* table ever holds more than STALE_REGISTRY_MAX hosts.                     *)
THEOREM TypeCorrect == Spec => []TypeOK
BY TypeInit, TypeStep, PTL DEF Spec

-----------------------------------------------------------------------------
(* The strip shows what is live. *)

(* An entry is emptied only by a commit, and only until the refresh that    *)
(* follows it in the same timer callback.                                   *)
EmptiedByCommit == Emptied # {} => pc = "refresh" /\ Committed

StripInv == StripMirrorsLive /\ EmptiedByCommit

LEMMA RefreshEntries ==
    ASSUME TypeOK, Refresh
    PROVE  /\ DOMAIN live' = DOMAIN live \ Emptied
           /\ \A h \in DOMAIN live' :
                /\ live'[h].container = TRUE
                /\ live'[h].deployers = live[h].deployers
<1>1. DOMAIN live' = DOMAIN live \ Emptied
  BY DEF Refresh
<1>2. ASSUME NEW h \in DOMAIN live'
      PROVE  /\ live'[h].container = TRUE
             /\ live'[h].deployers = live[h].deployers
  <2>1. live[h] \in Entry
    BY <1>1, <1>2 DEF TypeOK
  <2>2. PICK p : live'[h] = [live[h] EXCEPT !.pos = p, !.container = TRUE]
    BY <1>1, <1>2 DEF Refresh
  <2>3. QED  BY <2>1, <2>2 DEF Entry
<1>3. QED  BY <1>1, <1>2

LEMMA CommitEntries ==
    ASSUME TypeOK
    PROVE  /\ DOMAIN CommitTable = DOMAIN live \cup Added
           /\ DOMAIN live \cap Added = {}
           /\ \A h \in DOMAIN live :
                /\ CommitTable[h].container = live[h].container
                /\ CommitTable[h].deployers =
                       IF h \in Kept THEN DOMAIN pending[h] ELSE {}
           /\ \A h \in Added :
                /\ CommitTable[h].container = FALSE
                /\ CommitTable[h].deployers = DOMAIN pending[h]
<1>1. DOMAIN live \cap Added = {}
  BY DEF Added, New
<1>2. ASSUME NEW h \in DOMAIN live
      PROVE  /\ CommitTable[h].container = live[h].container
             /\ CommitTable[h].deployers =
                    IF h \in Kept THEN DOMAIN pending[h] ELSE {}
  <2>1. live[h] \in Entry
    BY DEF TypeOK
  <2>2. CommitTable[h] = [live[h] EXCEPT !.deployers =
                             IF h \in Kept THEN DOMAIN pending[h] ELSE {}]
    BY <1>1 DEF CommitTable
  <2>3. QED  BY <2>1, <2>2 DEF Entry
<1>3. QED  BY <1>1, <1>2 DEF CommitTable

LEMMA StripStep == TypeOK /\ StripInv /\ [Next]_vars => StripInv'
<1> SUFFICES ASSUME TypeOK, StripInv, [Next]_vars PROVE StripInv'
  OBVIOUS
<1> USE DEF StripInv, StripMirrorsLive, EmptiedByCommit
<1>1. ASSUME UNCHANGED <<live, strip>>, pc' # "idle",
             Emptied = {} \/ UNCHANGED <<pc, asOf>>
      PROVE  StripInv'
  BY <1>1 DEF Emptied, Committed
<1>2. ASSUME UNCHANGED <<live, strip, pc, asOf>> PROVE StripInv'
  BY <1>2 DEF Emptied, Committed
<1>3. ASSUME NEW k \in Keys, Raise(k) \/ Clear(k) \/ GetKey(k) PROVE StripInv'
  BY <1>2, <1>3 DEF Raise, Clear, GetKey, ApplyRecord
<1>4. CASE Advance
  BY <1>2, <1>4 DEF Advance
<1>5. CASE BeginCycle \/ SkipCycle \/ NextPage
  BY <1>1, <1>5 DEF BeginCycle, SkipCycle, NextPage
<1>6. ASSUME NEW keys, NEW last, ScanPage(keys, last) PROVE StripInv'
  BY <1>1, <1>6 DEF ScanPage
<1>7. CASE AbortCycle
  BY <1>1, <1>7 DEF AbortCycle
<1>8. CASE Commit
  <2>1. pc' = "refresh" /\ live' = CommitTable /\ strip' = strip /\ asOf' = now
    BY <1>8 DEF Commit
  <2>2. strip' = {h \in DOMAIN live' : live'[h].container}
    BY <2>1, CommitEntries
  <2>3. Committed'
    BY <2>1, StaleConstants DEF Committed, TypeOK
  <2>4. QED  BY <2>1, <2>2, <2>3
<1>9. CASE Refresh
  <2>1. /\ DOMAIN live' = DOMAIN live \ Emptied
        /\ \A h \in DOMAIN live' : /\ live'[h].container = TRUE
                                   /\ live'[h].deployers = live[h].deployers
    BY <1>9, RefreshEntries
  <2>2. strip' = DOMAIN live'
    BY <1>9, <2>1 DEF Refresh
  <2>3. Emptied' = {}
    BY <2>1 DEF Emptied
  <2>4. QED  BY <2>1, <2>2, <2>3
<1>10. CASE Restart
  BY <1>10 DEF Restart, EmptyTable, Emptied
<1>11. CASE UNCHANGED vars
  BY <1>2, <1>11 DEF vars
<1>12. QED
  BY <1>3, <1>4, <1>5, <1>6, <1>7, <1>8, <1>9, <1>10, <1>11
  DEF Next, Fleet, Dashboard

LEMMA StripInit == Init => StripInv
BY DEF Init, StripInv, StripMirrorsLive, EmptiedByCommit, Emptied, EmptyTable

(* Between refreshes the footer strip has exactly one card per live host,   *)
(* and none for a host whose flags are gone.                                *)
THEOREM StripSound == Spec => []StripMirrorsLive
<1>1. Spec => []StripInv
  BY TypeCorrect, StripInit, StripStep, PTL DEF Spec
<1>2. StripInv => StripMirrorsLive
  BY DEF StripInv
<1>3. QED  BY <1>1, <1>2, PTL
-----------------------------------------------------------------------------
(* The walk: what it has found, and what it still owes. *)

Recorded(k) ==
    HostOf[k] \in DOMAIN pending /\ DeployerOf[k] \in DOMAIN pending[HostOf[k]]

(* Where the walk stands: nothing is pending outside it; inside it, what    *)
(* lasts or appears is sighted, and what is pending was sighted.            *)
WalkShape ==
    /\ pc # "get" => page = {}
    /\ lasting \subseteq Present /\ lasting \subseteq sighted
    /\ owed \subseteq lasting
    /\ pc = "get" /\ lastPage => owed = {}
    /\ IF Walking THEN Present \subseteq sighted /\ ~Committed
                  ELSE pending = EmptyTable

PendingSighted ==
    \A h \in DOMAIN pending :
        h \in SightedHosts /\ DOMAIN pending[h] \subseteq SightedDeployers(h)

(* A lasting key is recorded, unless the walk still has to fetch it, it may *)
(* not be raised, or there was no room.                                     *)
WalkFinds ==
    Walking => \A k \in lasting :
        \/ k \in owed \cup page
        \/ HostOf[k] \in Excluded
        \/ Overflowed(HostOf[k])
        \/ Recorded(k)

WalkInv == WalkShape /\ PendingSighted /\ WalkFinds

(* Keys whose names parse to the same host and deployer are the same key.   *)
NoAliases ==
    \A j, k \in Keys :
        HostOf[j] = HostOf[k] /\ DeployerOf[j] = DeployerOf[k] => j = k

(* What is pending under a lasting key is that key's payload, or a reply    *)
(* that could not be read.                                                  *)
PendingTrue ==
    \A k \in lasting : Walking /\ Recorded(k) =>
        pending[HostOf[k]][DeployerOf[k]] \in {feed[k], Unreadable}

LEMMA SightFinite ==
    ASSUME sighted \subseteq Keys, NEW h
    PROVE  /\ IsFiniteSet(SightedHosts) /\ IsFiniteSet(SightedDeployers(h))
           /\ Cardinality(SightedHosts) \in Nat
           /\ Cardinality(SightedDeployers(h)) \in Nat
<1>1. SightedHosts \subseteq Hosts /\ SightedDeployers(h) \subseteq Deployers
  BY StaleConstants DEF SightedHosts, SightedDeployers
<1>2. QED  BY <1>1, StaleConstants, FS_Subset, FS_CardinalityType

(* Sighting more never makes room. *)
LEMMA OverflowLasts ==
    ASSUME sighted' \subseteq Keys, sighted \subseteq sighted',
           NEW h, Overflowed(h)
    PROVE  Overflowed(h)'
<1>1. /\ SightedHosts \in SUBSET SightedHosts'
      /\ SightedDeployers(h) \in SUBSET SightedDeployers(h)'
  BY DEF SightedHosts, SightedDeployers
<1>2. /\ IsFiniteSet(SightedHosts') /\ IsFiniteSet(SightedDeployers(h)')
      /\ Cardinality(SightedHosts') \in Nat
      /\ Cardinality(SightedDeployers(h)') \in Nat
  <2>1. SightedHosts' \subseteq Hosts /\ SightedDeployers(h)' \subseteq Deployers
    BY StaleConstants DEF SightedHosts, SightedDeployers
  <2>2. QED  BY <2>1, StaleConstants, FS_Subset, FS_CardinalityType
<1>3. /\ Cardinality(SightedHosts) <= Cardinality(SightedHosts')
      /\ Cardinality(SightedDeployers(h)) <= Cardinality(SightedDeployers(h)')
      /\ Cardinality(SightedHosts) \in Nat
      /\ Cardinality(SightedDeployers(h)) \in Nat
  BY <1>1, <1>2, FS_Subset, FS_CardinalityType
<1>4. QED  BY <1>2, <1>3, StaleConstants DEF Overflowed

(* If the pending table has no room for a sighted key, that is because more *)
(* was sighted than it can hold.                                            *)
LEMMA FullIsOverflow ==
    ASSUME TypeOK, PendingSighted, NEW k \in sighted, HostOf[k] \notin Excluded
    PROVE  /\ HostOf[k] \notin DOMAIN pending
              /\ Cardinality(DOMAIN pending) >= HostsMax
              => Overflowed(HostOf[k])
           /\ /\ HostOf[k] \in DOMAIN pending
              /\ DeployerOf[k] \notin DOMAIN pending[HostOf[k]]
              /\ Cardinality(DOMAIN pending[HostOf[k]]) >= DeployersMax
              => Overflowed(HostOf[k])
<1> DEFINE h == HostOf[k]
           d == DeployerOf[k]
<1>1. /\ h \in SightedHosts /\ d \in SightedDeployers(h)
  BY DEF SightedHosts, SightedDeployers
<1>2. /\ IsFiniteSet(SightedHosts) /\ IsFiniteSet(SightedDeployers(h))
      /\ Cardinality(SightedHosts) \in Nat
      /\ Cardinality(SightedDeployers(h)) \in Nat
  BY SightFinite DEF TypeOK
<1>3. ASSUME h \notin DOMAIN pending, Cardinality(DOMAIN pending) >= HostsMax
      PROVE  Overflowed(h)
  <2>1. /\ DOMAIN pending \cup {h} \in SUBSET SightedHosts
        /\ IsFiniteSet(DOMAIN pending)
    BY <1>1, TablesFinite DEF PendingSighted
  <2>2. /\ Cardinality(DOMAIN pending \cup {h}) <= Cardinality(SightedHosts)
        /\ Cardinality(DOMAIN pending \cup {h}) = Cardinality(DOMAIN pending) + 1
        /\ Cardinality(DOMAIN pending) \in Nat
    BY <1>2, <1>3, <2>1, FS_Subset, FS_AddElement, FS_CardinalityType
  <2>3. QED  BY <1>2, <1>3, <2>2, StaleConstants DEF Overflowed
<1>4. ASSUME h \in DOMAIN pending, d \notin DOMAIN pending[h],
             Cardinality(DOMAIN pending[h]) >= DeployersMax
      PROVE  Overflowed(h)
  <2>1. DOMAIN pending[h] \cup {d} \in SUBSET SightedDeployers(h)
    BY <1>1, <1>4 DEF PendingSighted
  <2>2. IsFiniteSet(DOMAIN pending[h])
    BY <1>2, <2>1, FS_Subset
  <2>3. /\ Cardinality(DOMAIN pending[h] \cup {d})
             <= Cardinality(SightedDeployers(h))
        /\ Cardinality(DOMAIN pending[h] \cup {d})
             = Cardinality(DOMAIN pending[h]) + 1
        /\ Cardinality(DOMAIN pending[h]) \in Nat
    BY <1>2, <1>4, <2>1, <2>2, FS_Subset, FS_AddElement, FS_CardinalityType
  <2>4. QED  BY <1>2, <1>4, <2>3, StaleConstants DEF Overflowed
<1>5. QED  BY <1>3, <1>4

LEMMA WalkInit == Init => WalkInv
BY DEF Init, WalkInv, WalkShape, PendingSighted, WalkFinds, Walking, Present,
       EmptyTable

(* A step of the fleet disturbs the walk only by sighting a key or by       *)
(* ending the life of one.                                                  *)
LEMMA WalkRaise ==
    ASSUME TypeOK, TypeOK', WalkInv, NEW j \in Keys, Raise(j)
    PROVE  WalkInv'
<1> USE DEF WalkInv, Raise, walkVars
<1>1. sighted \subseteq sighted' /\ Walking' = Walking /\ pending' = pending
  BY DEF Walking
<1>2. Present' \subseteq Present \cup {j} /\ Present \subseteq Present'
  BY DEF Present, TypeOK
<1>3. WalkShape'
  BY <1>1, <1>2 DEF WalkShape, Committed, Walking
<1>4. PendingSighted'
  BY <1>1 DEF PendingSighted, SightedHosts, SightedDeployers
<1>5. WalkFinds'
  <2>1. \A h : Overflowed(h) => Overflowed(h)'
    BY <1>1, OverflowLasts DEF TypeOK
  <2>2. QED  BY <1>1, <2>1 DEF WalkFinds, Recorded
<1>6. QED  BY <1>3, <1>4, <1>5

LEMMA WalkClear ==
    ASSUME TypeOK, WalkInv, NEW j \in Keys, Clear(j)
    PROVE  WalkInv'
<1> USE DEF WalkInv, Clear, walkVars
<1>1. Present' = Present \ {j}
  BY DEF Present, TypeOK
<1>2. WalkShape'
  BY <1>1 DEF WalkShape, Committed, Walking
<1>3. PendingSighted'
  BY DEF PendingSighted, SightedHosts, SightedDeployers
<1>4. WalkFinds'
  BY DEF WalkFinds, Recorded, Overflowed, SightedHosts, SightedDeployers, Walking
<1>5. QED  BY <1>2, <1>3, <1>4

(* A step that leaves what is seen and what is pending alone. *)
LEMMA WalkAdvance ==
    ASSUME WalkInv, UNCHANGED <<feed, pc, walkVars, seenVars, pending, asOf>>
    PROVE  WalkInv'
BY DEF WalkInv, WalkShape, PendingSighted, WalkFinds, Walking, Present,
       Committed, Recorded, Overflowed, SightedHosts, SightedDeployers,
       walkVars, seenVars

(* Outside a walk there is nothing to show but that nothing is pending.     *)
LEMMA WalkOutside ==
    ASSUME pc' \notin {"scan", "get"}, page' = {}, pending' = EmptyTable,
           lasting' \subseteq Present', lasting' \subseteq sighted',
           owed' \subseteq lasting'
    PROVE  WalkInv'
BY DEF WalkInv, WalkShape, PendingSighted, WalkFinds, Walking, EmptyTable

LEMMA WalkBegin ==
    ASSUME WalkInv, BeginCycle
    PROVE  WalkInv'
BY DEF WalkInv, WalkShape, PendingSighted, WalkFinds, Walking, Present,
       Committed, BeginCycle, EmptyTable, feedVars, walkVars

LEMMA WalkPage ==
    ASSUME TypeOK, WalkInv, NEW keys \in SUBSET Present, NEW last \in BOOLEAN,
           ScanPage(keys, last)
    PROVE  WalkInv'
<1> USE DEF WalkInv, ScanPage, feedVars
<1>1. WalkShape'
  BY DEF WalkShape, Walking, Present, Committed
<1>2. PendingSighted'
  BY DEF PendingSighted, SightedHosts, SightedDeployers
<1>3. WalkFinds'
  BY DEF WalkFinds, WalkShape, Walking, Recorded, Overflowed, SightedHosts,
         SightedDeployers
<1>4. QED  BY <1>1, <1>2, <1>3

LEMMA WalkNextPage ==
    ASSUME WalkInv, NextPage
    PROVE  WalkInv'
BY DEF WalkInv, WalkShape, PendingSighted, WalkFinds, Walking, Present,
       Committed, Recorded, Overflowed, SightedHosts, SightedDeployers,
       NextPage, feedVars, walkVars, seenVars

(* A GET keeps what is recorded, records a key it finds or runs out of      *)
(* room, and strikes a key it does not find: that one does not last.        *)
LEMMA WalkGet ==
    ASSUME TypeOK, WalkInv, NEW j \in Keys, GetKey(j)
    PROVE  WalkInv'
<1> USE DEF WalkInv
<1>1. /\ page' = page \ {j} /\ pc = "get" /\ j \in page
      /\ UNCHANGED <<feedVars, pc, lastPage, seenVars, asOf>>
  BY DEF GetKey, ApplyRecord
<1>2. WalkShape'
  BY <1>1 DEF WalkShape, Walking, Present, Committed, feedVars, seenVars
<1>3. CASE feed[j] = None
  <2>1. pending' = pending /\ j \notin lasting
    BY <1>1, <1>3 DEF GetKey, ApplyRecord, WalkShape, Present
  <2>2. PendingSighted' /\ WalkFinds'
    BY <1>1, <2>1 DEF PendingSighted, WalkFinds, Walking, Recorded, Overflowed,
                      SightedHosts, SightedDeployers, seenVars
  <2>3. QED  BY <1>2, <2>2
<1>4. CASE feed[j] # None
  <2> DEFINE h == HostOf[j]
             d == DeployerOf[j]
  <2>1. PICK since : pending' = Observe(pending, h, d, since)
    BY <1>4 DEF GetKey, ApplyRecord
  <2>2. j \in sighted
    BY <1>1, <1>4 DEF WalkShape, Walking, Present
  <2>3. /\ DOMAIN pending \subseteq DOMAIN pending'
        /\ \A g \in DOMAIN pending : DOMAIN pending[g] \subseteq DOMAIN pending'[g]
    BY <2>1, ObserveKeeps
  <2>4. \A g \in DOMAIN pending' : \A e \in DOMAIN pending'[g] :
            \/ g \in DOMAIN pending /\ e \in DOMAIN pending[g]
            \/ g = h /\ e = d
    BY <2>1, ObserveAdds
  <2>5. DOMAIN pending' \subseteq DOMAIN pending \cup ({h} \ Excluded)
    BY <2>1, ObserveKeeps
  <2>6. PendingSighted'
    <3>1. h \notin Excluded => h \in SightedHosts
      BY <2>2 DEF SightedHosts
    <3>2. d \in SightedDeployers(h)
      BY <2>2 DEF SightedDeployers
    <3>3. SightedHosts' = SightedHosts
          /\ \A g : SightedDeployers(g)' = SightedDeployers(g)
      BY <1>1 DEF SightedHosts, SightedDeployers, seenVars
    <3>4. \A g \in DOMAIN pending' : g \in SightedHosts
      BY <2>5, <3>1 DEF PendingSighted
    <3>5. \A g \in DOMAIN pending' : \A e \in DOMAIN pending'[g] :
              e \in SightedDeployers(g)
      BY <2>4, <3>2 DEF PendingSighted
    <3>6. QED  BY <3>3, <3>4, <3>5 DEF PendingSighted
  <2>7. h \in Excluded \/ Overflowed(h) \/ Recorded(j)'
    <3>1. \/ h \in Excluded
          \/ h \in DOMAIN pending' /\ d \in DOMAIN pending'[h]
          \/ /\ h \notin DOMAIN pending
             /\ Cardinality(DOMAIN pending) >= HostsMax
          \/ /\ h \in DOMAIN pending /\ d \notin DOMAIN pending[h]
             /\ Cardinality(DOMAIN pending[h]) >= DeployersMax
      BY <2>1, ObserveRecords
    <3>2. QED  BY <2>2, <3>1, FullIsOverflow DEF Recorded
  <2>8. WalkFinds'
    <3> SUFFICES ASSUME NEW k \in lasting
                 PROVE  \/ k \in owed \cup page'
                        \/ HostOf[k] \in Excluded
                        \/ Overflowed(HostOf[k])
                        \/ Recorded(k)'
      BY <1>1 DEF WalkFinds, Overflowed, SightedHosts, SightedDeployers, seenVars
    <3>1. CASE k = j
      BY <2>7, <3>1
    <3>2. CASE k # j
      BY <1>1, <2>3, <3>2 DEF WalkFinds, Walking, Recorded
    <3>3. QED  BY <3>1, <3>2
  <2>9. QED  BY <1>2, <2>6, <2>8
<1>5. QED  BY <1>3, <1>4

LEMMA WalkStep == TypeOK /\ TypeOK' /\ WalkInv /\ [Next]_vars => WalkInv'
<1> SUFFICES ASSUME TypeOK, TypeOK', WalkInv, [Next]_vars PROVE WalkInv'
  OBVIOUS
<1>1. ASSUME NEW k \in Keys, Raise(k) PROVE WalkInv'
  BY <1>1, WalkRaise
<1>2. ASSUME NEW k \in Keys, Clear(k) PROVE WalkInv'
  BY <1>2, WalkClear
<1>3. ASSUME Advance \/ UNCHANGED vars PROVE WalkInv'
  BY <1>3, WalkAdvance DEF Advance, vars, walkVars, seenVars
<1>4. CASE BeginCycle
  BY <1>4, WalkBegin
<1>5. CASE SkipCycle
  BY <1>5, WalkOutside
  DEF SkipCycle, WalkInv, WalkShape, Walking, Present, feedVars, walkVars, seenVars
<1>6. ASSUME NEW keys \in SUBSET Present, NEW last \in BOOLEAN,
             ScanPage(keys, last)
      PROVE  WalkInv'
  BY <1>6, WalkPage
<1>7. ASSUME NEW k \in Keys, GetKey(k) PROVE WalkInv'
  BY <1>7, WalkGet
<1>8. CASE NextPage
  BY <1>8, WalkNextPage
<1>9. CASE AbortCycle
  BY <1>9, WalkOutside
  DEF AbortCycle, EndWalk, WalkInv, WalkShape, Present, feedVars, seenVars
<1>10. CASE Commit
  BY <1>10, WalkOutside
  DEF Commit, EndWalk, WalkInv, WalkShape, Present, feedVars, seenVars
<1>11. CASE Refresh
  BY <1>11, WalkOutside
  DEF Refresh, WalkInv, WalkShape, Walking, walkVars
<1>12. CASE Restart
  BY <1>12, WalkOutside DEF Restart, EndWalk
<1>13. QED
  BY <1>1, <1>2, <1>3, <1>4, <1>5, <1>6, <1>7, <1>8, <1>9, <1>10, <1>11, <1>12
  DEF Next, Fleet, Dashboard

-----------------------------------------------------------------------------
(* No card is invented. *)

LEMMA ListedStep ==
    ASSUME TypeOK, TypeOK', WalkInv, EmptiedByCommit, ListedWasFlagged,
           [Next]_vars
    PROVE  ListedWasFlagged'
<1>1. ASSUME UNCHANGED <<live, sighted>>, pc' = "refresh" /\ Committed'
                 => pc = "refresh" /\ Committed
      PROVE  ListedWasFlagged'
  BY <1>1 DEF ListedWasFlagged
<1>2. ASSUME pc' # "refresh" PROVE ListedWasFlagged'
  BY <1>2 DEF ListedWasFlagged
<1>3. ASSUME NEW k \in Keys, Raise(k) PROVE ListedWasFlagged'
  <2>1. sighted \subseteq sighted'
    BY <1>3 DEF Raise
  <2>2. QED  BY <1>3, <2>1 DEF Raise, ListedWasFlagged, Committed
<1>4. ASSUME NEW k \in Keys, Clear(k) PROVE ListedWasFlagged'
  BY <1>1, <1>4 DEF Clear, Committed
<1>5. ASSUME Advance \/ UNCHANGED vars PROVE ListedWasFlagged'
  BY <1>1, <1>5 DEF Advance, vars, seenVars, Committed
<1>6. CASE SkipCycle
  BY <1>6 DEF SkipCycle, ListedWasFlagged, Committed
<1>7. CASE AbortCycle
  BY <1>7 DEF AbortCycle, ListedWasFlagged, Committed, WalkInv, WalkShape,
              Walking
<1>8. CASE Commit
  <2>1. live' = CommitTable /\ sighted' = sighted
    BY <1>8 DEF Commit, seenVars
  <2>2. ASSUME NEW h \in DOMAIN live', NEW d \in live'[h].deployers
        PROVE  /\ h \notin Excluded
               /\ \E k \in sighted : HostOf[k] = h /\ DeployerOf[k] = d
    <3>1. h \in DOMAIN pending /\ d \in DOMAIN pending[h]
      BY <2>1, <2>2, CommitEntries DEF Added, New, Kept
    <3>2. d \in SightedDeployers(h)
      BY <3>1 DEF WalkInv, PendingSighted
    <3>3. QED  BY <2>2, <3>2 DEF SightedDeployers, TypeOK
  <2>3. QED  BY <2>1, <2>2 DEF ListedWasFlagged
<1>9. ASSUME \/ BeginCycle
             \/ \E keys \in SUBSET Present, last \in BOOLEAN : ScanPage(keys, last)
             \/ \E k \in Keys : GetKey(k)
             \/ NextPage \/ Refresh \/ Restart
      PROVE  ListedWasFlagged'
  <2>1. pc' # "refresh"
    BY <1>9 DEF BeginCycle, ScanPage, GetKey, ApplyRecord, NextPage, Refresh, Restart
  <2>2. QED  BY <1>2, <2>1
<1>10. QED
  BY <1>3, <1>4, <1>5, <1>6, <1>7, <1>8, <1>9 DEF Next, Fleet, Dashboard

LEMMA WalkHolds == Spec => [](TypeOK /\ StripInv /\ WalkInv)
<1>1. Spec => []WalkInv
  BY TypeCorrect, WalkInit, WalkStep, PTL DEF Spec
<1>2. Spec => []StripInv
  BY TypeCorrect, StripInit, StripStep, PTL DEF Spec
<1>3. QED  BY <1>1, <1>2, TypeCorrect, PTL

(* A deployer that a fresh commit lists under a host did flag that host     *)
(* while the walk ran, and the panel's own host is never listed.            *)
THEOREM ListedSound == Spec => []ListedWasFlagged
<1>1. Init => ListedWasFlagged
  BY DEF Init, ListedWasFlagged
<1>2. /\ TypeOK /\ StripInv /\ WalkInv /\ (TypeOK /\ StripInv /\ WalkInv)'
      /\ ListedWasFlagged /\ [Next]_vars
      => ListedWasFlagged'
  BY ListedStep DEF StripInv
<1>3. QED  BY <1>1, <1>2, WalkHolds, PTL DEF Spec

-----------------------------------------------------------------------------
(* No card is missing, as long as no two keys share a host and a deployer. *)

LEMMA PendingTrueStep ==
    ASSUME NoAliases, TypeOK, WalkInv, PendingTrue, [Next]_vars
    PROVE  PendingTrue'
<1>1. ASSUME ~Walking' PROVE PendingTrue'
  BY <1>1 DEF PendingTrue
<1>2. ASSUME NEW j \in Keys, Raise(j) PROVE PendingTrue'
  <2>1. \A k \in lasting : feed'[k] = feed[k]
    BY <1>2 DEF Raise, WalkInv, WalkShape, Present, TypeOK
  <2>2. QED  BY <1>2, <2>1 DEF Raise, PendingTrue, Recorded, Walking
<1>3. ASSUME NEW j \in Keys, Clear(j) PROVE PendingTrue'
  <2>1. \A k \in lasting' : feed'[k] = feed[k] /\ k \in lasting
    BY <1>3 DEF Clear, TypeOK
  <2>2. QED  BY <1>3, <2>1 DEF Clear, PendingTrue, Recorded, Walking
<1>4. ASSUME UNCHANGED <<feed, lasting, pending>>, Walking
      PROVE  PendingTrue'
  BY <1>4 DEF PendingTrue, Recorded
<1>5. ASSUME Advance \/ UNCHANGED vars PROVE PendingTrue'
  BY <1>5 DEF Advance, vars, seenVars, PendingTrue, Recorded, Walking
<1>6. CASE BeginCycle
  BY <1>6 DEF BeginCycle, PendingTrue, Recorded, EmptyTable
<1>7. ASSUME NEW keys, NEW last, ScanPage(keys, last) PROVE PendingTrue'
  BY <1>4, <1>7 DEF ScanPage, feedVars, Walking
<1>8. CASE NextPage
  BY <1>4, <1>8 DEF NextPage, feedVars, seenVars, Walking
<1>9. ASSUME NEW j \in Keys, GetKey(j) PROVE PendingTrue'
  <2>1. Walking /\ Walking' /\ UNCHANGED <<feed, lasting>>
    BY <1>9 DEF GetKey, ApplyRecord, feedVars, seenVars, Walking
  <2>2. CASE feed[j] = None
    BY <1>4, <1>9, <2>1, <2>2 DEF GetKey, ApplyRecord
  <2>3. CASE feed[j] # None
    <3> DEFINE h == HostOf[j]
               d == DeployerOf[j]
    <3>1. PICK since \in {feed[j], Unreadable} :
              pending' = Observe(pending, h, d, since)
      BY <1>9, <2>3 DEF GetKey, ApplyRecord
    <3>2. \A g \in DOMAIN pending : \A e \in DOMAIN pending[g] :
              pending'[g][e] = pending[g][e]
      BY <3>1, ObserveKeeps
    <3>3. \A g \in DOMAIN pending' : \A e \in DOMAIN pending'[g] :
              \/ g \in DOMAIN pending /\ e \in DOMAIN pending[g]
              \/ g = h /\ e = d /\ pending'[g][e] = since
      BY <3>1, ObserveAdds
    <3>4. ASSUME NEW k \in lasting, Recorded(k)'
          PROVE  pending'[HostOf[k]][DeployerOf[k]] \in {feed[k], Unreadable}
      <4>1. CASE Recorded(k)
        BY <2>1, <3>2, <4>1 DEF PendingTrue, Recorded
      <4>2. CASE ~Recorded(k)
        <5>1. /\ HostOf[k] = h /\ DeployerOf[k] = d
              /\ pending'[HostOf[k]][DeployerOf[k]] = since
          BY <3>3, <3>4, <4>2 DEF Recorded
        <5>2. k = j
          BY <1>9, <5>1 DEF NoAliases, TypeOK
        <5>3. QED  BY <3>1, <5>1, <5>2
      <4>3. QED  BY <4>1, <4>2
    <3>5. QED  BY <2>1, <3>4 DEF PendingTrue
  <2>4. QED  BY <2>2, <2>3
<1>10. ASSUME SkipCycle \/ AbortCycle \/ Commit \/ Refresh \/ Restart
       PROVE  PendingTrue'
  BY <1>1, <1>10
  DEF SkipCycle, AbortCycle, Commit, Refresh, Restart, Walking
<1>11. QED
  BY <1>2, <1>3, <1>5, <1>6, <1>7, <1>8, <1>9, <1>10 DEF Next, Fleet, Dashboard

(* The commit itself: a recorded key that raises its host is not in grace,  *)
(* and finds its entry or a full table.                                     *)
LEMMA CommitKeeps ==
    ASSUME TypeOK, WalkInv, PendingTrue, Commit,
           NEW k \in lasting, Raises(k, now)
    PROVE  \/ /\ HostOf[k] \in DOMAIN live'
              /\ DeployerOf[k] \in live'[HostOf[k]].deployers
           \/ Overflowed(HostOf[k])
           \/ /\ HostOf[k] \notin DOMAIN live'
              /\ Cardinality(DOMAIN live' \cup SightedHosts) > HostsMax
<1> DEFINE h == HostOf[k]
           d == DeployerOf[k]
<1>1. pc = "get" /\ page = {} /\ lastPage /\ live' = CommitTable /\ Walking
  BY DEF Commit, Walking
<1>2. Overflowed(h) \/ Recorded(k)
  BY <1>1 DEF WalkInv, WalkFinds, WalkShape, Raises
<1>3. SUFFICES ASSUME Recorded(k) PROVE
           \/ h \in DOMAIN live' /\ d \in live'[h].deployers
           \/ /\ h \notin DOMAIN live'
              /\ Cardinality(DOMAIN live' \cup SightedHosts) > HostsMax
  BY <1>2
<1>4. h \in Kept
  <2>1. pending[h][d] \in {feed[k], Unreadable}
    BY <1>1, <1>3 DEF PendingTrue
  <2>2. ASSUME h \in Intermittent PROVE ~Young(pending[h][d], now)
    BY <2>1, <2>2 DEF Raises, Young
  <2>3. QED  BY <1>3, <2>2 DEF Kept, InGrace, Recorded
<1>5. CASE h \in DOMAIN live
  BY <1>1, <1>3, <1>4, <1>5, CommitEntries DEF Recorded
<1>6. CASE h \in Added
  BY <1>1, <1>3, <1>6, CommitEntries DEF Recorded
<1>7. CASE h \notin DOMAIN live /\ h \notin Added
  <2> DEFINE before == {g \in New : g <= h}
  <2>1. Position(h) > HostsMax /\ h \notin DOMAIN live'
    <3>1. h \in New
      BY <1>4, <1>7 DEF New
    <3>2. ~ (Position(h) <= HostsMax)
      BY <1>7, <3>1 DEF Added
    <3>3. Position(h) \in Int
      BY TablesFinite DEF Position
    <3>4. QED  BY <1>1, <1>7, <3>2, <3>3, CommitEntries, StaleConstants
  <2>2. DOMAIN live \cup before \in SUBSET (DOMAIN live' \cup SightedHosts)
    BY <1>1, CommitEntries DEF New, Kept, WalkInv, PendingSighted
  <2>3. IsFiniteSet(DOMAIN live' \cup SightedHosts)
    <3>1. DOMAIN live' \cup SightedHosts \subseteq Hosts
      BY <1>1, CommitTableType, StaleConstants DEF SightedHosts, TypeOK
    <3>2. QED  BY <3>1, FS_Subset, StaleConstants
  <2>4. Cardinality(DOMAIN live \cup before) = Position(h)
    <3>1. DOMAIN live \cap before = {}
      BY DEF New
    <3>2. Cardinality(DOMAIN live \cap before) = 0
      BY <3>1, FS_EmptySet
    <3>3. Cardinality(DOMAIN live \cup before) =
            Cardinality(DOMAIN live) + Cardinality(before)
              - Cardinality(DOMAIN live \cap before)
      BY TablesFinite, FS_Union
    <3>4. /\ Cardinality(DOMAIN live) \in Nat
          /\ Cardinality(before) \in Nat
      BY TablesFinite
    <3>5. QED  BY <3>2, <3>3, <3>4 DEF Position
  <2>5. Position(h) <= Cardinality(DOMAIN live' \cup SightedHosts)
    BY <2>2, <2>3, <2>4, FS_Subset
  <2>6. /\ Position(h) \in Int
        /\ Cardinality(DOMAIN live' \cup SightedHosts) \in Nat
    <3>1. Position(h) \in Int
      BY TablesFinite DEF Position
    <3>2. QED  BY <2>3, <3>1, FS_CardinalityType
  <2>7. QED  BY <2>1, <2>5, <2>6, StaleConstants
<1>8. QED  BY <1>5, <1>6, <1>7

LEMMA CommitKeepsStep ==
    ASSUME NoAliases, TypeOK, WalkInv, PendingTrue, CommitKeepsFlagged,
           [Next]_vars
    PROVE  CommitKeepsFlagged'
<1>1. ASSUME pc = "refresh", pc' = "refresh", UNCHANGED <<live, sighted, asOf>>,
             lasting' \subseteq lasting, \A k \in lasting' : feed'[k] = feed[k]
      PROVE  CommitKeepsFlagged'
  BY <1>1 DEF CommitKeepsFlagged, Committed, Raises, Overflowed, SightedHosts,
              SightedDeployers
<1>2. ASSUME pc' # "refresh" PROVE CommitKeepsFlagged'
  BY <1>2 DEF CommitKeepsFlagged
<1>3. ASSUME NEW j \in Keys, Raise(j) PROVE CommitKeepsFlagged'
  <2>1. \A k \in lasting : feed'[k] = feed[k]
    BY <1>3 DEF Raise, WalkInv, WalkShape, Present, TypeOK
  <2>2. QED  BY <1>1, <1>2, <1>3, <2>1 DEF Raise, Walking
<1>4. ASSUME NEW j \in Keys, Clear(j) PROVE CommitKeepsFlagged'
  <2>1. \A k \in lasting' : feed'[k] = feed[k]
    BY <1>4 DEF Clear, WalkInv, WalkShape, TypeOK
  <2>2. QED  BY <1>1, <1>2, <1>4, <2>1 DEF Clear
<1>5. ASSUME Advance \/ UNCHANGED vars PROVE CommitKeepsFlagged'
  BY <1>1, <1>2, <1>5 DEF Advance, vars, seenVars
<1>6. ASSUME SkipCycle \/ AbortCycle PROVE CommitKeepsFlagged'
  BY <1>6 DEF SkipCycle, AbortCycle, CommitKeepsFlagged, Committed, WalkInv,
              WalkShape, Walking
<1>7. CASE Commit
  <2>1. asOf' = now /\ UNCHANGED <<feed, lasting, sighted>>
    BY <1>7 DEF Commit, feedVars, seenVars
  <2>2. QED
    BY <1>7, <2>1, CommitKeeps
    DEF CommitKeepsFlagged, Raises, Overflowed, SightedHosts, SightedDeployers
<1>8. ASSUME \/ BeginCycle
             \/ \E keys \in SUBSET Present, last \in BOOLEAN : ScanPage(keys, last)
             \/ \E k \in Keys : GetKey(k)
             \/ NextPage \/ Refresh \/ Restart
      PROVE  CommitKeepsFlagged'
  <2>1. pc' # "refresh"
    BY <1>8 DEF BeginCycle, ScanPage, GetKey, ApplyRecord, NextPage, Refresh, Restart
  <2>2. QED  BY <1>2, <2>1
<1>9. QED
  BY <1>3, <1>4, <1>5, <1>6, <1>7, <1>8 DEF Next, Fleet, Dashboard

LEMMA KeepsHolds ==
    ASSUME NoAliases
    PROVE  Spec => [](TypeOK /\ StripInv /\ CommitKeepsFlagged)
<1>1. Init => PendingTrue /\ CommitKeepsFlagged
  BY DEF Init, PendingTrue, CommitKeepsFlagged
<1>2. TypeOK /\ StripInv /\ WalkInv /\ PendingTrue /\ [Next]_vars
      => PendingTrue'
  BY PendingTrueStep
<1>3. TypeOK /\ StripInv /\ WalkInv /\ PendingTrue /\ CommitKeepsFlagged
      /\ [Next]_vars => CommitKeepsFlagged'
  BY CommitKeepsStep
<1>4. QED  BY <1>1, <1>2, <1>3, WalkHolds, PTL DEF Spec

(* A flag that stood during a whole committed walk is on the panel, unless  *)
(* a documented limit was exceeded.  Two keys that parse to one host and    *)
(* deployer would break it: the later one hides behind the earlier.         *)
THEOREM NothingMissing ==
    ASSUME NoAliases
    PROVE  Spec => []CommitKeepsFlagged
BY KeepsHolds, PTL

(* A card comes down only on the evidence of a complete walk. *)
THEOREM TakedownSound ==
    ASSUME NoAliases
    PROVE  Spec => TakedownNeedsClear
<1> DEFINE Takedown(h) ==
        /\ Committed
        /\ \/ \A k \in lasting : HostOf[k] = h => ~Raises(k, asOf)
           \/ Overflowed(h)
<1>1. ASSUME TypeOK, StripInv, CommitKeepsFlagged, [Next]_vars,
             NEW h \in strip \ strip', pc' # "boot"
      PROVE  Takedown(h)
  <2>1. Refresh
    BY <1>1
    DEF Next, Fleet, Dashboard, Raise, Clear, Advance, BeginCycle, SkipCycle,
        ScanPage, GetKey, NextPage, AbortCycle, Commit, Restart, vars
  <2>2. h \in DOMAIN live /\ live[h].deployers = {} /\ h \in Emptied
    BY <1>1, <2>1 DEF Refresh, Emptied
  <2>3. pc = "refresh" /\ Committed
    BY <1>1, <2>2 DEF StripInv, EmptiedByCommit
  <2>4. QED  BY <1>1, <2>2, <2>3 DEF CommitKeepsFlagged
<1>2. TypeOK /\ StripInv /\ CommitKeepsFlagged /\ [Next]_vars =>
          [\A h \in strip \ strip' : pc' # "boot" => Takedown(h)]_vars
  BY <1>1
<1>3. QED  BY <1>2, KeepsHolds, PTL DEF Spec, TakedownNeedsClear
-----------------------------------------------------------------------------
(* The array of live entries.                                               *)

LEMMA Filled ==
    ASSUME NEW S, IsFiniteSet(S), NEW f \in [S -> 1 .. Cardinality(S)],
           \A x, y \in S : f[x] = f[y] => x = y
    PROVE  \A i \in 1 .. Cardinality(S) : \E x \in S : f[x] = i
<1> DEFINE T == 1 .. Cardinality(S)
<1>1. Cardinality(S) \in Nat
  BY FS_CardinalityType
<1>2. IsFiniteSet(T) /\ Cardinality(T) = Cardinality(S)
  <2>1. /\ IsFiniteSet(T)
        /\ Cardinality(T) = IF 1 > Cardinality(S) THEN 0 ELSE Cardinality(S) - 1 + 1
    BY <1>1, FS_Interval
  <2>2. QED  BY <1>1, <2>1
<1>3. f \in Injection(S, T)
  BY Fun_IsInj
<1>4. f \in Surjection(S, T)
  BY <1>2, <1>3, FS_Injection
<1>5. QED  BY <1>4 DEF Surjection

(* Positions of the entries: each within the length, no two alike. *)
Placed(table) ==
    /\ \A h \in DOMAIN table : table[h].pos \in 1 .. Cardinality(DOMAIN table)
    /\ \A g, h \in DOMAIN table : table[g].pos = table[h].pos => g = h

LEMMA PlacedIsDense ==
    ASSUME IsFiniteSet(DOMAIN live), Placed(live)
    PROVE  ArrayDense
<1> DEFINE f == [h \in DOMAIN live |-> live[h].pos]
<1>1. /\ f \in [DOMAIN live -> 1 .. Cardinality(DOMAIN live)]
      /\ \A g, h \in DOMAIN live : f[g] = f[h] => g = h
  BY DEF Placed
<1>2. \A i \in 1 .. Cardinality(DOMAIN live) : \E h \in DOMAIN live : f[h] = i
  <2> HIDE DEF f
  <2>1. QED  BY <1>1, Filled
<1>3. QED  BY <1>1, <1>2 DEF ArrayDense, Placed

(* A commit appends: behind the entries there are, and without gaps. *)
LEMMA CommitPlaces ==
    ASSUME TypeOK, Placed(live)
    PROVE  Placed(CommitTable)
<1> DEFINE n == Cardinality(DOMAIN live)
           m == Cardinality(Added)
           t == CommitTable
           upTo(h) == {g \in New : g <= h}
<1>1. /\ IsFiniteSet(DOMAIN live) /\ n \in Nat
      /\ IsFiniteSet(Added) /\ m \in Nat
  <2>1. Added \in SUBSET New
    BY DEF Added
  <2>2. QED  BY <2>1, TablesFinite, FS_Subset, FS_CardinalityType
<1>2. DOMAIN t = DOMAIN live \cup Added /\ DOMAIN live \cap Added = {}
  BY CommitEntries
<1>3. Cardinality(DOMAIN t) = n + m
  <2>1. Cardinality(DOMAIN live \cap Added) = 0
    BY <1>2, FS_EmptySet
  <2>2. Cardinality(DOMAIN live \cup Added) =
          n + m - Cardinality(DOMAIN live \cap Added)
    BY <1>1, FS_Union
  <2>3. QED  BY <1>1, <1>2, <2>1, <2>2
<1>4. ASSUME NEW h \in DOMAIN live PROVE t[h].pos = live[h].pos
  <2>1. live[h] \in Entry
    BY DEF TypeOK
  <2>2. t[h] = [live[h] EXCEPT !.deployers =
                   IF h \in Kept THEN DOMAIN pending[h] ELSE {}]
    BY <1>2 DEF CommitTable
  <2>3. QED  BY <2>1, <2>2 DEF Entry
<1>5. ASSUME NEW h \in Added
      PROVE  t[h].pos = Position(h) /\ Position(h) \in n + 1 .. n + m
  <2>1. h \in New /\ Position(h) <= HostsMax /\ New \subseteq Nat
    BY StaleConstants DEF Added, New, Kept, TypeOK
  <2>2. upTo(h) \subseteq Added
    <3> SUFFICES ASSUME NEW g \in New, g <= h PROVE g \in Added
      OBVIOUS
    <3>1. g = h \/ g < h
      BY <2>1
    <3>2. Position(g) \in Int /\ Position(h) \in Int
      BY TablesFinite DEF Position
    <3>3. Position(g) <= HostsMax
      BY <2>1, <3>1, <3>2, PositionsDiffer, StaleConstants
    <3>4. QED  BY <3>3 DEF Added
  <2>3. Cardinality(upTo(h)) \in Nat /\ Cardinality(upTo(h)) <= m
    BY <1>1, <2>2, TablesFinite, FS_Subset
  <2>4. h \in upTo(h)
    BY <2>1
  <2>5. Cardinality(upTo(h)) # 0
    BY <2>4, TablesFinite, FS_EmptySet
  <2>6. Position(h) \in n + 1 .. n + m
    BY <1>1, <2>3, <2>5 DEF Position
  <2>7. t[h].pos = Position(h)
    BY <1>2 DEF CommitTable
  <2>8. QED  BY <2>6, <2>7
<1>6. \A h \in DOMAIN t : t[h].pos \in 1 .. n + m
  BY <1>1, <1>2, <1>4, <1>5 DEF Placed
<1>7. ASSUME NEW g \in DOMAIN t, NEW h \in DOMAIN t, t[g].pos = t[h].pos
      PROVE  g = h
  <2>1. CASE g \in DOMAIN live /\ h \in DOMAIN live
    BY <1>4, <1>7, <2>1 DEF Placed
  <2>2. CASE g \in Added /\ h \in Added
    <3>1. g \in New /\ h \in New /\ g \in Nat /\ h \in Nat
      BY <2>2, StaleConstants DEF Added, New, Kept, TypeOK
    <3>2. /\ Position(g) = Position(h)
          /\ Position(g) \in Int /\ Position(h) \in Int
      BY <1>1, <1>5, <1>7, <2>2
    <3>3. ~ g < h /\ ~ h < g
      BY <3>1, <3>2, PositionsDiffer
    <3>4. QED  BY <3>1, <3>3
  <2>3. CASE g \in DOMAIN live /\ h \in Added
    BY <1>1, <1>4, <1>5, <1>7, <2>3 DEF Placed
  <2>4. CASE g \in Added /\ h \in DOMAIN live
    BY <1>1, <1>4, <1>5, <1>7, <2>4 DEF Placed
  <2>5. QED  BY <1>2, <2>1, <2>2, <2>3, <2>4
<1>8. QED  BY <1>3, <1>6, <1>7 DEF Placed

(* In a dense array as many entries stand up to an entry as its position    *)
(* says.                                                                    *)
LEMMA PositionCounts ==
    ASSUME TypeOK, Placed(live), NEW h \in DOMAIN live
    PROVE  Cardinality({g \in DOMAIN live : live[g].pos <= live[h].pos})
             = live[h].pos
<1> DEFINE n == Cardinality(DOMAIN live)
           p == live[h].pos
           L == {g \in DOMAIN live : live[g].pos <= p}
           f == [g \in L |-> live[g].pos]
<1>1. IsFiniteSet(DOMAIN live) /\ n \in Nat /\ p \in 1 .. n
  BY TablesFinite DEF Placed
<1>2. \A i \in 1 .. n : \E g \in DOMAIN live : live[g].pos = i
  <2>1. ArrayDense
    BY <1>1, PlacedIsDense
  <2>2. QED  BY <2>1 DEF ArrayDense
<1>3. IsFiniteSet(1 .. p) /\ Cardinality(1 .. p) = p
  <2>1. /\ IsFiniteSet(1 .. p)
        /\ Cardinality(1 .. p) = IF 1 > p THEN 0 ELSE p - 1 + 1
    <3> HIDE DEF p, n
    <3>1. 1 \in Int /\ p \in Int
      BY <1>1
    <3>2. QED  BY <3>1, FS_Interval
  <2>2. QED  BY <1>1, <2>1
<1>4. f \in [L -> 1 .. p]
  BY <1>1 DEF Placed
<1>5. \A x, y \in L : f[x] = f[y] => x = y
  BY DEF Placed
<1>6. \A i \in 1 .. p : \E g \in L : f[g] = i
  BY <1>1, <1>2
<1>7. f \in Injection(L, 1 .. p) /\ f \in Surjection(L, 1 .. p)
  <2> HIDE DEF f, L, p
  <2>1. QED  BY <1>4, <1>5, <1>6, Fun_IsInj, Fun_IsSurj
<1>8. Cardinality(L) = Cardinality(1 .. p)
  <2> HIDE DEF f, L, p
  <2>1. QED  BY <1>3, <1>7, FS_Injection
<1>9. QED  BY <1>3, <1>8

(* The reap closes the gaps: an entry that stays is moved down by the       *)
(* number of those that go before it.                                       *)
LEMMA RefreshPlaces ==
    ASSUME TypeOK, Placed(live), Refresh
    PROVE  Placed(live')
<1> DEFINE kept == DOMAIN live \ Emptied
           K(h) == {g \in kept : live[g].pos <= live[h].pos}
           E(h) == {g \in Emptied : live[g].pos < live[h].pos}
<1>1. /\ DOMAIN live' = kept /\ IsFiniteSet(DOMAIN live)
      /\ IsFiniteSet(kept) /\ Cardinality(kept) \in Nat
      /\ Emptied \subseteq DOMAIN live /\ kept \subseteq DOMAIN live
  <2>1. kept \in SUBSET DOMAIN live
    OBVIOUS
  <2>2. QED  BY <2>1, TablesFinite, FS_Subset, FS_CardinalityType DEF Refresh, Emptied
<1>2. \A h \in DOMAIN live : live[h].pos \in Nat
  BY TablesFinite DEF Placed
<1>3. \A h \in DOMAIN live :
        /\ IsFiniteSet(K(h)) /\ IsFiniteSet(E(h))
        /\ Cardinality(K(h)) \in Nat /\ Cardinality(E(h)) \in Nat
  <2>1. \A h : K(h) \in SUBSET DOMAIN live /\ E(h) \in SUBSET DOMAIN live
    BY <1>1
  <2>2. QED  BY <1>1, <2>1, FS_Subset, FS_CardinalityType
<1>4. ASSUME NEW h \in kept
      PROVE  live'[h].pos = Cardinality(K(h))
  <2>1. live'[h].pos = live[h].pos - Cardinality(E(h))
    <3>1. live[h] \in Entry
      BY DEF TypeOK
    <3>2. live'[h] = [live[h] EXCEPT !.pos = @ - Cardinality(E(h)),
                                     !.container = TRUE]
      BY DEF Refresh
    <3>3. QED  BY <3>1, <3>2 DEF Entry
  <2>2. {g \in DOMAIN live : live[g].pos <= live[h].pos} = K(h) \cup E(h)
    <3>1. \A g \in Emptied : live[g].pos # live[h].pos
      BY <1>1 DEF Placed
    <3>2. \A g \in Emptied : live[g].pos <= live[h].pos <=> live[g].pos < live[h].pos
      BY <1>1, <1>2, <3>1
    <3>3. QED  BY <1>1, <3>2
  <2>3. Cardinality(K(h) \cap E(h)) = 0
    <3>1. K(h) \cap E(h) = {}
      OBVIOUS
    <3>2. QED  BY <3>1, FS_EmptySet
  <2>4. Cardinality(K(h) \cup E(h)) =
          Cardinality(K(h)) + Cardinality(E(h)) - Cardinality(K(h) \cap E(h))
    BY <1>3, FS_Union
  <2>5. Cardinality(K(h) \cup E(h)) = live[h].pos
    BY <2>2, PositionCounts
  <2>6. QED
    <3> HIDE DEF K, E, kept
    <3>1. /\ h \in DOMAIN live
          /\ Cardinality(K(h)) \in Nat /\ Cardinality(E(h)) \in Nat
      BY <1>1, <1>3
    <3>2. QED  BY <2>1, <2>3, <2>4, <2>5, <3>1
<1>5. ASSUME NEW h \in kept
      PROVE  Cardinality(K(h)) \in 1 .. Cardinality(kept)
  <2>1. h \in K(h) /\ K(h) \in SUBSET kept
    BY <1>2
  <2>2. Cardinality(K(h)) # 0 /\ Cardinality(K(h)) <= Cardinality(kept)
    BY <1>1, <1>3, <2>1, FS_EmptySet, FS_Subset
  <2>3. QED
    <3> HIDE DEF K, kept
    <3>1. Cardinality(K(h)) \in Nat /\ Cardinality(kept) \in Nat
      BY <1>1, <1>3
    <3>2. QED  BY <2>2, <3>1
<1>6. ASSUME NEW g \in kept, NEW h \in kept, live[g].pos < live[h].pos
      PROVE  Cardinality(K(g)) < Cardinality(K(h))
  <2>1. K(g) \in SUBSET K(h) /\ h \notin K(g) /\ h \in K(h)
    BY <1>2, <1>6
  <2>2. /\ Cardinality(K(g)) <= Cardinality(K(h))
        /\ Cardinality(K(h)) = Cardinality(K(g)) => K(h) = K(g)
    BY <1>3, <2>1, FS_Subset
  <2>3. QED
    <3> HIDE DEF K, kept
    <3>1. Cardinality(K(g)) \in Nat /\ Cardinality(K(h)) \in Nat
      BY <1>1, <1>3
    <3>2. QED  BY <2>1, <2>2, <3>1
<1>7. ASSUME NEW g \in kept, NEW h \in kept, live'[g].pos = live'[h].pos
      PROVE  g = h
  <2>1. Cardinality(K(g)) = Cardinality(K(h))
    BY <1>4, <1>7
  <2>2. ~ live[g].pos < live[h].pos /\ ~ live[h].pos < live[g].pos
    <3> HIDE DEF K, kept
    <3>1. Cardinality(K(g)) \in Nat /\ Cardinality(K(h)) \in Nat
      BY <1>1, <1>3
    <3>2. QED  BY <1>6, <2>1, <3>1
  <2>3. live[g].pos = live[h].pos
    BY <1>2, <2>2
  <2>4. QED  BY <2>3 DEF Placed
<1>8. QED  BY <1>1, <1>4, <1>5, <1>7 DEF Placed

EntriesPlaced == Placed(live)

LEMMA PlacedStep == TypeOK /\ EntriesPlaced /\ [Next]_vars => EntriesPlaced'
<1> SUFFICES ASSUME TypeOK, EntriesPlaced, [Next]_vars PROVE EntriesPlaced'
  OBVIOUS
<1> USE DEF EntriesPlaced
<1>1. CASE Commit
  BY <1>1, CommitPlaces DEF Commit
<1>2. CASE Refresh
  BY <1>2, RefreshPlaces
<1>3. CASE Restart
  BY <1>3 DEF Restart, EmptyTable, Placed
<1>4. CASE Fleet \/ BeginCycle \/ SkipCycle \/ NextPage \/ AbortCycle
           \/ UNCHANGED vars
  <2>1. live' = live
    BY <1>4 DEF Fleet, Raise, Clear, Advance, BeginCycle, SkipCycle, NextPage,
                AbortCycle, vars
  <2>2. QED  BY <2>1
<1>5. ASSUME NEW keys, NEW last, ScanPage(keys, last) PROVE EntriesPlaced'
  BY <1>5 DEF ScanPage
<1>6. ASSUME NEW k, GetKey(k) PROVE EntriesPlaced'
  BY <1>6 DEF GetKey
<1>7. QED  BY <1>1, <1>2, <1>3, <1>4, <1>5, <1>6 DEF Next, Dashboard

(* The entries fill the array from its start, however hosts come and go:    *)
(* commit appends without a gap and the reap closes those it makes.         *)
THEOREM ArrayHolds == Spec => []ArrayDense
<1>1. Init => EntriesPlaced
  BY DEF Init, EmptyTable, Placed, EntriesPlaced
<1>2. TypeOK /\ EntriesPlaced => ArrayDense
  BY TablesFinite, PlacedIsDense DEF EntriesPlaced
<1>3. Spec => [](TypeOK /\ EntriesPlaced)
  BY <1>1, PlacedStep, TypeCorrect, PTL DEF Spec
<1>4. QED  BY <1>2, <1>3, PTL
=============================================================================
