----------------------------- MODULE StaleFeed -----------------------------
(***************************************************************************)
(* The host staleness feed (src/registry.c, src/redis.c, src/ui.c): fleet  *)
(* deployers raise and clear kdash:stale:<host>:<deployer> keys while the  *)
(* dashboard, once a second, walks them with SCAN and GET, rebuilds a      *)
(* pending table, and only promotes it to the live table when the walk     *)
(* reached cursor 0.  ui_refresh then reaps emptied entries and paints one *)
(* card per live host.                                                     *)
(*                                                                         *)
(* A key existing is the flag and its absence the only all-clear, so the   *)
(* error to fear is a missing card.  Redis and the deployers interleave    *)
(* with every command of the walk.                                         *)
(***************************************************************************)
EXTENDS Integers, FiniteSets, Tables

CONSTANTS
    Hosts,         \* host names, numbered in name order
    Deployers,     \* deployer names
    Keys,          \* the kdash:stale:* keys the deployers may write
    OffContract,   \* those whose payload holds no readable `since`
    HostOf,        \* HostOf[k]: the host redis_parse_stale_key reads in k
    DeployerOf,    \* DeployerOf[k]: its deployer, "(unknown)" if it names none
    Excluded,      \* hosts never raised: STALE_EXCLUDED_HOST, the empty name
    Intermittent,  \* KPIDASH_INTERMITTENT_HOSTS
    HostsMax,      \* STALE_REGISTRY_MAX
    DeployersMax,  \* STALE_DEPLOYERS_MAX
    Grace,         \* STALE_INTERMITTENT_GRACE_S
    MaxNow,        \* bound of the model: the last second of the clock
    None,          \* no payload: the key does not exist; no commit
    Unreadable     \* a payload with no readable `since`

Times == 0 .. MaxNow
Payload == Times \cup {Unreadable}

ASSUME StaleConstants ==
    /\ Hosts \subseteq Nat
    /\ IsFiniteSet(Hosts) /\ IsFiniteSet(Deployers) /\ IsFiniteSet(Keys)
    /\ HostOf \in [Keys -> Hosts]
    /\ DeployerOf \in [Keys -> Deployers]
    /\ OffContract \subseteq Keys
    /\ Excluded \subseteq Hosts /\ Intermittent \subseteq Hosts
    /\ HostsMax \in Nat \ {0} /\ DeployersMax \in Nat \ {0}
    /\ Grace \in Nat /\ MaxNow \in Nat
    /\ None \notin Payload /\ Unreadable \notin Times

VARIABLES
    now,       \* wall clock
    feed,      \* feed[k]: the payload of key k in Redis, or None
    pc,        \* where the LVGL thread is in timer_poll_cb
    page,      \* keys of the current SCAN page still to GET
    lastPage,  \* the page came with cursor 0
    lasting,   \* keys that have existed ever since the walk began
    owed,      \* those no page has returned yet: SCAN must before cursor 0
    sighted,   \* keys that existed at some moment since the walk began
    pending,   \* g_stale_pending: host -> deployer -> since
    live,      \* g_stale: host -> entry
    strip,     \* hosts whose card object exists in the footer strip
    asOf       \* when the latest walk was committed; None if it was not

feedVars == <<now, feed>>
walkVars == <<page, lastPage>>
seenVars == <<lasting, owed, sighted>>
vars == <<now, feed, pc, page, lastPage, lasting, owed, sighted, pending,
          live, strip, asOf>>

Present == {k \in Keys : feed[k] # None}

Init ==
    /\ now = 0
    /\ feed = [k \in Keys |-> None]
    /\ pc = "boot"
    /\ page = {} /\ lastPage = FALSE
    /\ lasting = {} /\ owed = {} /\ sighted = {}
    /\ pending = EmptyTable
    /\ live = EmptyTable
    /\ strip = {}
    /\ asOf = None

Walking == pc \in {"scan", "get"}

-----------------------------------------------------------------------------
(* The fleet: deployers, and the clock.  `since` is set once, when the flag *)
(* goes up, and carried until the key is deleted.                           *)

Raise(k) ==
    /\ feed[k] = None
    /\ feed' = [feed EXCEPT ![k] = IF k \in OffContract THEN Unreadable ELSE now]
    /\ sighted' = IF Walking THEN sighted \cup {k} ELSE sighted
    /\ UNCHANGED <<now, pc, walkVars, lasting, owed, pending, live, strip, asOf>>

Clear(k) ==
    /\ feed[k] # None
    /\ feed' = [feed EXCEPT ![k] = None]
    /\ lasting' = lasting \ {k}
    /\ owed' = owed \ {k}
    /\ UNCHANGED <<now, pc, walkVars, sighted, pending, live, strip, asOf>>

Advance ==
    /\ now < MaxNow
    /\ now' = now + 1
    /\ UNCHANGED <<feed, pc, walkVars, seenVars, pending, live, strip, asOf>>

-----------------------------------------------------------------------------
(* redis_poll_stale.                                                        *)

BeginCycle ==
    /\ pc \in {"boot", "idle"}
    /\ pc' = "scan"
    /\ pending' = EmptyTable
    /\ lasting' = Present /\ owed' = Present /\ sighted' = Present
    /\ asOf' = None
    /\ UNCHANGED <<feedVars, walkVars, live, strip>>

(* The connection died earlier in redis_poll: no cycle is opened, and       *)
(* timer_poll_cb goes on to ui_refresh.                                     *)
SkipCycle ==
    /\ pc \in {"boot", "idle"}
    /\ pc' = "refresh"
    /\ asOf' = None
    /\ UNCHANGED <<feedVars, walkVars, seenVars, pending, live, strip>>

(* SCAN replies with any existing keys, some perhaps a second time; a walk  *)
(* reaches cursor 0 only when every lasting key has been returned.  Which   *)
(* page ends the walk is Redis's choice.                                    *)
ScanPage(keys, last) ==
    /\ pc = "scan"
    /\ last => owed \subseteq keys
    /\ pc' = "get"
    /\ page' = keys
    /\ lastPage' = last
    /\ owed' = owed \ keys
    /\ UNCHANGED <<feedVars, lasting, sighted, pending, live, strip, asOf>>

(* Mutant: the host limit is off by one. *)
ObserveOneTooMany(table, h, d, since) ==
    IF h \in Excluded \/ Cardinality(DOMAIN table) > HostsMax THEN table
    ELSE IF h \notin DOMAIN table THEN Put(table, h, Put(EmptyTable, d, since))
    ELSE Put(table, h, Put(table[h], d, since))

(* stale_registry_observe. *)
Observe(table, h, d, since) ==
    IF h \in Excluded THEN table
    ELSE IF h \notin DOMAIN table
    THEN IF Cardinality(DOMAIN table) >= HostsMax
         THEN table
         ELSE Put(table, h, Put(EmptyTable, d, since))
    ELSE IF \/ d \in DOMAIN table[h]
            \/ Cardinality(DOMAIN table[h]) >= DeployersMax
    THEN table
    ELSE Put(table, h, Put(table[h], d, since))

(* redis_stale_apply_record: the key says which host and deployer, the      *)
(* payload only since when.                                                 *)
ApplyRecord(k, payload) ==
    pending' = Observe(pending, HostOf[k], DeployerOf[k], payload)

(* Mutant: an unreadable record is skipped, as every other feed skips it. *)
GetReadableKey(k) ==
    /\ pc = "get" /\ k \in page
    /\ page' = page \ {k}
    /\ IF feed[k] \in {None, Unreadable}
       THEN UNCHANGED pending
       ELSE ApplyRecord(k, feed[k])
    /\ UNCHANGED <<feedVars, pc, lastPage, seenVars, live, strip, asOf>>

(* GET finds the key gone and skips it, or finds it and raises its host: a  *)
(* reply that is no string raises it without a `since`.                     *)
GetKey(k) ==
    /\ pc = "get" /\ k \in page
    /\ page' = page \ {k}
    /\ IF feed[k] = None
       THEN UNCHANGED pending
       ELSE \E payload \in {feed[k], Unreadable} : ApplyRecord(k, payload)
    /\ UNCHANGED <<feedVars, pc, lastPage, seenVars, live, strip, asOf>>

NextPage ==
    /\ pc = "get" /\ page = {} /\ ~lastPage
    /\ pc' = "scan"
    /\ UNCHANGED <<feedVars, walkVars, seenVars, pending, live, strip, asOf>>

EndWalk == page' = {} /\ lastPage' = FALSE

Young(since, t) == since # Unreadable /\ t - since <= Grace

(* stale_pending_in_grace. *)
InGrace(h) ==
    /\ h \in Intermittent
    /\ \A d \in DOMAIN pending[h] : Young(pending[h][d], now)

(* stale_registry_commit_cycle_at.  Hosts already live keep their array     *)
(* position; the others are appended in name order until the table is full. *)
Kept == {h \in DOMAIN pending : ~InGrace(h)}
New == Kept \ DOMAIN live
Position(h) == Cardinality(DOMAIN live) + Cardinality({g \in New : g <= h})
Added == {h \in New : Position(h) <= HostsMax}

(* Mutant: a host the walk did not find keeps its deployers. *)
CommitKeepsUnseen ==
    [h \in DOMAIN live \cup Added |->
        IF h \in Added
        THEN [deployers |-> DOMAIN pending[h], pos |-> Position(h),
              container |-> FALSE]
        ELSE [live[h] EXCEPT !.deployers =
                 IF h \in Kept THEN DOMAIN pending[h] ELSE @]]

CommitTable ==
    [h \in DOMAIN live \cup Added |->
        IF h \in Added
        THEN [deployers |-> DOMAIN pending[h], pos |-> Position(h),
              container |-> FALSE]
        ELSE [live[h] EXCEPT !.deployers =
                 IF h \in Kept THEN DOMAIN pending[h] ELSE {}]]

Commit ==
    /\ pc = "get" /\ page = {} /\ lastPage
    /\ pc' = "refresh"
    /\ live' = CommitTable
    /\ pending' = EmptyTable
    /\ asOf' = now
    /\ EndWalk
    /\ UNCHANGED <<feedVars, seenVars, strip>>

(* Mutant: a walk that failed half way is committed. *)
AbortCommits ==
    /\ pc = "scan" \/ (pc = "get" /\ page # {})
    /\ pc' = "refresh"
    /\ live' = CommitTable
    /\ pending' = EmptyTable
    /\ asOf' = now
    /\ EndWalk
    /\ UNCHANGED <<feedVars, seenVars, strip>>

(* SCAN failed or a GET got no reply: stale_registry_abort_cycle. *)
AbortCycle ==
    /\ pc = "scan" \/ (pc = "get" /\ page # {})
    /\ pc' = "refresh"
    /\ pending' = EmptyTable
    /\ EndWalk
    /\ UNCHANGED <<feedVars, seenVars, live, strip, asOf>>

-----------------------------------------------------------------------------
(* ui_refresh, the staleness block: stale_registry_reap, then the paint.    *)

Emptied == {h \in DOMAIN live : live[h].deployers = {}}

(* Mutants: the reap does not close the gaps it leaves in the array; the    *)
(* caller drops the containers the reap hands it; emptied entries are never *)
(* reaped.                                                                  *)
RefreshKeepsGaps ==
    /\ pc = "refresh"
    /\ pc' = "idle"
    /\ live' = [h \in DOMAIN live \ Emptied |->
                  [live[h] EXCEPT !.container = TRUE]]
    /\ strip' = DOMAIN live \ Emptied
    /\ lasting' = {} /\ owed' = {} /\ sighted' = {}
    /\ UNCHANGED <<feedVars, walkVars, pending, asOf>>
RefreshLeaks ==
    /\ pc = "refresh"
    /\ pc' = "idle"
    /\ live' = [h \in DOMAIN live \ Emptied |->
                  [live[h] EXCEPT !.container = TRUE]]
    /\ strip' = strip \cup (DOMAIN live \ Emptied)
    /\ lasting' = {} /\ owed' = {} /\ sighted' = {}
    /\ UNCHANGED <<feedVars, walkVars, pending, asOf>>
RefreshNeverReaps ==
    /\ pc = "refresh"
    /\ pc' = "idle"
    /\ live' = [h \in DOMAIN live |-> [live[h] EXCEPT !.container = TRUE]]
    /\ strip' = DOMAIN live
    /\ lasting' = {} /\ owed' = {} /\ sighted' = {}
    /\ UNCHANGED <<feedVars, walkVars, pending, asOf>>

Refresh ==
    /\ pc = "refresh"
    /\ pc' = "idle"
    /\ live' = [h \in DOMAIN live \ Emptied |->
                  [live[h] EXCEPT
                     !.pos = @ - Cardinality({g \in Emptied :
                                                live[g].pos < live[h].pos}),
                     !.container = TRUE]]
    /\ strip' = (strip \ {h \in Emptied : live[h].container})
                  \cup (DOMAIN live \ Emptied)
    /\ lasting' = {} /\ owed' = {} /\ sighted' = {}
    /\ UNCHANGED <<feedVars, walkVars, pending, asOf>>

(* The process restarts: its tables and its screen start empty. *)
Restart ==
    /\ pc # "boot"
    /\ pc' = "boot"
    /\ EndWalk
    /\ lasting' = {} /\ owed' = {} /\ sighted' = {}
    /\ pending' = EmptyTable
    /\ live' = EmptyTable
    /\ strip' = {}
    /\ asOf' = None
    /\ UNCHANGED feedVars

Fleet ==
    \/ \E k \in Keys : Raise(k) \/ Clear(k)
    \/ Advance

Dashboard ==
    \/ BeginCycle \/ SkipCycle
    \/ \E keys \in SUBSET Present, last \in BOOLEAN : ScanPage(keys, last)
    \/ \E k \in Keys : GetKey(k)
    \/ NextPage \/ AbortCycle \/ Commit \/ Refresh

Next == Fleet \/ Dashboard \/ Restart

Spec == Init /\ [][Next]_vars
FairSpec == Spec /\ WF_vars(Dashboard)

-----------------------------------------------------------------------------
(* Properties. *)

IsDeployerTable(f) ==
    DOMAIN f \subseteq Deployers /\ \A d \in DOMAIN f : f[d] \in Payload

Entry == [deployers : SUBSET Deployers, pos : Int, container : BOOLEAN]

(* Every variable has its type, and no table outgrows its array. *)
TypeOK ==
    /\ now \in Times
    /\ feed \in [Keys -> Payload \cup {None}]
    /\ pc \in {"boot", "idle", "scan", "get", "refresh"}
    /\ page \subseteq Keys /\ lastPage \in BOOLEAN
    /\ lasting \subseteq Keys /\ owed \subseteq Keys /\ sighted \subseteq Keys
    /\ DOMAIN pending \subseteq Hosts \ Excluded
    /\ Cardinality(DOMAIN pending) <= HostsMax
    /\ \A h \in DOMAIN pending : IsDeployerTable(pending[h])
    /\ DOMAIN live \subseteq Hosts \ Excluded
    /\ Cardinality(DOMAIN live) <= HostsMax
    /\ \A h \in DOMAIN live : live[h] \in Entry
    /\ strip \subseteq Hosts
    /\ asOf \in Times \cup {None}

(* A key that would raise its host at time t: on an intermittent host only  *)
(* an unreadable or an overdue flag does.                                   *)
Raises(k, t) ==
    /\ HostOf[k] \notin Excluded
    /\ HostOf[k] \in Intermittent => ~Young(feed[k], t)

(* More was flagged during the walk than the pending table of the host of k *)
(* can hold: the documented limits.                                         *)
SightedHosts == {HostOf[k] : k \in sighted} \ Excluded
SightedDeployers(h) == {DeployerOf[k] : k \in {j \in sighted : HostOf[j] = h}}
Overflowed(h) ==
    \/ Cardinality(SightedHosts) > HostsMax
    \/ Cardinality(SightedDeployers(h)) > DeployersMax

Committed == asOf # None

(* The card on the panel is about live entries and nothing else: between    *)
(* refreshes each live entry has its card, each card its live entry, and no *)
(* emptied entry is left (no leaked or dangling LVGL object).               *)
StripMirrorsLive ==
    /\ pc = "idle" => /\ strip = DOMAIN live
                      /\ Emptied = {}
    /\ strip = {h \in DOMAIN live : live[h].container}

(* The array stays dense: commit appends and reap compacts so that the n    *)
(* entries are at 1..n.                                                     *)
ArrayDense ==
    {live[h].pos : h \in DOMAIN live} = 1 .. Cardinality(DOMAIN live)

(* Right after a commit every key that existed during the whole walk has    *)
(* its host live and its deployer listed, unless the pending table          *)
(* overflowed or the flagged hosts and the entries that still hold a slot   *)
(* (those awaiting the reap too) outnumber the live table: CD-18, an        *)
(* unraised card reads as all-clear.                                        *)
CommitKeepsFlagged ==
    pc = "refresh" /\ Committed =>
        \A k \in lasting : Raises(k, asOf) =>
            \/ /\ HostOf[k] \in DOMAIN live
               /\ DeployerOf[k] \in live[HostOf[k]].deployers
            \/ Overflowed(HostOf[k])
            \/ /\ HostOf[k] \notin DOMAIN live
               /\ Cardinality(DOMAIN live \cup SightedHosts) > HostsMax

(* A deployer listed by a fresh commit did flag that host at some moment of *)
(* the walk, and the panel's own host is never listed: no card is invented. *)
ListedWasFlagged ==
    pc = "refresh" /\ Committed =>
        \A h \in DOMAIN live : \A d \in live[h].deployers :
            /\ h \notin Excluded
            /\ \E k \in sighted : HostOf[k] = h /\ DeployerOf[k] = d

(* A card leaves the panel only when a walk ran to cursor 0 and no key that *)
(* existed throughout it raised the host; an aborted or skipped walk, a     *)
(* duplicated or deleted key, never takes one down.                         *)
TakedownNeedsClear ==
    [][\A h \in strip \ strip' : pc' # "boot" =>
         /\ Committed
         /\ \/ \A k \in lasting : HostOf[k] = h => ~Raises(k, asOf)
            \/ Overflowed(h)]_vars

(* While walks keep completing, a host with a flag that stays up and fits   *)
(* the tables ends up with a card that stays up.                            *)
FlaggedHosts == {HostOf[k] : k \in Present} \ Excluded
FlaggedDeployers(h) == {DeployerOf[k] : k \in {j \in Present : HostOf[j] = h}}
FeedFits ==
    /\ Cardinality(FlaggedHosts) <= HostsMax
    /\ \A h \in Hosts : Cardinality(FlaggedDeployers(h)) <= DeployersMax

PersistentFlagShown ==
    \A k \in Keys :
        /\ <>[](feed[k] # None /\ Raises(k, now) /\ FeedFits /\ pc # "boot")
        /\ []<>(pc = "idle" /\ Committed)
        => <>[](HostOf[k] \in strip)

(* The order the header, the commit and ui_refresh promise: cards stand in  *)
(* host-name order.                                                         *)
HostsSorted ==
    pc = "idle" =>
        \A g, h \in strip : g < h => live[g].pos < live[h].pos
=============================================================================
