----------------------------- MODULE Admission -----------------------------
(***************************************************************************)
(* Which hosts have a card (src/registry.c, src/netstate.c,                *)
(* src/admitted.c, src/main.c, step 1-2 and redis_poll_net of src/redis.c).*)
(*                                                                         *)
(* kpidash:clients is append-only, so a member earns its card by           *)
(* publishing; once earned the card stays when the host goes silent, and   *)
(* the admitted-hosts file carries the earning over a restart.  The file   *)
(* has two sections, the host cards' set and the network card's, and each  *)
(* save writes both.  Publishers, the poll timer, failing commands,        *)
(* failing saves and crashes interleave.                                   *)
(***************************************************************************)
EXTENDS Integers, FiniteSets, FiniteSetsExt, Tables

CONSTANTS
    Hosts,         \* host names
    ValidNames,    \* those admitted_valid_hostname accepts
    Priority,      \* KPIDASH_PRIORITY_CLIENTS
    ClientData,    \* what the client keys of a host may hold; see HasHealth
    ColumnLists,   \* the KPIDASH_NET_HOSTS settings a start may find
    MaxClients     \* MAX_CLIENTS

ASSUME AdmissionConstants ==
    /\ IsFiniteSet(Hosts)
    /\ ValidNames \subseteq Hosts /\ Priority \subseteq Hosts
    /\ ClientData \subseteq {"telemetry", "health", "garbled"}
    /\ ColumnLists # {} /\ \A c \in ColumnLists : c \subseteq Hosts
    /\ MaxClients \in Nat \ {0}

VARIABLES
    members,     \* kpidash:clients
    data,        \* data[h]: the live kpidash:client:<h>:* keys, or "none"
    netKeys,     \* hosts whose kdash:net:<host> is live
    pc,          \* where the LVGL thread is in timer_poll_cb
    polled,      \* hostnames[]: the members this poll took from SMEMBERS
    todo,        \* those whose keys it has not fetched yet
    broken,      \* a command of step 2 failed: g_ctx->err
    clients,     \* g_clients: host -> online
    admitted,    \* g_admitted of registry.c
    dirty,       \* g_admitted_dirty of registry.c
    columns,     \* g_hosts of netstate.c: host -> state
    netAdmitted, \* g_admitted of netstate.c
    netDirty,    \* g_admitted_dirty of netstate.c
    file,        \* the admitted-hosts file, by section
    failed,      \* the latest save failed
    published,   \* hosts that ever wrote a client key
    remembered   \* what saves that succeeded have recorded

redisVars == <<members, data, netKeys, published>>
pollVars == <<polled, todo, broken>>
clientVars == <<clients, admitted, dirty>>
netVars == <<columns, netAdmitted, netDirty>>
fileVars == <<file, failed, remembered>>
vars == <<redisVars, pc, pollVars, clientVars, netVars, fileVars>>

NoHosts == [hosts |-> {}, net |-> {}]

Init ==
    /\ members = {} /\ data = [h \in Hosts |-> "none"] /\ netKeys = {}
    /\ pc = "boot"
    /\ polled = {} /\ todo = {} /\ broken = FALSE
    /\ clients = EmptyTable /\ admitted = {} /\ dirty = FALSE
    /\ columns = EmptyTable /\ netAdmitted = {} /\ netDirty = FALSE
    /\ file = NoHosts /\ failed = FALSE
    /\ published = {} /\ remembered = NoHosts

-----------------------------------------------------------------------------
(* Redis: the publishers, the expiry of their keys, and an operator.  No    *)
(* poll reads the keys of a host that is not a member, so publishing starts *)
(* with membership.                                                         *)

Register(h) ==
    /\ h \notin members
    /\ members' = members \cup {h}
    /\ UNCHANGED <<data, netKeys, published, pc, pollVars, clientVars, netVars,
                   fileVars>>

Unregister(h) ==
    /\ h \in members
    /\ members' = members \ {h}
    /\ UNCHANGED <<data, netKeys, published, pc, pollVars, clientVars, netVars,
                   fileVars>>

Publish(h, what) ==
    /\ h \in members /\ data[h] # what
    /\ data' = [data EXCEPT ![h] = what]
    /\ published' = published \cup {h}
    /\ UNCHANGED <<members, netKeys, pc, pollVars, clientVars, netVars, fileVars>>

Expire(h) ==
    /\ data[h] # "none"
    /\ data' = [data EXCEPT ![h] = "none"]
    /\ UNCHANGED <<members, netKeys, published, pc, pollVars, clientVars,
                   netVars, fileVars>>

(* A net key comes or goes; those of hosts without a column are not read.   *)
NetTurn(h) ==
    /\ h \in UNION ColumnLists
    /\ netKeys' = (netKeys \ {h}) \cup ({h} \ netKeys)
    /\ UNCHANGED <<members, data, published, pc, pollVars, clientVars, netVars,
                   fileVars>>

-----------------------------------------------------------------------------
(* Steps 1 and 2 of redis_poll: the client cards.                           *)

(* registry_remove_absent. *)
RemoveAbsent(hostnames) == clients' = Rows(clients, hostnames)

(* Mutant: the reply is not cut to the registry's size. *)
BeginPollUncut ==
    /\ pc = "idle"
    /\ polled' = members
    /\ RemoveAbsent(polled')
    /\ pc' = "hosts" /\ todo' = polled' /\ broken' = FALSE
    /\ UNCHANGED <<redisVars, admitted, dirty, netVars, fileVars>>

(* SMEMBERS answers in no order; only the first MaxClients are looked at.   *)
BeginPoll ==
    /\ pc = "idle"
    /\ polled' \in kSubset(Min({MaxClients, Cardinality(members)}), members)
    /\ RemoveAbsent(polled')
    /\ pc' = "hosts" /\ todo' = polled' /\ broken' = FALSE
    /\ UNCHANGED <<redisVars, admitted, dirty, netVars, fileVars>>

(* An error reply (LOADING, NOAUTH, WRONGTYPE) has no elements.             *)
BeginPollError ==
    /\ pc = "idle"
    /\ RemoveAbsent({})
    /\ pc' = "hosts" /\ polled' = {} /\ todo' = {} /\ broken' = FALSE
    /\ UNCHANGED <<redisVars, admitted, dirty, netVars, fileVars>>

(* No reply: redis_poll returns at once; the save and the refresh follow.   *)
BeginPollLost ==
    /\ pc = "idle"
    /\ pc' = "save"
    /\ UNCHANGED <<redisVars, pollVars, clientVars, netVars, fileVars>>

(* Mutant: the admitted set is not bounded. *)
RememberAll(set, h) == set \cup {h}

(* remember_admitted; netstate.c's admit is the same. *)
Remember(set, h) ==
    IF Cardinality(set \cup {h}) <= MaxClients THEN set \cup {h} ELSE set

(* registry_find_or_create on a new host: a free slot, else the slot of a   *)
(* host without priority (the longest unseen; here any), else none.         *)
FindOrCreate(h) ==
    IF Cardinality(DOMAIN clients) < MaxClients
    THEN {Put(clients, h, FALSE)}
    ELSE {Put(Rows(clients, Hosts \ {v}), h, FALSE) :
             v \in DOMAIN clients \ Priority}
         \cup (IF DOMAIN clients \subseteq Priority THEN {clients} ELSE {})

(* Mutants: a card on data alone, as before the file existed; a card on     *)
(* membership alone, as before admission.                                   *)
CardsOnDataAlone(h, hasData) ==
    IF h \in DOMAIN clients \/ ~hasData THEN {clients} ELSE FindOrCreate(h)
CardsOnMembership(h, hasData) ==
    IF h \in DOMAIN clients THEN {clients} ELSE FindOrCreate(h)

(* What registry_admit may leave of the table: it finds the host, or        *)
(* creates it when it has data now or had some in an earlier run.           *)
Cards(h, hasData) ==
    IF h \in DOMAIN clients \/ ~(hasData \/ h \in admitted)
    THEN {clients}
    ELSE FindOrCreate(h)

(* What the two GETs of a host bring, and whether one of them failed.       *)
HasHealth(what) == what \in {"health", "garbled"}
Fetched(h) ==
    IF broken
    THEN {<<"none", TRUE>>}
    ELSE {<<data[h], FALSE>>, <<"none", TRUE>>}
         \cup {<<what, TRUE>> : what \in {w \in {data[h]} : HasHealth(w)}}

(* Mutant: a missing health key leaves the card as it was. *)
OnlineSticks(what, was) == what = "health" \/ was

(* redis_parse_health_json sets online unless the payload does not parse;   *)
(* no health key clears it.                                                 *)
Online(what, was) == what = "health" \/ (what = "garbled" /\ was)

PollHost(h) ==
    /\ pc = "hosts" /\ h \in todo
    /\ todo' = todo \ {h}
    /\ \E fetched \in Fetched(h) :
        LET what == fetched[1]
            new  == h \notin DOMAIN clients /\ what # "none"
        IN  /\ broken' = fetched[2]
            /\ admitted' = IF new THEN Remember(admitted, h) ELSE admitted
            /\ dirty' = (dirty \/ admitted' # admitted)
            /\ \E cards \in Cards(h, what # "none") :
                clients' = IF h \in DOMAIN cards
                           THEN Put(cards, h, Online(what, cards[h]))
                           ELSE cards
    /\ UNCHANGED <<redisVars, pc, polled, netVars, fileVars>>

(* The other steps may break the connection too; if one of steps 2 to 9     *)
(* did, redis_poll_net does nothing.  A broken context is freed.            *)
EndHosts ==
    /\ pc = "hosts" /\ todo = {}
    /\ pc' \in IF broken THEN {"save"} ELSE {"net", "save"}
    /\ polled' = {} /\ broken' = FALSE
    /\ UNCHANGED <<redisVars, todo, clientVars, netVars, fileVars>>

-----------------------------------------------------------------------------
(* redis_poll_net: the network card's columns, from one MGET.               *)

(* net_observe of one column: a key that is gone turns it STALE if its host *)
(* has ever published.                                                      *)
Observed(h) ==
    IF h \in netKeys THEN "LIVE"
    ELSE IF columns[h] = "LIVE" \/ h \in netAdmitted THEN "STALE"
    ELSE columns[h]

(* netstate.c's admit drops a host when the set is full; the flag is raised *)
(* all the same.                                                            *)
PollNet ==
    /\ pc = "net"
    /\ pc' = "save"
    /\ columns' = [h \in DOMAIN columns |-> Observed(h)]
    /\ LET new  == (DOMAIN columns \cap netKeys) \ netAdmitted
           room == MaxClients - Cardinality(netAdmitted)
       IN  /\ \E added \in kSubset(Min({room, Cardinality(new)}), new) :
                netAdmitted' = netAdmitted \cup added
           /\ netDirty' = (netDirty \/ new # {})
    /\ UNCHANGED <<redisVars, pollVars, clientVars, fileVars>>

-----------------------------------------------------------------------------
(* The rest of timer_poll_cb.                                               *)

(* What write_names leaves of both sets in the file. *)
Contents == [hosts |-> admitted \cap ValidNames,
             net   |-> netAdmitted \cap ValidNames]

(* Mutant: only the cards' flag is looked at. *)
SaveHostsOnly ==
    /\ pc = "save"
    /\ pc' = "refresh"
    /\ dirty' = FALSE /\ netDirty' = FALSE
    /\ IF dirty
       THEN file' = Contents /\ failed' = FALSE /\ remembered' = Contents
       ELSE UNCHANGED fileVars
    /\ UNCHANGED <<redisVars, pollVars, clients, admitted, columns, netAdmitted>>

(* admitted_save writes beside the file and renames: all of it or nothing.  *)
AdmittedSave ==
    \/ /\ file' = Contents
       /\ failed' = FALSE
       /\ remembered' = [hosts |-> remembered.hosts \cup Contents.hosts,
                         net |-> remembered.net \cup Contents.net]
    \/ failed' = TRUE /\ UNCHANGED <<file, remembered>>

(* save_admitted_if_changed: both flags are taken, whatever comes of it.    *)
Save ==
    /\ pc = "save"
    /\ pc' = "refresh"
    /\ dirty' = FALSE /\ netDirty' = FALSE
    /\ IF dirty \/ netDirty
       THEN AdmittedSave
       ELSE UNCHANGED fileVars
    /\ UNCHANGED <<redisVars, pollVars, clients, admitted, columns, netAdmitted>>

(* ui_refresh shows the cards and the columns. *)
Refresh ==
    /\ pc = "refresh"
    /\ pc' = "idle"
    /\ UNCHANGED <<redisVars, pollVars, clientVars, netVars, fileVars>>

(* net_set_hosts, then net_seed_admitted. *)
Seeded(list) == [h \in list |-> IF h \in file.net THEN "STALE" ELSE "NOFEED"]

(* main: the two admitted sets are seeded from the file. *)
Boot ==
    /\ pc = "boot"
    /\ pc' = "idle"
    /\ admitted' = file.hosts /\ netAdmitted' = file.net
    /\ \E list \in ColumnLists : columns' = Seeded(list)
    /\ UNCHANGED <<redisVars, pollVars, clients, dirty, netDirty, fileVars>>

(* The panel loses power or the service restarts, at any point of a poll.   *)
Crash ==
    /\ pc # "boot"
    /\ pc' = "boot"
    /\ polled' = {} /\ todo' = {} /\ broken' = FALSE
    /\ clients' = EmptyTable /\ admitted' = {} /\ dirty' = FALSE
    /\ columns' = EmptyTable /\ netAdmitted' = {} /\ netDirty' = FALSE
    /\ UNCHANGED <<redisVars, fileVars>>

Fleet ==
    \E h \in Hosts :
        \/ Register(h) \/ Unregister(h) \/ Expire(h) \/ NetTurn(h)
        \/ \E what \in ClientData : Publish(h, what)

Panel ==
    \/ Boot
    \/ BeginPoll \/ BeginPollError \/ BeginPollLost
    \/ \E h \in Hosts : PollHost(h)
    \/ EndHosts \/ PollNet \/ Save \/ Refresh

Next == Fleet \/ Panel \/ Crash

Spec == Init /\ [][Next]_vars
FairSpec == Spec /\ WF_vars(Panel)

-----------------------------------------------------------------------------
(* Properties. *)

IsTable(t, S, T) == DOMAIN t \subseteq S /\ \A x \in DOMAIN t : t[x] \in T
Sections == [hosts : SUBSET Hosts, net : SUBSET Hosts]

(* Every variable has its type, and no table outgrows its array.            *)
TypeOK ==
    /\ members \subseteq Hosts
    /\ data \in [Hosts -> ClientData \cup {"none"}]
    /\ netKeys \subseteq Hosts /\ published \subseteq Hosts
    /\ pc \in {"boot", "idle", "hosts", "net", "save", "refresh"}
    /\ polled \subseteq Hosts /\ todo \subseteq polled /\ broken \in BOOLEAN
    /\ IsTable(clients, Hosts, BOOLEAN)
    /\ Cardinality(DOMAIN clients) <= MaxClients
    /\ admitted \subseteq Hosts /\ Cardinality(admitted) <= MaxClients
    /\ IsTable(columns, Hosts, {"NOFEED", "LIVE", "STALE"})
    /\ netAdmitted \subseteq Hosts /\ Cardinality(netAdmitted) <= MaxClients
    /\ dirty \in BOOLEAN /\ netDirty \in BOOLEAN /\ failed \in BOOLEAN
    /\ file \in Sections /\ remembered \in Sections

(* A host in kpidash:clients that never wrote a client key has no card.     *)
CardMeansPublished == DOMAIN clients \subseteq published

(* A card leaves the table only because the poll did not find its host in   *)
(* the members it took, or because the process died: the eviction branch of *)
(* registry_find_or_create is never reached from the poll.                  *)
CardLeavesWithMembership ==
    [][\A h \in DOMAIN clients \ DOMAIN clients' :
           pc' = "boot" \/ (pc = "idle" /\ h \notin polled')]_vars

(* Once the poll is over, whatever the panel has shown, as a card or as a   *)
(* column with a feed, is in the file and survives a restart; except a name *)
(* the file cannot hold, a set that is full, and a save that failed.        *)
ShownIsRecorded ==
    pc \in {"refresh", "idle"} /\ ~failed =>
        /\ DOMAIN clients \cap ValidNames \subseteq file.hosts
             \/ Cardinality(admitted) = MaxClients
        /\ {h \in DOMAIN columns \cap ValidNames : columns[h] # "NOFEED"}
             \subseteq file.net
             \/ Cardinality(netAdmitted) = MaxClients

(* An outage stays visible across restarts: after step 2 of a poll every    *)
(* member polled that any earlier run recorded has a card, publishing or    *)
(* not, and a column of such a host never reads "never published".          *)
OutageVisible ==
    /\ pc = "hosts" => (polled \ todo) \cap remembered.hosts \subseteq DOMAIN clients
    /\ pc # "boot" => \A h \in DOMAIN columns \cap remembered.net :
                          columns[h] # "NOFEED"

(* A host that stays silent turns red, while polls keep listing it, even if *)
(* they break off half way.                                                 *)
SilentGoesRed ==
    \A h \in Hosts :
        /\ <>[](~HasHealth(data[h]))
        /\ []<>(h \in polled)
        => <>[](h \in DOMAIN clients => ~clients[h])

(* An outage renders as a down card, not as a host that quietly vanishes    *)
(* while kpidash:clients still lists it.                                    *)
OutageStaysVisible ==
    [][\A h \in DOMAIN clients \ DOMAIN clients' :
           pc' = "boot" \/ h \notin members]_vars
=============================================================================
