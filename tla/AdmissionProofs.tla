-------------------------- MODULE AdmissionProofs --------------------------
(***************************************************************************)
(* Which hosts have a card, for every fleet and every size of the tables.  *)
(***************************************************************************)
EXTENDS Admission, FiniteSetTheorems, TLAPS

LEMMA HostsFinite ==
    ASSUME NEW S \in SUBSET Hosts
    PROVE  IsFiniteSet(S) /\ Cardinality(S) \in Nat
BY FS_Subset, FS_CardinalityType, AdmissionConstants

LEMMA MinIsLower ==
    ASSUME NEW a \in Int, NEW b \in Int
    PROVE  Min({a, b}) = IF a <= b THEN a ELSE b
<1>1. \A x \in {a, b} : (\A y \in {a, b} : x =< y) => x = IF a <= b THEN a ELSE b
  OBVIOUS
<1>2. \E x \in {a, b} : \A y \in {a, b} : x =< y
  OBVIOUS
<1>3. QED  BY <1>1, <1>2 DEF Min

LEMMA Smaller ==
    ASSUME NEW S \in SUBSET Hosts, NEW T \in SUBSET S
    PROVE  Cardinality(T) <= Cardinality(S)
BY HostsFinite, FS_Subset

(* A set of hosts is bounded, and what a full one refuses is no news. *)
LEMMA RememberType ==
    ASSUME NEW S \in SUBSET Hosts, Cardinality(S) <= MaxClients, NEW h \in Hosts
    PROVE  /\ S \subseteq Remember(S, h) /\ Remember(S, h) \subseteq S \cup {h}
           /\ Cardinality(Remember(S, h)) <= MaxClients
           /\ h \in Remember(S, h) \/ Cardinality(S) = MaxClients
<1>1. /\ Cardinality(S) \in Nat /\ IsFiniteSet(S) /\ MaxClients \in Nat
      /\ Cardinality(S \cup {h}) =
           IF h \in S THEN Cardinality(S) ELSE Cardinality(S) + 1
  BY HostsFinite, FS_AddElement, AdmissionConstants
<1>2. QED  BY <1>1 DEF Remember

-----------------------------------------------------------------------------
(* The cards. *)

(* During step 2 every card is of a host that the poll lists, and the list  *)
(* fits the table: there is always a free slot.                             *)
ListFits ==
    pc = "hosts" => DOMAIN clients \subseteq polled /\ Cardinality(polled) <= MaxClients

(* One host is polled: it gets a card if it has data or had some in an      *)
(* earlier run, and no other loses its card.                                *)
LEMMA PollHostCards ==
    ASSUME TypeOK, ListFits, NEW h \in Hosts, PollHost(h)
    PROVE  \E what \in {data[h], "none"} :
             /\ broken' \in BOOLEAN
             /\ admitted' = IF h \notin DOMAIN clients /\ what # "none"
                            THEN Remember(admitted, h) ELSE admitted
             /\ dirty' = (dirty \/ admitted' # admitted)
             /\ DOMAIN clients' = DOMAIN clients \cup
                   (IF what # "none" \/ h \in admitted THEN {h} ELSE {})
             /\ \A x \in DOMAIN clients' : clients'[x] \in BOOLEAN
<1>1. PICK fetched \in Fetched(h) :
         LET what == fetched[1]
             new  == h \notin DOMAIN clients /\ what # "none"
         IN  /\ broken' = fetched[2]
             /\ admitted' = IF new THEN Remember(admitted, h) ELSE admitted
             /\ dirty' = (dirty \/ admitted' # admitted)
             /\ \E cards \in Cards(h, what # "none") :
                 clients' = IF h \in DOMAIN cards
                            THEN Put(cards, h, Online(what, cards[h]))
                            ELSE cards
  BY DEF PollHost
<1> DEFINE what == fetched[1]
<1>2. what \in {data[h], "none"} /\ fetched[2] \in BOOLEAN
  <2>1. \A f \in Fetched(h) : \/ f = <<"none", TRUE>>
                               \/ f = <<data[h], FALSE>>
                               \/ f = <<data[h], TRUE>>
    BY DEF Fetched
  <2>2. \/ fetched = <<"none", TRUE>>
        \/ fetched = <<data[h], FALSE>>
        \/ fetched = <<data[h], TRUE>>
    BY <2>1
  <2>3. CASE fetched = <<"none", TRUE>>
    BY <2>3
  <2>4. CASE fetched = <<data[h], FALSE>>
    BY <2>4
  <2>5. CASE fetched = <<data[h], TRUE>>
    BY <2>5
  <2>6. QED  BY <2>2, <2>3, <2>4, <2>5
<1>3. PICK cards \in Cards(h, what # "none") :
         clients' = IF h \in DOMAIN cards
                    THEN Put(cards, h, Online(what, cards[h])) ELSE cards
  BY <1>1
<1>4. /\ \A x \in DOMAIN clients : clients[x] \in BOOLEAN
      /\ DOMAIN clients \subseteq Hosts
  BY DEF TypeOK, IsTable
<1>5. h \notin DOMAIN clients => Cardinality(DOMAIN clients) < MaxClients
  <2> SUFFICES ASSUME h \notin DOMAIN clients
               PROVE  Cardinality(DOMAIN clients) < MaxClients
    OBVIOUS
  <2>1. /\ h \in polled /\ polled \in SUBSET Hosts
        /\ DOMAIN clients \subseteq polled
        /\ Cardinality(polled) <= MaxClients
    BY DEF PollHost, TypeOK, ListFits
  <2>2. /\ IsFiniteSet(polled)
        /\ Cardinality(polled) \in Nat /\ Cardinality(DOMAIN clients) \in Nat
    BY <1>4, <2>1, HostsFinite
  <2>3. /\ Cardinality(DOMAIN clients) <= Cardinality(polled)
        /\ Cardinality(DOMAIN clients) # Cardinality(polled)
    BY <2>1, <2>2, FS_Subset
  <2>4. QED  BY <2>1, <2>2, <2>3, AdmissionConstants
<1>6. FindOrCreate(h) = {Put(clients, h, FALSE)} \/ h \in DOMAIN clients
  BY <1>5 DEF FindOrCreate
<1>7. cards = clients \/ (cards = Put(clients, h, FALSE) /\ h \notin DOMAIN clients)
  BY <1>6 DEF Cards
<1>8. /\ DOMAIN cards = DOMAIN clients \cup
            (IF what # "none" \/ h \in admitted THEN {h} ELSE {})
      /\ \A x \in DOMAIN cards : cards[x] \in BOOLEAN
  <2>1. CASE h \in DOMAIN clients \/ ~(what # "none" \/ h \in admitted)
    <3>1. cards = clients
      BY <2>1 DEF Cards
    <3>2. QED  BY <1>4, <2>1, <3>1
  <2>2. CASE h \notin DOMAIN clients /\ (what # "none" \/ h \in admitted)
    <3>1. cards = Put(clients, h, FALSE)
      BY <1>6, <2>2 DEF Cards
    <3>2. /\ DOMAIN cards = DOMAIN clients \cup {h}
          /\ \A x \in DOMAIN cards : cards[x] \in BOOLEAN
      BY <1>4, <3>1 DEF Put
    <3>3. QED  BY <2>2, <3>2
  <2>3. QED  BY <2>1, <2>2
<1>9. Online(what, cards[h]) \in BOOLEAN
  BY DEF Online
<1>10. DOMAIN clients' = DOMAIN cards
  BY <1>3 DEF Put
<1>11. DOMAIN clients' = DOMAIN clients \cup
          (IF what # "none" \/ h \in admitted THEN {h} ELSE {})
  BY <1>8, <1>10
<1>12. \A x \in DOMAIN clients' : clients'[x] \in BOOLEAN
  BY <1>3, <1>8, <1>9, <1>10 DEF Put
<1>13. QED  BY <1>1, <1>2, <1>11, <1>12

-----------------------------------------------------------------------------
(* The file. *)

(* The file holds what successful saves have recorded, as names it can      *)
(* hold, and no more than the table it seeds.                               *)
FileInv ==
    /\ remembered = file
    /\ file.hosts \subseteq ValidNames /\ file.net \subseteq ValidNames
    /\ Cardinality(file.hosts) <= MaxClients
    /\ Cardinality(file.net) <= MaxClients
    /\ pc # "boot" => file.hosts \subseteq admitted /\ file.net \subseteq netAdmitted

IInv == TypeOK /\ ListFits /\ FileInv

(* What a poll of the network card may add. *)
LEMMA PollNetAdds ==
    ASSUME TypeOK, PollNet
    PROVE  \E added \in SUBSET ((DOMAIN columns \cap netKeys) \ netAdmitted) :
             /\ netAdmitted' = netAdmitted \cup added
             /\ Cardinality(netAdmitted') <= MaxClients
             /\ \/ added = (DOMAIN columns \cap netKeys) \ netAdmitted
                \/ Cardinality(netAdmitted') = MaxClients
             /\ netDirty' = (netDirty \/
                   (DOMAIN columns \cap netKeys) \ netAdmitted # {})
<1> DEFINE new  == (DOMAIN columns \cap netKeys) \ netAdmitted
           room == MaxClients - Cardinality(netAdmitted)
<1>1. /\ new \in SUBSET Hosts /\ netAdmitted \in SUBSET Hosts
      /\ Cardinality(netAdmitted) <= MaxClients /\ MaxClients \in Nat
  BY AdmissionConstants DEF TypeOK, IsTable
<1>2. /\ IsFiniteSet(new) /\ Cardinality(new) \in Nat
      /\ IsFiniteSet(netAdmitted) /\ Cardinality(netAdmitted) \in Nat
      /\ room \in Nat
  BY <1>1, HostsFinite
<1>3. PICK added \in kSubset(Min({room, Cardinality(new)}), new) :
         netAdmitted' = netAdmitted \cup added
  BY DEF PollNet
<1>4. /\ added \in SUBSET new
      /\ Cardinality(added) = IF room <= Cardinality(new) THEN room
                              ELSE Cardinality(new)
  <2>1. Min({room, Cardinality(new)}) =
          IF room <= Cardinality(new) THEN room ELSE Cardinality(new)
    <3> HIDE DEF room, new
    <3>1. room \in Int /\ Cardinality(new) \in Int
      BY <1>2
    <3>2. QED  BY <3>1, MinIsLower
  <2>2. added \in SUBSET new /\ Cardinality(added) = Min({room, Cardinality(new)})
    BY <1>3 DEF kSubset
  <2>3. QED  BY <2>1, <2>2
<1>5. IsFiniteSet(added) /\ (Cardinality(added) = Cardinality(new) => added = new)
  BY <1>2, <1>4, FS_Subset
<1>6. Cardinality(netAdmitted') = Cardinality(netAdmitted) + Cardinality(added)
  <2>1. netAdmitted \cap added = {}
    BY <1>4
  <2>2. Cardinality(netAdmitted \cap added) = 0
    BY <2>1, FS_EmptySet
  <2>3. Cardinality(netAdmitted \cup added) =
          Cardinality(netAdmitted) + Cardinality(added)
            - Cardinality(netAdmitted \cap added)
    BY <1>2, <1>5, FS_Union
  <2>4. Cardinality(added) \in Nat
    BY <1>5, FS_CardinalityType
  <2>5. QED  BY <1>2, <1>3, <2>2, <2>3, <2>4
<1>7. netDirty' = (netDirty \/ new # {})
  BY DEF PollNet
<1>8. added = new \/ Cardinality(netAdmitted') = MaxClients
  BY <1>1, <1>2, <1>4, <1>5, <1>6
<1>9. Cardinality(netAdmitted') <= MaxClients
  BY <1>1, <1>2, <1>4, <1>6
<1>10. added \in SUBSET new
  BY <1>4
<1>11. QED
  <2>1. WITNESS added \in SUBSET ((DOMAIN columns \cap netKeys) \ netAdmitted)
  <2>2. QED  BY <1>3, <1>7, <1>8, <1>9

(* A save that succeeds records both sets, whole but for their names. *)
LEMMA SaveContents ==
    ASSUME IInv, pc # "boot"
    PROVE  /\ Contents \in Sections
           /\ file.hosts \subseteq Contents.hosts /\ file.net \subseteq Contents.net
           /\ Contents.hosts = admitted \cap ValidNames
           /\ Contents.net = netAdmitted \cap ValidNames
           /\ Cardinality(Contents.hosts) <= MaxClients
           /\ Cardinality(Contents.net) <= MaxClients
<1>1. /\ Contents.hosts = admitted \cap ValidNames
      /\ Contents.net = netAdmitted \cap ValidNames
  BY DEF Contents
<1>2. Cardinality(Contents.hosts) <= Cardinality(admitted)
  BY <1>1, Smaller DEF IInv, TypeOK
<1>3. Cardinality(Contents.net) <= Cardinality(netAdmitted)
  BY <1>1, Smaller DEF IInv, TypeOK
<1>4. /\ Cardinality(Contents.hosts) \in Nat /\ Cardinality(Contents.net) \in Nat
      /\ Cardinality(admitted) \in Nat /\ Cardinality(netAdmitted) \in Nat
      /\ MaxClients \in Nat
  BY <1>1, HostsFinite, AdmissionConstants DEF IInv, TypeOK
<1>5. Contents \in Sections
  BY DEF Contents, Sections, IInv, TypeOK
<1>6. QED
  BY <1>1, <1>2, <1>3, <1>4, <1>5 DEF IInv, TypeOK, FileInv

LEMMA SaveFile ==
    ASSUME IInv, Save
    PROVE  /\ file' \in Sections /\ remembered' = file' /\ failed' \in BOOLEAN
           /\ file' = file \/ file' = Contents
           /\ ~failed' => \/ file' = Contents
                          \/ ~failed /\ file' = file /\ ~dirty /\ ~netDirty
<1>1. pc # "boot"
  BY DEF Save
<1>2. remembered = file /\ file \in Sections /\ failed \in BOOLEAN
  BY DEF IInv, FileInv, TypeOK
<1>3. CASE dirty \/ netDirty
  <2>1. CASE failed' = TRUE /\ UNCHANGED <<file, remembered>>
    BY <1>2, <2>1
  <2>2. CASE /\ file' = Contents /\ failed' = FALSE
             /\ remembered' = [hosts |-> remembered.hosts \cup Contents.hosts,
                               net |-> remembered.net \cup Contents.net]
    <3>1. /\ remembered.hosts \cup Contents.hosts = Contents.hosts
          /\ remembered.net \cup Contents.net = Contents.net
      BY <1>1, <1>2, SaveContents
    <3>2. remembered' = Contents
      BY <2>2, <3>1 DEF Contents
    <3>3. QED  BY <1>1, <2>2, <3>2, SaveContents
  <2>3. QED  BY <1>3, <2>1, <2>2 DEF Save, AdmittedSave
<1>4. CASE ~(dirty \/ netDirty)
  BY <1>2, <1>4 DEF Save, fileVars
<1>5. QED  BY <1>3, <1>4
-----------------------------------------------------------------------------
(* Type correctness. *)

LEMMA EmptyType ==
    /\ \A S, T : IsTable(EmptyTable, S, T)
    /\ DOMAIN EmptyTable = {}
    /\ Cardinality(DOMAIN EmptyTable) <= MaxClients
    /\ Cardinality({}) <= MaxClients
<1>1. DOMAIN EmptyTable = {}
  BY DEF EmptyTable
<1>2. Cardinality({}) = 0 /\ MaxClients \in Nat
  BY FS_EmptySet, AdmissionConstants
<1>3. QED  BY <1>1, <1>2 DEF IsTable

LEMMA IInit == Init => IInv
<1> SUFFICES ASSUME Init PROVE IInv
  OBVIOUS
<1>1. NoHosts \in Sections /\ NoHosts.hosts = {} /\ NoHosts.net = {}
  BY DEF NoHosts, Sections
<1>2. data \in [Hosts -> ClientData \cup {"none"}]
  BY DEF Init
<1>3. /\ members = {} /\ netKeys = {} /\ published = {} /\ pc = "boot"
      /\ polled = {} /\ todo = {} /\ broken = FALSE
      /\ clients = EmptyTable /\ columns = EmptyTable
      /\ admitted = {} /\ netAdmitted = {} /\ dirty = FALSE /\ netDirty = FALSE
      /\ failed = FALSE /\ file = NoHosts /\ remembered = NoHosts
  BY DEF Init
<1>4. TypeOK
  BY <1>1, <1>2, <1>3, EmptyType DEF TypeOK
<1>5. ListFits /\ FileInv
  <2>1. /\ file.hosts = {} /\ file.net = {} /\ remembered = file
        /\ pc = "boot"
    BY <1>1, <1>3
  <2>2. QED  BY <2>1, EmptyType DEF ListFits, FileInv
<1>6. QED  BY <1>4, <1>5 DEF IInv
LEMMA FleetStep ==
    ASSUME IInv, NEW h \in Hosts,
           \/ Register(h) \/ Unregister(h) \/ Expire(h) \/ NetTurn(h)
           \/ \E what \in ClientData : Publish(h, what)
    PROVE  /\ IInv'
           /\ UNCHANGED <<pc, polled, todo, clients, admitted, dirty, columns,
                          netAdmitted, netDirty, file, failed, remembered>>
           /\ published \subseteq published'
           /\ \A g \in Hosts : data'[g] # data[g] /\ data'[g] # "none" =>
                  g \in published'
<1>1. UNCHANGED <<pc, polled, todo, broken, clients, admitted, dirty, columns,
                  netAdmitted, netDirty, file, failed, remembered>>
  BY DEF Register, Unregister, Expire, NetTurn, Publish, pollVars, clientVars,
         netVars, fileVars
<1>2. /\ members' \subseteq Hosts /\ netKeys' \subseteq Hosts
      /\ published' \subseteq Hosts /\ published \subseteq published'
      /\ data' \in [Hosts -> ClientData \cup {"none"}]
      /\ \A g \in Hosts : data'[g] # data[g] /\ data'[g] # "none" =>
             g \in published'
  BY DEF Register, Unregister, Expire, NetTurn, Publish, IInv, TypeOK
<1>3. IInv'
  BY <1>1, <1>2 DEF IInv, TypeOK, ListFits, FileInv, IsTable
<1>4. QED  BY <1>1, <1>2, <1>3

LEMMA BeginStep ==
    ASSUME IInv, BeginPoll \/ BeginPollError
    PROVE  /\ IInv'
           /\ DOMAIN clients' = DOMAIN clients \cap polled'
           /\ pc = "idle" /\ pc' = "hosts" /\ todo' = polled'
           /\ UNCHANGED <<members, data, netKeys, published, admitted, dirty,
                          columns, netAdmitted, netDirty, file, failed,
                          remembered>>
<1>1. /\ DOMAIN clients' = DOMAIN clients \cap polled'
      /\ \A x \in DOMAIN clients' : clients'[x] = clients[x]
      /\ pc = "idle" /\ pc' = "hosts" /\ todo' = polled' /\ broken' = FALSE
      /\ UNCHANGED <<members, data, netKeys, published, admitted, dirty, columns,
                     netAdmitted, netDirty, file, failed, remembered>>
  BY DEF BeginPoll, BeginPollError, RemoveAbsent, Rows, redisVars, netVars, fileVars
<1>2. polled' \subseteq Hosts /\ Cardinality(polled') <= MaxClients
  <2>1. CASE BeginPollError
    BY <2>1, FS_EmptySet, AdmissionConstants DEF BeginPollError
  <2>2. CASE BeginPoll
    <3> DEFINE n == Cardinality(members)
    <3>1. n \in Int /\ MaxClients \in Int
      BY HostsFinite, AdmissionConstants DEF IInv, TypeOK
    <3>2. Min({MaxClients, n}) = IF MaxClients <= n THEN MaxClients ELSE n
      <4> HIDE DEF n
      <4>1. QED  BY <3>1, MinIsLower
    <3>3. polled' \in SUBSET members /\ Cardinality(polled') = Min({MaxClients, n})
      BY <2>2 DEF BeginPoll, kSubset
    <3>4. QED  BY <3>1, <3>2, <3>3 DEF IInv, TypeOK
  <2>3. QED  BY <2>1, <2>2
<1>3. Cardinality(DOMAIN clients') <= MaxClients
  <2>1. /\ Cardinality(DOMAIN clients') <= Cardinality(DOMAIN clients)
        /\ DOMAIN clients \in SUBSET Hosts /\ DOMAIN clients' \in SUBSET Hosts
    BY <1>1, Smaller DEF IInv, TypeOK, IsTable
  <2>2. /\ Cardinality(DOMAIN clients) \in Nat
        /\ Cardinality(DOMAIN clients') \in Nat
        /\ Cardinality(DOMAIN clients) <= MaxClients /\ MaxClients \in Nat
    BY <2>1, HostsFinite, AdmissionConstants DEF IInv, TypeOK
  <2>3. QED  BY <2>1, <2>2
<1>4. TypeOK'
  BY <1>1, <1>2, <1>3 DEF IInv, TypeOK, IsTable
<1>5. QED  BY <1>1, <1>2, <1>4 DEF IInv, ListFits, FileInv

LEMMA PollHostStep ==
    ASSUME IInv, NEW h \in Hosts, PollHost(h)
    PROVE  IInv' /\ pc = "hosts"
<1>1. PICK what \in {data[h], "none"} :
         /\ broken' \in BOOLEAN
         /\ admitted' = IF h \notin DOMAIN clients /\ what # "none"
                        THEN Remember(admitted, h) ELSE admitted
         /\ dirty' = (dirty \/ admitted' # admitted)
         /\ DOMAIN clients' = DOMAIN clients \cup
               (IF what # "none" \/ h \in admitted THEN {h} ELSE {})
         /\ \A x \in DOMAIN clients' : clients'[x] \in BOOLEAN
  BY PollHostCards DEF IInv
<1>2. /\ pc = "hosts" /\ pc' = pc /\ h \in todo /\ todo' = todo \ {h}
      /\ polled' = polled
      /\ UNCHANGED <<members, data, netKeys, published, columns, netAdmitted,
                     netDirty, file, failed, remembered>>
  BY DEF PollHost, redisVars, netVars, fileVars
<1>3. /\ admitted' \subseteq Hosts /\ admitted \subseteq admitted'
      /\ Cardinality(admitted') <= MaxClients
  BY <1>1, RememberType DEF IInv, TypeOK
<1>4. DOMAIN clients' \subseteq polled
  BY <1>1, <1>2 DEF IInv, TypeOK, ListFits
<1>5. Cardinality(DOMAIN clients') <= MaxClients
  <2>1. /\ polled \in SUBSET Hosts /\ Cardinality(polled) <= MaxClients
    BY <1>2 DEF IInv, TypeOK, ListFits
  <2>2. /\ Cardinality(DOMAIN clients') <= Cardinality(polled)
        /\ Cardinality(DOMAIN clients') \in Nat /\ Cardinality(polled) \in Nat
    BY <1>4, <2>1, Smaller, HostsFinite
  <2>3. QED  BY <2>1, <2>2, AdmissionConstants
<1>6. dirty' \in BOOLEAN
  BY <1>1
<1>7. TypeOK'
  BY <1>1, <1>2, <1>3, <1>4, <1>5, <1>6 DEF IInv, TypeOK, IsTable
<1>8. QED
  BY <1>2, <1>3, <1>4, <1>7 DEF IInv, ListFits, FileInv

LEMMA PollNetStep == ASSUME IInv, PollNet PROVE IInv'
<1>1. PICK added \in SUBSET ((DOMAIN columns \cap netKeys) \ netAdmitted) :
         /\ netAdmitted' = netAdmitted \cup added
         /\ Cardinality(netAdmitted') <= MaxClients
         /\ netDirty' = (netDirty \/
               (DOMAIN columns \cap netKeys) \ netAdmitted # {})
  BY PollNetAdds DEF IInv
<1>2. /\ pc = "net" /\ pc' = "save"
      /\ columns' = [h \in DOMAIN columns |-> Observed(h)]
      /\ UNCHANGED <<members, data, netKeys, published, polled, todo, broken,
                     clients, admitted, dirty, file, failed, remembered>>
  BY DEF PollNet, redisVars, pollVars, clientVars, fileVars
<1>3. IsTable(columns', Hosts, {"NOFEED", "LIVE", "STALE"})
  BY <1>2 DEF IInv, TypeOK, IsTable, Observed
<1>4. netAdmitted' \subseteq Hosts /\ netDirty' \in BOOLEAN
  BY <1>1 DEF IInv, TypeOK
<1>5. TypeOK'
  BY <1>1, <1>2, <1>3, <1>4 DEF IInv, TypeOK
<1>6. QED  BY <1>1, <1>2, <1>5 DEF IInv, ListFits, FileInv

LEMMA SaveStep == ASSUME IInv, Save PROVE IInv'
<1>1. /\ pc = "save" /\ pc' = "refresh" /\ dirty' = FALSE /\ netDirty' = FALSE
      /\ UNCHANGED <<members, data, netKeys, published, polled, todo, broken,
                     clients, admitted, columns, netAdmitted>>
  BY DEF Save, redisVars, pollVars
<1>2. /\ file' \in Sections /\ remembered' = file' /\ failed' \in BOOLEAN
      /\ file' = file \/ file' = Contents
  BY SaveFile
<1>3. TypeOK'
  BY <1>1, <1>2 DEF IInv, TypeOK
<1>4. /\ file'.hosts \subseteq ValidNames /\ file'.net \subseteq ValidNames
      /\ Cardinality(file'.hosts) <= MaxClients
      /\ Cardinality(file'.net) <= MaxClients
      /\ file'.hosts \subseteq admitted /\ file'.net \subseteq netAdmitted
  <2>1. CASE file' = file
    BY <1>1, <2>1 DEF IInv, FileInv
  <2>2. CASE file' = Contents
    BY <1>1, <2>2, SaveContents
  <2>3. QED  BY <1>2, <2>1, <2>2
<1>5. QED  BY <1>1, <1>2, <1>3, <1>4 DEF IInv, ListFits, FileInv

LEMMA BootStep ==
    ASSUME IInv, Boot
    PROVE  /\ IInv' /\ pc = "boot" /\ pc' = "idle"
           /\ admitted' = file.hosts /\ netAdmitted' = file.net
           /\ \A h \in DOMAIN columns' :
                columns'[h] = IF h \in file.net THEN "STALE" ELSE "NOFEED"
           /\ UNCHANGED <<members, data, netKeys, published, clients, dirty,
                          netDirty, file, failed, remembered>>
<1>1. PICK list \in ColumnLists : columns' = Seeded(list)
  BY DEF Boot
<1>2. list \subseteq Hosts
  BY AdmissionConstants
<1>3. /\ DOMAIN columns' = list
      /\ \A h \in list : columns'[h] = IF h \in file.net THEN "STALE" ELSE "NOFEED"
  BY <1>1 DEF Seeded
<1>4. IsTable(columns', Hosts, {"NOFEED", "LIVE", "STALE"})
  BY <1>2, <1>3 DEF IsTable
<1>5. /\ pc = "boot" /\ pc' = "idle"
      /\ admitted' = file.hosts /\ netAdmitted' = file.net
      /\ UNCHANGED <<members, data, netKeys, published, polled, todo, broken,
                     clients, dirty, netDirty, file, failed, remembered>>
  BY DEF Boot, redisVars, pollVars, fileVars
<1>6. file.hosts \subseteq Hosts /\ file.net \subseteq Hosts
  BY DEF IInv, TypeOK, Sections
<1>7. TypeOK'
  BY <1>4, <1>5, <1>6 DEF IInv, TypeOK, FileInv
<1>8. QED  BY <1>3, <1>5, <1>7 DEF IInv, ListFits, FileInv

LEMMA CrashStep == ASSUME IInv, Crash PROVE IInv'
<1>1. /\ pc' = "boot" /\ polled' = {} /\ todo' = {} /\ broken' = FALSE
      /\ clients' = EmptyTable /\ columns' = EmptyTable
      /\ admitted' = {} /\ netAdmitted' = {} /\ dirty' = FALSE /\ netDirty' = FALSE
      /\ UNCHANGED <<members, data, netKeys, published, file, failed, remembered>>
  BY DEF Crash, redisVars, fileVars
<1>2. /\ members \subseteq Hosts /\ data \in [Hosts -> ClientData \cup {"none"}]
      /\ netKeys \subseteq Hosts /\ published \subseteq Hosts
      /\ failed \in BOOLEAN /\ file \in Sections /\ remembered \in Sections
  BY DEF IInv, TypeOK
<1>3. TypeOK'
  BY <1>1, <1>2, EmptyType DEF TypeOK
<1>4. QED  BY <1>1, <1>3 DEF Crash, IInv, ListFits, FileInv, fileVars

(* The steps of the poll that move on and touch no table. *)
MovesOn ==
    /\ pc # "boot" /\ pc' \in {"net", "save", "idle"}
    /\ pc = "hosts" => pc' # "idle"
    /\ pc' = "idle" => pc = "refresh"
    /\ UNCHANGED <<members, data, netKeys, published, clients, admitted, dirty,
                   columns, netAdmitted, netDirty, file, failed, remembered>>

LEMMA MoveStep ==
    ASSUME IInv, BeginPollLost \/ EndHosts \/ Refresh
    PROVE  IInv' /\ MovesOn
<1>1. MovesOn
  BY DEF MovesOn, BeginPollLost, EndHosts, Refresh, redisVars, pollVars,
         clientVars, netVars, fileVars
<1>2. /\ polled' \subseteq Hosts /\ todo' \subseteq polled' /\ broken' \in BOOLEAN
  BY DEF BeginPollLost, EndHosts, Refresh, pollVars, IInv, TypeOK
<1>3. TypeOK'
  BY <1>1, <1>2 DEF MovesOn, IInv, TypeOK
<1>4. QED  BY <1>1, <1>3 DEF MovesOn, IInv, ListFits, FileInv

LEMMA IStep == IInv /\ [Next]_vars => IInv'
<1> SUFFICES ASSUME IInv, [Next]_vars PROVE IInv'
  OBVIOUS
<1>1. CASE Fleet
  BY <1>1, FleetStep DEF Fleet
<1>2. CASE BeginPoll \/ BeginPollError
  BY <1>2, BeginStep
<1>3. ASSUME NEW h \in Hosts, PollHost(h) PROVE IInv'
  BY <1>3, PollHostStep
<1>4. CASE BeginPollLost \/ EndHosts \/ Refresh
  BY <1>4, MoveStep
<1>5. CASE PollNet \/ Save \/ Boot \/ Crash
  BY <1>5, PollNetStep, SaveStep, BootStep, CrashStep
<1>6. CASE UNCHANGED vars
  BY <1>6 DEF vars, redisVars, pollVars, clientVars, netVars, fileVars, IInv,
              TypeOK, ListFits, FileInv, IsTable
<1>7. QED  BY <1>1, <1>2, <1>3, <1>4, <1>5, <1>6 DEF Next, Panel

LEMMA IHolds == Spec => []IInv
BY IInit, IStep, PTL DEF Spec

(* No table outgrows its array: not by members, not by hosts that come back *)
(* from the file, not by those that begin to publish.                       *)
THEOREM TypeCorrect == Spec => []TypeOK
<1>1. IInv => TypeOK
  BY DEF IInv
<1>2. QED  BY <1>1, IHolds, PTL
-----------------------------------------------------------------------------
(* Nobody has a card who never published.                                   *)

(* Publishing leaves its traces in the keys, in the admitted set and in the *)
(* file, and each of them is a trace of publishing.                         *)
PublishedInv ==
    /\ CardMeansPublished
    /\ admitted \subseteq published /\ file.hosts \subseteq published
    /\ \A h \in Hosts : data[h] # "none" => h \in published

LEMMA PublishedStep == IInv /\ PublishedInv /\ [Next]_vars => PublishedInv'
<1> SUFFICES ASSUME IInv, PublishedInv, [Next]_vars PROVE PublishedInv'
  OBVIOUS
<1> USE DEF PublishedInv, CardMeansPublished
<1>1. CASE Fleet
  <2>1. PICK h \in Hosts :
           \/ Register(h) \/ Unregister(h) \/ Expire(h) \/ NetTurn(h)
           \/ \E what \in ClientData : Publish(h, what)
    BY <1>1 DEF Fleet
  <2>2. QED  BY <2>1, FleetStep
<1>2. CASE BeginPoll \/ BeginPollError
  BY <1>2, BeginStep
<1>3. ASSUME NEW h \in Hosts, PollHost(h) PROVE PublishedInv'
  <2>1. PICK what \in {data[h], "none"} :
           /\ admitted' = IF h \notin DOMAIN clients /\ what # "none"
                          THEN Remember(admitted, h) ELSE admitted
           /\ DOMAIN clients' = DOMAIN clients \cup
                 (IF what # "none" \/ h \in admitted THEN {h} ELSE {})
    BY <1>3, PollHostCards DEF IInv
  <2>2. UNCHANGED <<data, published, file>>
    BY <1>3 DEF PollHost, redisVars, fileVars
  <2>3. what # "none" => h \in published
    OBVIOUS
  <2>4. admitted' \subseteq published
    BY <2>1, <2>3, RememberType DEF IInv, TypeOK
  <2>5. QED  BY <2>1, <2>2, <2>3, <2>4
<1>4. CASE BeginPollLost \/ EndHosts \/ Refresh
  BY <1>4, MoveStep DEF MovesOn
<1>5. CASE PollNet
  BY <1>5 DEF PollNet, redisVars, clientVars, fileVars
<1>6. CASE Save
  <2>1. /\ UNCHANGED <<clients, admitted, published, data>>
        /\ pc # "boot"
    BY <1>6 DEF Save, redisVars
  <2>2. file'.hosts \subseteq file.hosts \cup admitted
    BY <1>6, <2>1, SaveFile, SaveContents
  <2>3. QED  BY <2>1, <2>2
<1>7. CASE Boot
  BY <1>7, BootStep
<1>8. CASE Crash
  BY <1>8, EmptyType DEF Crash, redisVars, fileVars
<1>9. CASE UNCHANGED vars
  BY <1>9 DEF vars, redisVars, clientVars, fileVars
<1>10. QED
  BY <1>1, <1>2, <1>3, <1>4, <1>5, <1>6, <1>7, <1>8, <1>9 DEF Next, Panel

(* A member of kpidash:clients that never wrote a client key has no card,   *)
(* in this run or after any restart.                                        *)
THEOREM CardsEarned == Spec => []CardMeansPublished
<1>1. Init => PublishedInv
  BY EmptyType DEF Init, PublishedInv, CardMeansPublished, NoHosts
<1>2. PublishedInv => CardMeansPublished
  BY DEF PublishedInv
<1>3. QED  BY <1>1, <1>2, PublishedStep, IHolds, PTL DEF Spec

-----------------------------------------------------------------------------
(* What is shown is on file.                                                *)

Seen == {h \in DOMAIN columns : columns[h] # "NOFEED"}

(* What is shown is admitted; what is admitted is on file, or the dirty     *)
(* flag or the failure of a save says that it is not; and the flags are     *)
(* taken before the poll ends.                                              *)
RecordInv ==
    /\ DOMAIN clients \subseteq admitted \/ Cardinality(admitted) = MaxClients
    /\ Seen \subseteq netAdmitted \/ Cardinality(netAdmitted) = MaxClients
    /\ ~dirty /\ ~failed => admitted \cap ValidNames \subseteq file.hosts
    /\ ~netDirty /\ ~failed => netAdmitted \cap ValidNames \subseteq file.net
    /\ pc \in {"refresh", "idle", "boot"} => ~dirty /\ ~netDirty
    /\ pc = "boot" => DOMAIN clients = {}

LEMMA RecordStep == IInv /\ RecordInv /\ [Next]_vars => RecordInv'
<1> SUFFICES ASSUME IInv, RecordInv, [Next]_vars PROVE RecordInv'
  OBVIOUS
<1> USE DEF RecordInv, Seen
<1>1. CASE Fleet
  <2>1. PICK h \in Hosts :
           \/ Register(h) \/ Unregister(h) \/ Expire(h) \/ NetTurn(h)
           \/ \E what \in ClientData : Publish(h, what)
    BY <1>1 DEF Fleet
  <2>2. QED  BY <2>1, FleetStep
<1>2. CASE BeginPoll \/ BeginPollError
  BY <1>2, BeginStep
<1>3. ASSUME NEW h \in Hosts, PollHost(h) PROVE RecordInv'
  <2>1. PICK what \in {data[h], "none"} :
           /\ admitted' = IF h \notin DOMAIN clients /\ what # "none"
                          THEN Remember(admitted, h) ELSE admitted
           /\ dirty' = (dirty \/ admitted' # admitted)
           /\ DOMAIN clients' = DOMAIN clients \cup
                 (IF what # "none" \/ h \in admitted THEN {h} ELSE {})
    BY <1>3, PollHostCards DEF IInv
  <2>2. /\ pc = "hosts" /\ pc' = "hosts"
        /\ UNCHANGED <<columns, netAdmitted, netDirty, file, failed>>
    BY <1>3 DEF PollHost, netVars, fileVars
  <2>3. /\ admitted \subseteq Hosts /\ Cardinality(admitted) <= MaxClients
        /\ Remember(admitted, h) \subseteq Hosts
        /\ admitted \subseteq Remember(admitted, h)
        /\ Cardinality(Remember(admitted, h)) <= MaxClients
        /\ h \in Remember(admitted, h) \/ Cardinality(admitted) = MaxClients
    BY RememberType DEF IInv, TypeOK
  <2>4. admitted \subseteq admitted' /\ admitted' \subseteq Hosts
    BY <2>1, <2>3
  <2>5. Cardinality(admitted) = MaxClients => Cardinality(admitted') = MaxClients
    <3>1. /\ Cardinality(admitted) <= Cardinality(admitted')
          /\ Cardinality(admitted) \in Nat /\ Cardinality(admitted') \in Nat
      BY <2>4, Smaller, HostsFinite
    <3>2. Cardinality(admitted') <= MaxClients
      BY <2>1, <2>3
    <3>3. QED  BY <3>1, <3>2
  <2>6. DOMAIN clients' \subseteq admitted' \/ Cardinality(admitted') = MaxClients
    BY <2>1, <2>3, <2>4, <2>5
  <2>7. ~dirty' /\ ~failed' => admitted' \cap ValidNames \subseteq file'.hosts
    BY <2>1, <2>2
  <2>8. QED  BY <2>2, <2>6, <2>7
<1>4. CASE BeginPollLost \/ EndHosts \/ Refresh
  BY <1>4, MoveStep DEF MovesOn
<1>5. CASE PollNet
  <2> DEFINE new == (DOMAIN columns \cap netKeys) \ netAdmitted
  <2>1. PICK added \in SUBSET new :
           /\ netAdmitted' = netAdmitted \cup added
           /\ Cardinality(netAdmitted') <= MaxClients
           /\ added = new \/ Cardinality(netAdmitted') = MaxClients
           /\ netDirty' = (netDirty \/ new # {})
    BY <1>5, PollNetAdds DEF IInv
  <2>2. /\ pc' = "save" /\ columns' = [h \in DOMAIN columns |-> Observed(h)]
        /\ UNCHANGED <<clients, admitted, dirty, file, failed>>
    BY <1>5 DEF PollNet, clientVars, fileVars
  <2>3. Cardinality(netAdmitted) = MaxClients => netAdmitted' = netAdmitted
    <3>1. netAdmitted \in SUBSET netAdmitted' /\ netAdmitted' \in SUBSET Hosts
      BY <2>1 DEF IInv, TypeOK, IsTable
    <3>2. IsFiniteSet(netAdmitted') /\ Cardinality(netAdmitted') \in Nat
      BY <3>1, HostsFinite
    <3>3. /\ Cardinality(netAdmitted) <= Cardinality(netAdmitted')
          /\ Cardinality(netAdmitted') = Cardinality(netAdmitted) =>
               netAdmitted' = netAdmitted
      BY <3>1, <3>2, FS_Subset
    <3>4. QED  BY <2>1, <3>2, <3>3, AdmissionConstants
  <2>4. Seen' \subseteq (Seen \cup new) \cup netAdmitted
    BY <2>2 DEF Observed
  <2>5. Seen' \subseteq netAdmitted' \/ Cardinality(netAdmitted') = MaxClients
    BY <2>1, <2>3, <2>4
  <2>6. ~netDirty' /\ ~failed' =>
           netAdmitted' \cap ValidNames \subseteq file'.net
    BY <2>1, <2>2
  <2>7. QED  BY <2>2, <2>5, <2>6
<1>6. CASE Save
  <2>1. /\ UNCHANGED <<clients, admitted, columns, netAdmitted>>
        /\ pc # "boot" /\ pc' = "refresh" /\ dirty' = FALSE /\ netDirty' = FALSE
    BY <1>6 DEF Save
  <2>2. ~failed' => /\ admitted \cap ValidNames \subseteq file'.hosts
                    /\ netAdmitted \cap ValidNames \subseteq file'.net
    BY <1>6, <2>1, SaveFile, SaveContents
  <2>3. QED  BY <2>1, <2>2
<1>7. CASE Boot
  BY <1>7, BootStep
<1>8. CASE Crash
  BY <1>8, EmptyType DEF Crash, fileVars
<1>9. CASE UNCHANGED vars
  BY <1>9 DEF vars, clientVars, netVars, fileVars
<1>10. QED
  BY <1>1, <1>2, <1>3, <1>4, <1>5, <1>6, <1>7, <1>8, <1>9 DEF Next, Panel

(* Once a poll is over, a restart loses no host that the panel showed,      *)
(* unless the file could not take it.                                       *)
THEOREM RecordComplete == Spec => []ShownIsRecorded
<1>1. Init => RecordInv
  BY EmptyType DEF Init, RecordInv, Seen
<1>2. RecordInv => ShownIsRecorded
  BY DEF RecordInv, Seen, ShownIsRecorded
<1>3. QED  BY <1>1, <1>2, RecordStep, IHolds, PTL DEF Spec

-----------------------------------------------------------------------------
(* Outages stay visible over restarts.                                      *)

VisibleInv ==
    /\ pc = "hosts" => (polled \ todo) \cap file.hosts \subseteq DOMAIN clients
    /\ pc # "boot" => \A h \in DOMAIN columns \cap netAdmitted :
                          columns[h] # "NOFEED"

LEMMA VisibleStep == IInv /\ VisibleInv /\ [Next]_vars => VisibleInv'
<1> SUFFICES ASSUME IInv, VisibleInv, [Next]_vars PROVE VisibleInv'
  OBVIOUS
<1> USE DEF VisibleInv
<1>1. CASE Fleet
  <2>1. PICK h \in Hosts :
           \/ Register(h) \/ Unregister(h) \/ Expire(h) \/ NetTurn(h)
           \/ \E what \in ClientData : Publish(h, what)
    BY <1>1 DEF Fleet
  <2>2. QED  BY <2>1, FleetStep
<1>2. CASE BeginPoll \/ BeginPollError
  BY <1>2, BeginStep
<1>3. ASSUME NEW h \in Hosts, PollHost(h) PROVE VisibleInv'
  <2>1. PICK what \in {data[h], "none"} :
           DOMAIN clients' = DOMAIN clients \cup
                 (IF what # "none" \/ h \in admitted THEN {h} ELSE {})
    BY <1>3, PollHostCards DEF IInv
  <2>2. /\ pc = "hosts" /\ pc' = "hosts" /\ polled' = polled
        /\ todo' = todo \ {h} /\ UNCHANGED <<columns, netAdmitted, file>>
    BY <1>3 DEF PollHost, netVars, fileVars
  <2>3. file.hosts \subseteq admitted
    BY <2>2 DEF IInv, FileInv
  <2>4. QED  BY <2>1, <2>2, <2>3
<1>4. CASE BeginPollLost \/ EndHosts \/ Refresh
  BY <1>4, MoveStep DEF MovesOn
<1>5. CASE PollNet
  <2>1. PICK added \in SUBSET ((DOMAIN columns \cap netKeys) \ netAdmitted) :
           netAdmitted' = netAdmitted \cup added
    BY <1>5, PollNetAdds DEF IInv
  <2>2. /\ pc = "net" /\ pc' = "save"
        /\ columns' = [h \in DOMAIN columns |-> Observed(h)]
    BY <1>5 DEF PollNet
  <2>3. QED  BY <2>1, <2>2 DEF Observed
<1>6. CASE Save
  BY <1>6 DEF Save
<1>7. CASE Boot
  BY <1>7, BootStep
<1>8. CASE Crash
  BY <1>8 DEF Crash
<1>9. CASE UNCHANGED vars
  BY <1>9 DEF vars, pollVars, clientVars, netVars, fileVars
<1>10. QED
  BY <1>1, <1>2, <1>3, <1>4, <1>5, <1>6, <1>7, <1>8, <1>9 DEF Next, Panel

(* A host that any earlier run recorded has its card again as soon as a     *)
(* poll has looked at it, and its column does not read "never published".   *)
THEOREM OutagesShown == Spec => []OutageVisible
<1>1. Init => VisibleInv
  BY DEF Init, VisibleInv
<1>2. IInv /\ VisibleInv => OutageVisible
  BY DEF IInv, FileInv, VisibleInv, OutageVisible
<1>3. QED  BY <1>1, <1>2, VisibleStep, IHolds, PTL DEF Spec

(* No card is taken from a host that the poll lists: the table never evicts *)
(* one host to make room for another.                                       *)
THEOREM CardsStay == Spec => CardLeavesWithMembership
<1> DEFINE Leaves(h) == pc' = "boot" \/ (pc = "idle" /\ h \notin polled')
<1>1. ASSUME IInv, [Next]_vars, NEW g \in DOMAIN clients \ DOMAIN clients'
      PROVE  Leaves(g)
  <2>1. CASE BeginPoll \/ BeginPollError
    BY <1>1, <2>1, BeginStep
  <2>2. ASSUME NEW h \in Hosts, PollHost(h) PROVE Leaves(g)
    <3>1. DOMAIN clients \subseteq DOMAIN clients'
      BY <1>1, <2>2, PollHostCards DEF IInv
    <3>2. QED  BY <1>1, <3>1
  <2>3. CASE Crash
    BY <2>3 DEF Crash
  <2>4. ASSUME clients' = clients PROVE Leaves(g)
    BY <1>1, <2>4
  <2>5. CASE Fleet \/ BeginPollLost \/ EndHosts \/ PollNet \/ Save \/ Refresh
             \/ Boot \/ UNCHANGED vars
    <3>1. clients' = clients
      BY <2>5 DEF Fleet, Register, Unregister, Expire, NetTurn, Publish,
                  BeginPollLost, EndHosts, PollNet, Save, Refresh, Boot, vars,
                  clientVars
    <3>2. QED  BY <2>4, <3>1
  <2>6. QED  BY <1>1, <2>1, <2>2, <2>3, <2>5 DEF Next, Panel
<1>2. IInv /\ [Next]_vars =>
          [\A h \in DOMAIN clients \ DOMAIN clients' :
               pc' = "boot" \/ (pc = "idle" /\ h \notin polled')]_vars
  BY <1>1
<1>3. QED  BY <1>2, IHolds, PTL DEF Spec, CardLeavesWithMembership
=============================================================================
