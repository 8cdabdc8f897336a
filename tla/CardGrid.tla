------------------------------ MODULE CardGrid ------------------------------
(***************************************************************************)
(* The grid of client cards (the first part of ui_refresh in src/ui.c): a  *)
(* poll changes the client registry, and the next paint makes the card     *)
(* objects follow it: new cards are made, those of absent clients deleted, *)
(* and all moved into priority order.                                      *)
(***************************************************************************)
EXTENDS Integers, FiniteSets, Sequences, SequencesExt, Lists

CONSTANTS
    Clients,      \* host names
    Priority,     \* KPIDASH_PRIORITY_CLIENTS, a sequence
    MaxClients    \* MAX_CLIENTS

ASSUME GridConstants ==
    /\ IsFiniteSet(Clients)
    /\ Priority \in Seq(Clients) /\ IsInjective(Priority)
    /\ MaxClients \in Nat \ {0}

VARIABLES
    clients,   \* g_clients: the hosts in the order of their slots
    cards,     \* g_card_hostnames: the hosts that own a card, by slot
    grid,      \* the children of g_card_grid, each named by its host
    before     \* the clients of the latest paint

gridVars == <<clients, cards, grid, before>>

GridInit == clients = <<>> /\ cards = <<>> /\ grid = <<>> /\ before = {}

-----------------------------------------------------------------------------
(* A poll lists the hosts S: the others lose their slot, and those of S     *)
(* that are admitted take free slots in the order of the reply.             *)
PollClients(S) ==
    LET kept == Within(clients, S)
        new  == S \ ToSet(kept)
    IN  /\ Cardinality(S) <= MaxClients
        /\ \E admitted \in SUBSET new : \E order \in SetToSeqs(admitted) :
            clients' = kept \o order
        /\ UNCHANGED <<cards, grid, before>>

(* registry_priority_index, counted from 1; 0 for a host without priority.  *)
PriorityIndex(h) ==
    IF h \in ToSet(Priority)
    THEN CHOOSE i \in DOMAIN Priority : Priority[i] = h
    ELSE 0

(* Mutant: only a host without priority gives way. *)
OutranksOrdinary(g, h) == PriorityIndex(g) > 0 /\ PriorityIndex(h) = 0

(* g must stand before h. *)
Outranks(g, h) ==
    /\ PriorityIndex(g) > 0
    /\ PriorityIndex(h) = 0 \/ PriorityIndex(g) < PriorityIndex(h)

Exchange(s, i, j) == [s EXCEPT ![i] = s[j], ![j] = s[i]]

(* The sort of ui_refresh: two nested loops over the positions, which       *)
(* exchange on the spot.                                                    *)
ExchangeIf(s, p) ==
    IF Outranks(s[p[2]], s[p[1]]) THEN Exchange(s, p[1], p[2]) ELSE s
LeastTo(s, i) ==
    FoldLeft(ExchangeIf, s, [k \in 1 .. Len(s) - i |-> <<i, i + k>>])
ByPriority(hosts) == FoldLeft(LeastTo, hosts, [i \in 1 .. Len(hosts) |-> i])

(* add_card for each host without one, until the array is full. *)
AddCard(s, h) ==
    IF h \in ToSet(s) \/ Len(s) >= MaxClients THEN s ELSE Append(s, h)
WithNewCards(hosts) == FoldLeft(AddCard, cards, hosts)

(* lv_obj_move_to_index: an index beyond the last child moves nothing. *)
MoveTo(s, h, i) ==
    IF h \in ToSet(s) /\ i <= Len(s) THEN InsertAt(Without(s, {h}), i, h) ELSE s

(* Each card is moved to the place of its client. *)
MoveHost(s, p) == MoveTo(s, p[1], p[2])
AllMovedTo(s, hosts) ==
    FoldLeft(MoveHost, s, [i \in 1 .. Len(hosts) |-> <<hosts[i], i>>])

(* Mutant: the objects of absent clients are forgotten, not deleted. *)
PaintGridLeaks ==
    LET sorted  == ByPriority(clients)
        present == Within(WithNewCards(sorted), ToSet(clients))
        fresh   == Without(present, ToSet(cards))
    IN  /\ cards' = present
        /\ grid' = AllMovedTo(grid \o fresh, sorted)
        /\ before' = ToSet(clients)
        /\ UNCHANGED clients

(* Mutant: a paint makes one new card at most. *)
PaintOneNewCard ==
    LET sorted  == ByPriority(clients)
        made    == WithNewCards(sorted)
        first   == IF Len(made) > Len(cards) + 1
                   THEN SubSeq(made, 1, Len(cards) + 1) ELSE made
        present == Within(first, ToSet(clients))
        fresh   == Without(present, ToSet(cards))
        left    == Within(grid, ToSet(clients))
    IN  /\ cards' = present
        /\ grid' = AllMovedTo(left \o fresh, sorted)
        /\ before' = ToSet(clients)
        /\ UNCHANGED clients

(* Cards are made before those of absent clients are removed, so a full     *)
(* array turns a newcomer away.  Each object is then moved to the place of  *)
(* its client.                                                              *)
PaintGrid ==
    LET sorted  == ByPriority(clients)
        present == Within(WithNewCards(sorted), ToSet(clients))
        fresh   == Without(present, ToSet(cards))
        left    == Within(grid, ToSet(clients))
    IN  /\ cards' = present
        /\ grid' = AllMovedTo(left \o fresh, sorted)
        /\ before' = ToSet(clients)
        /\ UNCHANGED clients

GridRestart == clients' = <<>> /\ cards' = <<>> /\ grid' = <<>> /\ before' = {}

-----------------------------------------------------------------------------
(* Properties. *)

Slots(n) == UNION {[1 .. k -> Clients] : k \in 0 .. n}

(* Arrays within their bounds, no host twice. *)
GridTypeOK ==
    /\ \A s \in {clients, cards, grid} : s \in Slots(MaxClients) /\ IsInjective(s)
    /\ before \subseteq Clients

(* Card objects and card slots correspond: no object leaks, none dangles,   *)
(* and every one belongs to a client of the latest paint.                   *)
GridMirrorsCards == ToSet(grid) = ToSet(cards) /\ ToSet(cards) \subseteq before

(* A paint that finds no newcomer leaves no client without a card: those a  *)
(* full array turned away catch up.                                         *)
QuietPaintShows ==
    [][PaintGrid /\ before' \subseteq before => before' \subseteq ToSet(cards')]_gridVars

(* With a card for each client, the hosts of KPIDASH_PRIORITY_CLIENTS stand *)
(* first, in its order.                                                     *)
PriorityLeads ==
    ToSet(grid) = before =>
        \A i, j \in DOMAIN grid :
            i < j /\ PriorityIndex(grid[j]) > 0 =>
                PriorityIndex(grid[i]) \in 1 .. PriorityIndex(grid[j])
=============================================================================
