------------------------------ MODULE GraphPool ------------------------------
(***************************************************************************)
(* The rows below the client cards (src/registry.c, src/ui.c): one graph   *)
(* for each host that publishes fast telemetry, and the network card,      *)
(* placed by layout_pool_place into a pool of cells.  Graph widgets belong *)
(* to a table of series that a poll fills and the paint evicts from.       *)
(***************************************************************************)
EXTENDS Integers, FiniteSets, FiniteSetsExt, Sequences, SequencesExt, Tables,
        Lists

CONSTANTS
    GraphHosts,    \* host names, numbered in name order
    GraphMax,      \* GRAPH_HOST_MAX
    EvictAfter,    \* GRAPH_HOST_EVICT_SECONDS
    GraphCells,    \* WIDGET_CELLS_GRAPH
    NetCells,      \* WIDGET_CELLS_NETCARD
    Columns,       \* COLS
    Capacity,      \* LAYOUT_POOL_CAPACITY_CELLS
    NetCard,       \* the network card
    Hidden         \* LV_OBJ_FLAG_HIDDEN: at no place

ASSUME PoolConstants ==
    /\ GraphHosts \subseteq Nat /\ IsFiniteSet(GraphHosts)
    /\ NetCard \notin GraphHosts /\ Hidden \notin Nat
    /\ GraphMax \in Nat \ {0} /\ EvictAfter \in Nat \ {0}
    /\ GraphCells = NetCells /\ GraphCells \in Nat \ {0}
    /\ Columns \in Nat \ {0} /\ Columns % GraphCells = 0
    /\ Capacity \in Nat /\ Capacity % Columns = 0

VARIABLES
    series,    \* g_graph_hosts: host -> seconds since its last sample
    owners,    \* hosts whose series has a widget
    places,    \* the widgets on the screen: host -> first cell, or Hidden
    netPlace,  \* that of the network card
    disabled,  \* hosts whose graph the dev commands of the poll disable
    asked      \* what the latest paint asked the pool to place

poolVars == <<series, owners, places, netPlace, disabled, asked>>

PoolInit ==
    /\ series = EmptyTable /\ owners = {} /\ places = EmptyTable
    /\ netPlace = Hidden /\ disabled = {} /\ asked = {}

-----------------------------------------------------------------------------
(* Steps 7 and 8 of redis_poll, d seconds after the last: the commands,     *)
(* then the telemetry of each host; a full table turns newcomers away.      *)
PollGraphs(sampled, off, d) ==
    LET new  == sampled \ DOMAIN series
        room == GraphMax - Cardinality(DOMAIN series)
    IN  \E added \in kSubset(Min({room, Cardinality(new)}), new) :
        /\ series' = [h \in DOMAIN series \cup added |->
                         IF h \in sampled THEN 0
                         ELSE Min({series[h] + d, EvictAfter})]
        /\ disabled' = off
        /\ UNCHANGED <<owners, places, netPlace, asked>>

-----------------------------------------------------------------------------
(* layout_pool_place: a stable sort by kind, then each request that fits    *)
(* what is left of the capacity.  One that does not is dropped, and the     *)
(* next is tried.                                                           *)

Graph(h) == [kind |-> 0, cells |-> GraphCells, payload |-> h]
Net == [kind |-> 4, cells |-> NetCells, payload |-> NetCard]

OfKind(requests, k) == Within(requests, {r \in ToSet(requests) : r.kind = k})

ByKind(requests) == OfKind(requests, 0) \o OfKind(requests, 4)

AddCells(n, r) == n + r.cells
Used(placed) == FoldLeft(AddCells, 0, placed)

(* Mutant: the last cells are never given away. *)
FitsStrictly(used, r) == used + r.cells < Capacity

Fits(used, r) == used + r.cells <= Capacity

Place(placed, r) == IF Fits(Used(placed), r) THEN Append(placed, r) ELSE placed
LayoutPool(requests) == FoldLeft(Place, <<>>, ByKind(requests))

(* The first cell of the next widget: on a new row if it would not fit.     *)
NextFree(cursor, r) ==
    IF (cursor % Columns) + r.cells > Columns
    THEN (cursor \div Columns + 1) * Columns
    ELSE cursor

(* Cells are counted from the first column of the first row of the pool.    *)
Allocate(acc, r) ==
    LET cell == NextFree(acc.cursor, r)
    IN  [cursor |-> cell + r.cells, at |-> Append(acc.at, cell)]
Allocated(placed) == FoldLeft(Allocate, [cursor |-> 0, at |-> <<>>], placed).at

-----------------------------------------------------------------------------
(* The paint. *)

Requests(hosts) ==
    LET names == Ascending(hosts)
    IN  Append([i \in DOMAIN names |-> Graph(names[i])], Net)

(* Where each placed widget stands. *)
Arrangement(placed) ==
    LET at == Allocated(placed)
    IN  [x \in {placed[i].payload : i \in DOMAIN placed} |->
            at[CHOOSE i \in DOMAIN placed : placed[i].payload = x]]

(* Mutants: a widget the pool dropped keeps its place; an evicted series    *)
(* leaves its widget.                                                       *)
PaintGraphsKeepsDropped ==
    LET fresh == {h \in DOMAIN series : series[h] < EvictAfter}
        spot  == Arrangement(LayoutPool(Requests(fresh \ disabled)))
    IN  /\ series' = Rows(series, fresh)
        /\ owners' = (owners \cap fresh) \cup (DOMAIN spot \ {NetCard})
        /\ places' = [h \in owners' |-> IF h \in DOMAIN spot THEN spot[h] ELSE places[h]]
        /\ netPlace' = IF NetCard \in DOMAIN spot THEN spot[NetCard] ELSE Hidden
        /\ asked' = (fresh \ disabled) \cup {NetCard}
        /\ UNCHANGED disabled
PaintGraphsLeaks ==
    LET fresh == {h \in DOMAIN series : series[h] < EvictAfter}
        spot  == Arrangement(LayoutPool(Requests(fresh \ disabled)))
    IN  /\ series' = Rows(series, fresh)
        /\ owners' = (owners \cap fresh) \cup (DOMAIN spot \ {NetCard})
        /\ places' = [h \in owners' \cup DOMAIN places |->
                         IF h \in DOMAIN spot THEN spot[h] ELSE Hidden]
        /\ netPlace' = IF NetCard \in DOMAIN spot THEN spot[NetCard] ELSE Hidden
        /\ asked' = (fresh \ disabled) \cup {NetCard}
        /\ UNCHANGED disabled

(* ui_refresh: series without a sample for too long go, with their widgets; *)
(* the rest is placed, and what finds no place is hidden.                   *)
PaintGraphs ==
    LET fresh == {h \in DOMAIN series : series[h] < EvictAfter}
        spot  == Arrangement(LayoutPool(Requests(fresh \ disabled)))
    IN  /\ series' = Rows(series, fresh)
        /\ owners' = (owners \cap fresh) \cup (DOMAIN spot \ {NetCard})
        /\ places' = [h \in owners' |-> IF h \in DOMAIN spot THEN spot[h] ELSE Hidden]
        /\ netPlace' = IF NetCard \in DOMAIN spot THEN spot[NetCard] ELSE Hidden
        /\ asked' = (fresh \ disabled) \cup {NetCard}
        /\ UNCHANGED disabled

PoolRestart ==
    /\ series' = EmptyTable /\ owners' = {} /\ places' = EmptyTable
    /\ netPlace' = Hidden /\ disabled' = {} /\ asked' = {}

-----------------------------------------------------------------------------
(* Properties. *)

Cells == 0 .. Capacity - 1

PoolTypeOK ==
    /\ DOMAIN series \subseteq GraphHosts
    /\ Cardinality(DOMAIN series) <= GraphMax
    /\ \A h \in DOMAIN series : series[h] \in 0 .. EvictAfter
    /\ owners \subseteq GraphHosts
    /\ \A h \in DOMAIN places : places[h] \in Nat \cup {Hidden}
    /\ netPlace \in Nat \cup {Hidden}
    /\ disabled \subseteq GraphHosts /\ asked \subseteq GraphHosts \cup {NetCard}

Taken(place, size) == IF place = Hidden THEN {} ELSE place .. place + size - 1

(* The cells that a widget covers. *)
Area(x) ==
    IF x = NetCard THEN Taken(netPlace, NetCells) ELSE Taken(places[x], GraphCells)

(* No two widgets cover one cell, no widget sticks out of its row or of the *)
(* pool, whatever is dropped, disabled or evicted while others keep their   *)
(* widgets.                                                                 *)
NoOverlap ==
    \A x \in DOMAIN places \cup {NetCard} :
        /\ Area(x) \subseteq Cells
        /\ \A c, d \in Area(x) : c \div Columns = d \div Columns
        /\ \A y \in (DOMAIN places \cup {NetCard}) \ {x} : Area(x) \cap Area(y) = {}

(* The widgets on the screen are those the series own, and every owner is   *)
(* in the table: an evicted host leaves neither widget nor pointer.         *)
WidgetsOwned == DOMAIN places = owners /\ owners \subseteq DOMAIN series

(* Graphs stand in name order, and what the paint asked for is left out     *)
(* only if no room is left for it.                                          *)
PlacedWhileRoom ==
    LET graphs == {h \in DOMAIN places : places[h] # Hidden}
        shown  == graphs \cup (IF netPlace = Hidden THEN {} ELSE {NetCard})
    IN  /\ \A g, h \in graphs : g < h => places[g] < places[h]
        /\ asked \subseteq shown \/ Capacity - GraphCells * Cardinality(shown) < GraphCells
=============================================================================
