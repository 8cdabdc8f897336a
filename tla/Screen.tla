------------------------------- MODULE Screen -------------------------------
(***************************************************************************)
(* The panel's LVGL thread (timer_poll_cb in src/main.c): redis_poll, the  *)
(* other reads of the poll, and ui_refresh, in turn.  One poll feeds the   *)
(* client grid, the footer strip and the graph pool; one paint arranges    *)
(* all three; a restart forgets all three.                                 *)
(***************************************************************************)
EXTENDS CardGrid, FooterStrip, GraphPool

CONSTANT Worlds    \* which hosts, cards and scripts there are

VARIABLE world     \* those of this behaviour; it never changes

screenVars == <<stripVars, gridVars, poolVars, world>>

ScreenInit == StripInit /\ GridInit /\ PoolInit /\ world \in Worlds

(* redis_poll of the hosts S, d seconds after the last: only the command    *)
(* for all graphs disables those of other hosts.                            *)
PollHosts(S, d) ==
    /\ PollClients(S \cap Clients)
    /\ \E sampled \in SUBSET (S \cap GraphHosts),
          off \in {world \cap GraphHosts} \cup SUBSET (S \cap GraphHosts) :
            PollGraphs(sampled, off, d)

Poll ==
    /\ PollCards
    /\ \E S \in SUBSET (world \cap (Clients \cup GraphHosts)), d \in 0 .. EvictAfter :
            PollHosts(S, d)

(* The staleness walk and the evict command follow, and then ui_refresh.    *)
Evict ==
    /\ PollEvict /\ ToSet(stale') \subseteq world
    /\ UNCHANGED <<gridVars, poolVars>>

Paint == PaintStrip /\ PaintGrid /\ PaintGraphs

Restart == StripRestart /\ GridRestart /\ PoolRestart

Outside == Writers(world) /\ UNCHANGED <<gridVars, poolVars>>

ScreenNext ==
    /\ Poll \/ Evict \/ Paint \/ Restart \/ Outside
    /\ UNCHANGED world

ScreenSpec == ScreenInit /\ [][ScreenNext]_screenVars

-----------------------------------------------------------------------------
(* The types of all three parts. *)
TypeOK == StripTypeOK /\ GridTypeOK /\ PoolTypeOK
=============================================================================
