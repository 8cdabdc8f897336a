------------------------------ MODULE NetPanel ------------------------------
(***************************************************************************)
(* One column of the panel's network card (src/netstate.c, redis_poll_net) *)
(* over the host's collector (NetHistory): the record, which expires when  *)
(* it is not renewed, the acknowledgement of a reviewed warning            *)
(* (RedisClient.ack_net), which the panel subtracts from the record, and   *)
(* the restarts of the panel.                                              *)
(***************************************************************************)
EXTENDS NetHistory

CONSTANT RecordTTL   \* EX of kdash:net:{host}

ASSUME PanelConstants == RecordTTL \in Nat \ {0}

VARIABLES
    ack,       \* kdash:net:ack:{host}: [lfc, ts], and seen, the time of the
               \* record it was read from; or None
    reading,   \* lfc and ts of the record an acker has read, or None
    column     \* how the host's column looks: see Attention; "nofeed" until
               \* the host is net-admitted

panelVars == <<ack, reading, column>>
vars == <<historyVars, panelVars>>

Init ==
    /\ HistoryInit
    /\ ack = None /\ reading = None /\ column = "nofeed"

(* What Redis answers: keys past their EX are gone. *)
LiveRecord == IF record # None /\ now - record.ts < RecordTTL THEN record ELSE None
LiveAck == IF ack # None /\ now - ack.ts < Day THEN ack ELSE None

-----------------------------------------------------------------------------
(* kpidash-client net ack: it reads the live record, *)
AckRead ==
    /\ LiveRecord # None /\ reading = None
    /\ reading' = [lfc |-> record.lfc, ts |-> record.ts]
    /\ UNCHANGED <<historyVars, ack, column>>

(* Mutant: the baseline is read again from the record that is live by now.  *)
AckSetsLatest ==
    /\ reading # None
    /\ reading' = None
    /\ ack' = [lfc |-> record.lfc, ts |-> now, seen |-> reading.ts]
    /\ UNCHANGED <<historyVars, column>>

(* and sets its counter as the baseline, with the time of the SET.  *)
AckSet ==
    /\ reading # None
    /\ reading' = None
    /\ ack' = [lfc |-> reading.lfc, ts |-> now, seen |-> reading.ts]
    /\ UNCHANGED <<historyVars, column>>

-----------------------------------------------------------------------------
(* effective_delta: the rise since the baseline, if that is less; after a   *)
(* reset, the counter itself.                                               *)
EffectiveDelta(delta, lfc, base) ==
    IF delta = None THEN None
    ELSE Min({delta, IF lfc >= base THEN lfc - base ELSE lfc})

(* Mutant: a drop at the time of the ack itself still counts. *)
ApplyAckInclusive(r, a) ==
    [r EXCEPT !.delta = EffectiveDelta(r.delta, r.lfc, a.lfc),
              !.drops = Within(@, {t \in ToSet(r.drops) : t >= a.ts})]

(* net_apply_ack *)
ApplyAck(r, a) ==
    [r EXCEPT !.delta = EffectiveDelta(r.delta, r.lfc, a.lfc),
              !.drops = Within(@, {t \in ToSet(r.drops) : t > a.ts})]

(* net_column_attn of a live column, on the 10G leg and with every path.    *)
Attention(r) ==
    IF r.drops # <<>> \/ (r.delta # None /\ r.delta > 0) THEN "yellow" ELSE "calm"

(* redis_poll_net reads record and ack with one MGET: net_observe_ack, then *)
(* net_observe.  Without a record an admitted host goes stale.              *)
Poll ==
    /\ column' = IF LiveRecord = None
                 THEN IF column = "nofeed" THEN "nofeed" ELSE "stale"
                 ELSE Attention(IF LiveAck = None THEN record
                                ELSE ApplyAck(record, ack))
    /\ UNCHANGED <<historyVars, ack, reading>>

(* net_set_hosts and net_seed_admitted, with the set as last saved (module  *)
(* Admission).                                                              *)
PanelRestart ==
    /\ column' = IF column = "nofeed" THEN "nofeed" ELSE "stale"
    /\ UNCHANGED <<historyVars, ack, reading>>

(* The acker's two commands are near one another: redis_client.py gives      *)
(* each some seconds.                                                       *)
Around == HistoryNext /\ (reading # None => now' - reading.ts <= RecordTTL)

Next ==
    \/ Around /\ UNCHANGED panelVars
    \/ AckRead \/ AckSet \/ Poll \/ PanelRestart

Spec == Init /\ [][Next]_vars

-----------------------------------------------------------------------------
(* Properties. *)

TypeOK ==
    /\ HistoryTypeOK
    /\ reading # None => reading.ts <= now
    /\ ack # None => ack.seen <= ack.ts /\ ack.ts <= now
    /\ column \in {"nofeed", "stale", "yellow", "calm"}

(* Rises the acker of the present ack cannot have seen. *)
Unseen == {r \in rises : LiveAck # None => r.to > ack.seen}

(* An ack hides only what its acker saw: a rise of the counter that the     *)
(* record reports and the acked record did not keeps the column yellow,     *)
(* whatever happened between reading that record and setting the ack.  The  *)
(* exceptions: resets since, at which the baseline means nothing, and the   *)
(* rises DeltaTells excepts.                                                *)
UnseenWarns ==
    [][LET due == {r \in Unseen : /\ r.watched /\ r.to <= record.ts
                                  /\ r.from >= record.ts - Day + KeepFor}
       IN  Poll /\ LiveRecord # None /\ due # {}
            /\ (masked = None \/ now - masked > Day + RecordTTL)
            /\ (LiveAck # None => resetAt < ack.seen)
           => column' # "calm"]_vars

(* An ack clears: without a rise its acker did not see, the column is calm. *)
AckClears ==
    [][Poll /\ LiveRecord # None /\ LiveAck # None /\ Unseen = {}
       => column' = "calm"]_vars
=============================================================================
