----------------------------- MODULE StatusFifo -----------------------------
(***************************************************************************)
(* What src/status.c promises: warnings wait in the order they were        *)
(* raised, up to a limit beyond which a new one is dropped; the oldest is  *)
(* the one shown, and it leaves only when it is acknowledged.  A restart   *)
(* forgets them all.                                                       *)
(***************************************************************************)
EXTENDS Integers, Sequences

CONSTANTS Messages, Limit

VARIABLES
    waiting,   \* the messages raised and not acknowledged, oldest first
    acks       \* the messages acknowledged in Redis

vars == <<waiting, acks>>

Init == waiting = <<>> /\ acks = {}

Raise(m) ==
    /\ m \notin {waiting[i] : i \in 1 .. Len(waiting)}
    /\ Len(waiting) < Limit
    /\ waiting' = Append(waiting, m)
    /\ UNCHANGED acks

(* The ack key is consumed, unless the connection breaks at that moment. *)
Dismiss ==
    /\ waiting # <<>> /\ Head(waiting) \in acks
    /\ waiting' = Tail(waiting)
    /\ acks' \in {acks, acks \ {Head(waiting)}}

(* Clients set ack keys and the keys expire. *)
Acknowledge(S) == acks' = S /\ UNCHANGED waiting

Forget == waiting' = <<>> /\ UNCHANGED acks

Next ==
    \/ \E m \in Messages : Raise(m)
    \/ Dismiss
    \/ \E S \in SUBSET Messages : Acknowledge(S)
    \/ Forget

Spec == Init /\ [][Next]_vars
=============================================================================
