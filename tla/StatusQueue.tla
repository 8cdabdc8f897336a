---------------------------- MODULE StatusQueue ----------------------------
(***************************************************************************)
(* The status messages of src/status.c: a ring of STATUS_QUEUE_MAX slots   *)
(* filled by status_push from the LVGL thread, whose head is shown on the  *)
(* status bar, and advanced by status_redis_check_ack (step 5 of           *)
(* redis_poll) when the head's ack key exists.  The module implements      *)
(* StatusFifo.                                                             *)
(***************************************************************************)
EXTENDS Integers, Sequences, FiniteSets

CONSTANTS
    QueueMax,    \* STATUS_QUEUE_MAX
    MaxPushes,   \* bound of the model: messages pushed in its lifetime
    None         \* no message

ASSUME StatusConstants ==
    QueueMax \in Nat \ {0} /\ MaxPushes \in Nat /\ None \notin 1 .. MaxPushes

(* Messages are named by the order of their pushes: gen_id makes each       *)
(* message_id different.                                                    *)
Messages == 1 .. MaxPushes
Slots == 0 .. QueueMax - 1

VARIABLES
    slots,     \* g_queue: slot -> the message last stored there
    head,      \* g_head
    tail,      \* g_tail
    count,     \* g_count
    pushes,    \* messages pushed so far, those dropped included
    bar,       \* the message on the status bar, or None
    current,   \* kpidash:status:current
    acks       \* messages with a kpidash:status:ack key

queueVars == <<slots, head, tail, count>>
vars == <<queueVars, pushes, bar, current, acks>>

Init ==
    /\ slots = [s \in Slots |-> None] /\ head = 0 /\ tail = 0 /\ count = 0
    /\ pushes = 0
    /\ bar = None /\ current = None /\ acks = {}

(* Mutant: the limit is off by one. *)
StoreOneTooMany(m) ==
    /\ count <= QueueMax
    /\ slots' = [slots EXCEPT ![tail] = m]
    /\ tail' = (tail + 1) % QueueMax
    /\ count' = count + 1

Store(m) ==
    /\ count < QueueMax
    /\ slots' = [slots EXCEPT ![tail] = m]
    /\ tail' = (tail + 1) % QueueMax
    /\ count' = count + 1

(* status_push: the queue takes the message and shows it if it is alone.    *)
Push ==
    /\ pushes < MaxPushes
    /\ pushes' = pushes + 1
    /\ Store(pushes')
    /\ bar' = IF count' = 1 THEN pushes' ELSE bar
    /\ UNCHANGED <<head, current, acks>>

(* status_push on a full queue drops the message. *)
PushDropped ==
    /\ pushes < MaxPushes /\ count = QueueMax
    /\ pushes' = pushes + 1
    /\ UNCHANGED <<queueVars, bar, current, acks>>

(* Mutants: the bar keeps the message it showed; the head moves with no ack. *)
CheckAckKeepsBar ==
    /\ count > 0 /\ slots[head] \in acks
    /\ head' = (head + 1) % QueueMax
    /\ count' = count - 1
    /\ bar' = IF count' = 0 THEN None ELSE bar
    /\ acks' = acks \ {slots[head]}
    /\ UNCHANGED <<slots, tail, pushes, current>>
CheckAnyAck ==
    /\ count > 0 /\ acks # {}
    /\ head' = (head + 1) % QueueMax
    /\ count' = count - 1
    /\ bar' = IF count' = 0 THEN None ELSE slots[head']
    /\ acks' = acks \ {slots[head]}
    /\ UNCHANGED <<slots, tail, pushes, current>>

(* status_redis_check_ack finds the head's ack: DEL it, advance, then write *)
(* or delete status:current and repaint the bar.  Once a command fails the  *)
(* later ones are not sent.                                                 *)
CheckAck ==
    /\ count > 0 /\ slots[head] \in acks
    /\ head' = (head + 1) % QueueMax
    /\ count' = count - 1
    /\ bar' = IF count' = 0 THEN None ELSE slots[head']
    /\ \/ acks' = acks \ {slots[head]} /\ current' \in {bar', current}
       \/ UNCHANGED <<acks, current>>
    /\ UNCHANGED <<slots, tail, pushes>>

(* A client sets an ack key; Redis expires it after STATUS_ACK_TTL_S. *)
Ack(m) ==
    /\ m <= pushes /\ m \notin acks
    /\ acks' = acks \cup {m}
    /\ UNCHANGED <<queueVars, pushes, bar, current>>

AckExpires(m) ==
    /\ m \in acks
    /\ acks' = acks \ {m}
    /\ UNCHANGED <<queueVars, pushes, bar, current>>

(* The process restarts; what it left in Redis stays. *)
Restart ==
    /\ count > 0
    /\ slots' = [s \in Slots |-> None] /\ head' = 0 /\ tail' = 0 /\ count' = 0
    /\ bar' = None
    /\ UNCHANGED <<pushes, current, acks>>

Next ==
    \/ Push \/ PushDropped \/ CheckAck
    \/ \E m \in Messages : Ack(m) \/ AckExpires(m)
    \/ Restart

Spec == Init /\ [][Next]_vars

-----------------------------------------------------------------------------
(* Properties. *)

(* Every variable has its type, and the three cursors of the ring agree.    *)
TypeOK ==
    /\ slots \in [Slots -> Messages \cup {None}]
    /\ head \in Slots /\ tail \in Slots /\ count \in 0 .. QueueMax
    /\ tail = (head + count) % QueueMax
    /\ pushes \in 0 .. MaxPushes
    /\ bar \in Messages \cup {None} /\ current \in Messages \cup {None}
    /\ acks \subseteq Messages

Queued == [i \in 1 .. count |-> slots[(head + i - 1) % QueueMax]]

(* The status bar shows the message that an ack would dismiss: the oldest   *)
(* one queued.                                                              *)
BarShowsHead == bar = IF count = 0 THEN None ELSE slots[head]

(* The ring is the queue status.h describes: no message is overwritten,     *)
(* lost, repeated or dismissed out of order, whatever is pushed while acks  *)
(* arrive.                                                                  *)
Fifo == INSTANCE StatusFifo WITH waiting <- Queued, Limit <- QueueMax
FifoSpec == Fifo!Spec

(* While a message is queued, kpidash:status:current names it, so that a    *)
(* client can acknowledge it.                                               *)
CurrentNamesHead == count > 0 => current = slots[head]
=============================================================================
