------------------------- MODULE StatusQueueProofs -------------------------
(***************************************************************************)
(* The ring of status messages, of any length, is a queue.                 *)
(***************************************************************************)
EXTENDS StatusQueue, TLAPS

(* Cursors wrap at most once. *)
LEMMA Wrap ==
    ASSUME NEW a \in Slots, NEW b \in 0 .. QueueMax
    PROVE  /\ (a + b) % QueueMax =
                IF a + b < QueueMax THEN a + b ELSE a + b - QueueMax
           /\ (a + b) % QueueMax \in Slots
BY StatusConstants DEF Slots

LEMMA NoWrap == ASSUME NEW a \in Slots PROVE a % QueueMax = a
BY StatusConstants DEF Slots

(* A sequence with one more element at its end, or one less at its start.   *)
LEMMA IsAppend ==
    ASSUME NEW S, NEW n \in Nat, NEW s \in [1 .. n -> S],
           NEW x \in S, NEW t \in [1 .. n + 1 -> S],
           \A i \in 1 .. n : t[i] = s[i], t[n + 1] = x
    PROVE  t = Append(s, x)
<1>1. s \in Seq(S) /\ Len(s) = n
  OBVIOUS
<1>2. /\ Append(s, x) \in Seq(S) /\ Len(Append(s, x)) = n + 1
      /\ \A i \in 1 .. n : Append(s, x)[i] = s[i]
      /\ Append(s, x)[n + 1] = x
  BY <1>1
<1>3. t \in Seq(S) /\ Len(t) = n + 1
  OBVIOUS
<1>4. \A i \in 1 .. n + 1 : i \in 1 .. n \/ i = n + 1
  OBVIOUS
<1>5. \A i \in 1 .. n + 1 : t[i] = Append(s, x)[i]
  BY <1>2, <1>4
<1>6. QED  BY <1>2, <1>3, <1>5

LEMMA IsTail ==
    ASSUME NEW S, NEW n \in Nat \ {0}, NEW s \in [1 .. n -> S],
           NEW t \in [1 .. n - 1 -> S],
           \A i \in 1 .. n - 1 : t[i] = s[i + 1]
    PROVE  t = Tail(s)
<1>1. s \in Seq(S) /\ Len(s) = n /\ s # <<>>
  OBVIOUS
<1>2. /\ Tail(s) \in Seq(S) /\ Len(Tail(s)) = n - 1
      /\ \A i \in 1 .. n - 1 : Tail(s)[i] = s[i + 1]
  BY <1>1
<1>3. t \in Seq(S) /\ Len(t) = n - 1
  OBVIOUS
<1>4. QED  BY <1>2, <1>3

LEMMA TypeInit == Init => TypeOK
<1>1. (0 + 0) % QueueMax = 0 /\ 0 \in Slots
  BY Wrap, StatusConstants DEF Slots
<1>2. QED  BY <1>1, StatusConstants DEF Init, TypeOK

(* Where the cursors are after a message came or went. *)
LEMMA CursorStored ==
    ASSUME TypeOK, NEW m \in Messages, Store(m)
    PROVE  /\ count \in Nat /\ count < QueueMax /\ count' = count + 1
           /\ tail \in Slots /\ tail' \in Slots
           /\ tail' = (head + count') % QueueMax
           /\ slots' = [slots EXCEPT ![tail] = m]
<1>1. /\ count \in 0 .. QueueMax /\ count < QueueMax /\ count' = count + 1
      /\ tail' = (tail + 1) % QueueMax /\ tail = (head + count) % QueueMax
      /\ tail \in Slots /\ head \in Slots
      /\ slots' = [slots EXCEPT ![tail] = m]
  BY DEF Store, TypeOK
<1>2. 1 \in 0 .. QueueMax /\ count + 1 \in 0 .. QueueMax
  BY <1>1, StatusConstants
<1>3. /\ (tail + 1) % QueueMax =
           IF tail + 1 < QueueMax THEN tail + 1 ELSE tail + 1 - QueueMax
      /\ (tail + 1) % QueueMax \in Slots
  BY <1>1, <1>2, Wrap
<1>4. (head + count) % QueueMax =
        IF head + count < QueueMax THEN head + count ELSE head + count - QueueMax
  BY <1>1, Wrap
<1>5. (head + (count + 1)) % QueueMax =
        IF head + (count + 1) < QueueMax THEN head + (count + 1)
        ELSE head + (count + 1) - QueueMax
  BY <1>1, <1>2, Wrap
<1>6. tail' = (head + (count + 1)) % QueueMax
  BY <1>1, <1>3, <1>4, <1>5, StatusConstants DEF Slots
<1>7. QED  BY <1>1, <1>3, <1>6

LEMMA CursorTaken ==
    ASSUME TypeOK, CheckAck
    PROVE  /\ count \in Nat /\ count > 0 /\ count' = count - 1
           /\ count' \in 0 .. QueueMax
           /\ head' = (head + 1) % QueueMax
           /\ head' = IF head + 1 < QueueMax THEN head + 1 ELSE 0
           /\ head' \in Slots
           /\ tail' = (head' + count') % QueueMax
<1>1. /\ count \in 0 .. QueueMax /\ count > 0 /\ count' = count - 1
      /\ head' = (head + 1) % QueueMax /\ tail' = tail
      /\ tail = (head + count) % QueueMax /\ head \in Slots
  BY DEF CheckAck, TypeOK
<1>2. /\ 1 \in 0 .. QueueMax /\ count - 1 \in 0 .. QueueMax
  BY <1>1, StatusConstants
<1>3. /\ (head + 1) % QueueMax =
           IF head + 1 < QueueMax THEN head + 1 ELSE head + 1 - QueueMax
      /\ (head + 1) % QueueMax \in Slots
  BY <1>1, <1>2, Wrap
<1>4. (head + count) % QueueMax =
        IF head + count < QueueMax THEN head + count ELSE head + count - QueueMax
  BY <1>1, Wrap
<1>5. (head' + (count - 1)) % QueueMax =
        IF head' + (count - 1) < QueueMax THEN head' + (count - 1)
        ELSE head' + (count - 1) - QueueMax
  BY <1>1, <1>2, <1>3, Wrap
<1>6. tail' = (head' + (count - 1)) % QueueMax
  BY <1>1, <1>3, <1>4, <1>5, StatusConstants DEF Slots
<1>7. head' = IF head + 1 < QueueMax THEN head + 1 ELSE 0
  BY <1>1, <1>3, StatusConstants DEF Slots
<1>8. QED  BY <1>1, <1>2, <1>3, <1>6, <1>7

LEMMA TypeStep == TypeOK /\ [Next]_vars => TypeOK'
<1> SUFFICES ASSUME TypeOK, [Next]_vars PROVE TypeOK'
  OBVIOUS
<1>1. CASE Push
  <2>1. /\ pushes' = pushes + 1 /\ pushes < MaxPushes /\ Store(pushes')
        /\ bar' \in {pushes', bar}
        /\ UNCHANGED <<head, current, acks>>
    BY <1>1 DEF Push
  <2>2. pushes' \in Messages /\ pushes' \in 0 .. MaxPushes
    BY <2>1, StatusConstants DEF TypeOK, Messages
  <2>3. /\ count' \in 0 .. QueueMax /\ tail' \in Slots
        /\ tail' = (head' + count') % QueueMax
        /\ slots' = [slots EXCEPT ![tail] = pushes']
    BY <2>1, <2>2, CursorStored, StatusConstants DEF TypeOK
  <2>4. slots' \in [Slots -> Messages \cup {None}]
    BY <2>2, <2>3 DEF TypeOK
  <2>5. QED  BY <2>1, <2>2, <2>3, <2>4 DEF TypeOK
<1>2. CASE PushDropped
  BY <1>2, StatusConstants DEF TypeOK, PushDropped, queueVars
<1>3. CASE CheckAck
  <2>1. /\ slots' = slots /\ pushes' = pushes
        /\ acks' \subseteq acks /\ bar' \in {None, slots[head']}
        /\ current' \in {bar', current}
    BY <1>3 DEF CheckAck
  <2>2. bar' \in Messages \cup {None}
    BY <1>3, <2>1, CursorTaken DEF TypeOK
  <2>3. acks' \subseteq Messages /\ current' \in Messages \cup {None}
    BY <2>1, <2>2 DEF TypeOK
  <2>4. tail' \in Slots
    BY <1>3 DEF TypeOK, CheckAck
  <2>5. /\ head' \in Slots /\ count' \in 0 .. QueueMax
        /\ tail' = (head' + count') % QueueMax
    BY <1>3, CursorTaken
  <2>6. /\ slots' \in [Slots -> Messages \cup {None}]
        /\ pushes' \in 0 .. MaxPushes
    BY <2>1 DEF TypeOK
  <2>7. QED  BY <2>2, <2>3, <2>4, <2>5, <2>6 DEF TypeOK
<1>4. ASSUME NEW m \in Messages, Ack(m) \/ AckExpires(m) PROVE TypeOK'
  BY <1>4 DEF TypeOK, Ack, AckExpires, queueVars
<1>5. CASE Restart
  <2>1. (0 + 0) % QueueMax = 0 /\ 0 \in Slots
    BY Wrap, StatusConstants DEF Slots
  <2>2. QED  BY <1>5, <2>1, StatusConstants DEF TypeOK, Restart
<1>6. CASE UNCHANGED vars
  BY <1>6 DEF TypeOK, vars, queueVars
<1>7. QED  BY <1>1, <1>2, <1>3, <1>4, <1>5, <1>6 DEF Next

(* The cursors of the ring agree in every state, whatever its length. *)
THEOREM TypeCorrect == Spec => []TypeOK
BY TypeInit, TypeStep, PTL DEF Spec

-----------------------------------------------------------------------------
(* The messages in the ring.                                                *)

(* The i-th place of the queue is a slot, and the places differ. *)
LEMMA Places ==
    ASSUME NEW h \in Slots, NEW i \in 1 .. QueueMax
    PROVE  /\ (h + i - 1) % QueueMax =
                IF h + i - 1 < QueueMax THEN h + i - 1 ELSE h + i - 1 - QueueMax
           /\ (h + i - 1) % QueueMax \in Slots
<1>1. i - 1 \in 0 .. QueueMax /\ h + (i - 1) = h + i - 1
  BY StatusConstants DEF Slots
<1>2. QED  BY <1>1, Wrap

QueueInv ==
    /\ BarShowsHead
    /\ \A i \in 1 .. count : Queued[i] \in 1 .. pushes

(* What a message that is stored does to the queue. *)
LEMMA QueueStored ==
    ASSUME TypeOK, NEW m \in Messages, Store(m), head' = head
    PROVE  /\ DOMAIN Queued = 1 .. count /\ DOMAIN Queued' = 1 .. count + 1
           /\ \A i \in 1 .. count : Queued'[i] = Queued[i]
           /\ Queued'[count + 1] = m
<1>1. /\ head \in Slots /\ count \in Nat /\ count < QueueMax
      /\ count' = count + 1 /\ tail \in Slots
      /\ slots' = [slots EXCEPT ![tail] = m] /\ DOMAIN slots = Slots
      /\ tail = (head + count) % QueueMax
  BY CursorStored DEF TypeOK
<1>2. /\ DOMAIN Queued = 1 .. count /\ DOMAIN Queued' = 1 .. count + 1
      /\ \A i \in 1 .. count + 1 : Queued'[i] = slots'[(head + i - 1) % QueueMax]
      /\ \A i \in 1 .. count : Queued[i] = slots[(head + i - 1) % QueueMax]
  BY <1>1 DEF Queued
<1>3. /\ count + 1 \in 1 .. QueueMax
      /\ head + (count + 1) - 1 = head + count
  BY <1>1, StatusConstants DEF Slots
<1>4. Queued'[count + 1] = m
  <2>1. Queued'[count + 1] = slots'[(head + (count + 1) - 1) % QueueMax]
    BY <1>1, <1>2
  <2>2. QED  BY <1>1, <1>3, <2>1
<1>5. ASSUME NEW i \in 1 .. count
      PROVE  Queued'[i] = Queued[i]
  <2>1. i \in 1 .. QueueMax /\ i \in 1 .. count + 1 /\ i # count + 1
    BY <1>1, StatusConstants
  <2>2. /\ (head + i - 1) % QueueMax =
             IF head + i - 1 < QueueMax THEN head + i - 1
             ELSE head + i - 1 - QueueMax
        /\ (head + i - 1) % QueueMax \in Slots
    BY <1>1, <2>1, Places
  <2>3. (head + count) % QueueMax =
          IF head + count < QueueMax THEN head + count
          ELSE head + count - QueueMax
    <3>1. count \in 0 .. QueueMax
      BY <1>1, StatusConstants
    <3>2. QED  BY <1>1, <3>1, Wrap
  <2>4. (head + i - 1) % QueueMax # tail
    BY <1>1, <2>1, <2>2, <2>3, StatusConstants DEF Slots
  <2>5. QED  BY <1>1, <1>2, <2>1, <2>2, <2>4
<1>6. QED  BY <1>2, <1>4, <1>5

(* What taking the head does to the queue. *)
LEMMA QueueTaken ==
    ASSUME TypeOK, CheckAck
    PROVE  /\ DOMAIN Queued = 1 .. count /\ DOMAIN Queued' = 1 .. count - 1
           /\ count \in Nat /\ count > 0
           /\ \A i \in 1 .. count - 1 : Queued'[i] = Queued[i + 1]
           /\ Queued[1] = slots[head]
           /\ count > 1 => Queued[2] = slots[head']
<1>1. /\ head \in Slots /\ head' \in Slots /\ slots' = slots
      /\ count \in Nat /\ count > 0 /\ count <= QueueMax /\ count' = count - 1
      /\ head' = IF head + 1 < QueueMax THEN head + 1 ELSE 0
  BY CursorTaken, StatusConstants DEF CheckAck, TypeOK
<1>2. /\ DOMAIN Queued = 1 .. count /\ DOMAIN Queued' = 1 .. count - 1
      /\ \A i \in 1 .. count - 1 :
            Queued'[i] = slots[(head' + i - 1) % QueueMax]
      /\ \A i \in 1 .. count : Queued[i] = slots[(head + i - 1) % QueueMax]
  BY <1>1 DEF Queued
<1>3. ASSUME NEW i \in 1 .. count - 1
      PROVE  (head' + i - 1) % QueueMax = (head + (i + 1) - 1) % QueueMax
  <2>1. i \in 1 .. QueueMax /\ i + 1 \in 1 .. QueueMax
    BY <1>1, StatusConstants
  <2>2. (head' + i - 1) % QueueMax =
          IF head' + i - 1 < QueueMax THEN head' + i - 1
          ELSE head' + i - 1 - QueueMax
    BY <1>1, <2>1, Places
  <2>3. (head + (i + 1) - 1) % QueueMax =
          IF head + (i + 1) - 1 < QueueMax THEN head + (i + 1) - 1
          ELSE head + (i + 1) - 1 - QueueMax
    BY <1>1, <2>1, Places
  <2>4. QED  BY <1>1, <2>1, <2>2, <2>3, StatusConstants DEF Slots
<1>4. \A i \in 1 .. count - 1 : i + 1 \in 1 .. count
  BY <1>1
<1>5. \A i \in 1 .. count - 1 : Queued'[i] = Queued[i + 1]
  BY <1>2, <1>3, <1>4
<1>6. (head + 1 - 1) % QueueMax = head
  <2>1. head + 1 - 1 = head
    BY <1>1, StatusConstants DEF Slots
  <2>2. QED  BY <1>1, <2>1, NoWrap
<1>7. Queued[1] = slots[head]
  BY <1>1, <1>2, <1>6
<1>8. ASSUME count > 1 PROVE Queued[2] = slots[head']
  <2>1. 2 \in 1 .. QueueMax /\ 2 \in 1 .. count /\ head + 2 - 1 = head + 1
    BY <1>1, <1>8, StatusConstants DEF Slots
  <2>2. (head + 2 - 1) % QueueMax = head'
    BY <1>1, <2>1, Places, StatusConstants DEF Slots
  <2>3. QED  BY <1>2, <2>1, <2>2
<1>9. QED  BY <1>1, <1>2, <1>5, <1>7, <1>8

-----------------------------------------------------------------------------
(* The bar, and the refinement. *)

LEMMA QueueInit == Init => QueueInv
BY DEF Init, QueueInv, BarShowsHead

LEMMA QueueStep == TypeOK /\ QueueInv /\ [Next]_vars => QueueInv'
<1> SUFFICES ASSUME TypeOK, QueueInv, [Next]_vars PROVE QueueInv'
  OBVIOUS
<1> USE DEF QueueInv, BarShowsHead
<1>1. ASSUME UNCHANGED <<slots, head, count, bar>>, pushes' \in {pushes, pushes + 1}
      PROVE  QueueInv'
  <2>1. Queued' = Queued
    BY <1>1 DEF Queued
  <2>2. \A i \in 1 .. pushes : i \in 1 .. pushes'
    BY <1>1 DEF TypeOK
  <2>3. QED  BY <1>1, <2>1, <2>2
<1>2. CASE Push
  <2>1. /\ pushes' = pushes + 1 /\ pushes \in Nat /\ Store(pushes')
        /\ bar' = IF count' = 1 THEN pushes' ELSE bar
        /\ head' = head /\ pushes' \in Messages
    BY <1>2, StatusConstants DEF Push, TypeOK, Messages
  <2>2. /\ DOMAIN Queued' = 1 .. count + 1
        /\ \A i \in 1 .. count : Queued'[i] = Queued[i]
        /\ Queued'[count + 1] = pushes'
    BY <2>1, QueueStored
  <2>3. /\ count \in Nat /\ count < QueueMax /\ count' = count + 1
        /\ slots' = [slots EXCEPT ![tail] = pushes']
        /\ tail \in Slots /\ head \in Slots /\ DOMAIN slots = Slots
        /\ tail = (head + count) % QueueMax
    BY <2>1, CursorStored DEF TypeOK
  <2>4. \A i \in 1 .. count' : Queued'[i] \in 1 .. pushes'
    <3>1. \A i \in 1 .. count : Queued'[i] \in 1 .. pushes + 1
      BY <2>1, <2>2
    <3>2. Queued'[count + 1] \in 1 .. pushes + 1
      BY <2>1, <2>2
    <3>3. \A i \in 1 .. count + 1 : i \in 1 .. count \/ i = count + 1
      BY <2>3
    <3>4. QED  BY <2>1, <2>3, <3>1, <3>2, <3>3
  <2>5. tail = IF head + count < QueueMax THEN head + count
               ELSE head + count - QueueMax
    <3>1. count \in 0 .. QueueMax
      BY <2>3, StatusConstants
    <3>2. QED  BY <2>3, <3>1, Wrap
  <2>6. CASE count = 0
    <3>1. tail = head
      BY <2>3, <2>5, <2>6, StatusConstants DEF Slots
    <3>2. count' # 0 /\ bar' = pushes' /\ slots'[head'] = pushes'
      BY <2>1, <2>3, <2>6, <3>1
    <3>3. QED  BY <2>4, <3>2
  <2>7. CASE count # 0
    <3>1. tail # head
      BY <2>3, <2>5, <2>7, StatusConstants DEF Slots
    <3>2. bar' = slots[head] /\ slots'[head'] = slots[head] /\ count' # 0
      BY <2>1, <2>3, <2>7, <3>1
    <3>3. QED  BY <2>4, <3>2
  <2>8. QED  BY <2>6, <2>7
<1>3. CASE PushDropped
  BY <1>1, <1>3 DEF PushDropped, queueVars
<1>4. CASE CheckAck
  <2>1. /\ bar' = (IF count' = 0 THEN None ELSE slots[head'])
        /\ slots' = slots /\ pushes' = pushes /\ count' = count - 1
    BY <1>4 DEF CheckAck
  <2>2. \A i \in 1 .. count - 1 :
          Queued'[i] = Queued[i + 1] /\ i + 1 \in 1 .. count
    BY <1>4, QueueTaken
  <2>3. QED  BY <2>1, <2>2
<1>5. ASSUME NEW m \in Messages, Ack(m) \/ AckExpires(m) PROVE QueueInv'
  BY <1>1, <1>5 DEF Ack, AckExpires, queueVars
<1>6. CASE Restart
  BY <1>6 DEF Restart
<1>7. CASE UNCHANGED vars
  BY <1>1, <1>7 DEF vars, queueVars
<1>8. QED  BY <1>2, <1>3, <1>4, <1>5, <1>6, <1>7 DEF Next

LEMMA QueueHolds == Spec => [](TypeOK /\ QueueInv)
BY TypeCorrect, QueueInit, QueueStep, PTL DEF Spec

(* The message on the bar is the one an ack would dismiss. *)
THEOREM BarCorrect == Spec => []BarShowsHead
<1>1. QueueInv => BarShowsHead
  BY DEF QueueInv
<1>2. QED  BY <1>1, QueueHolds, PTL

LEMMA QueuedType ==
    ASSUME TypeOK PROVE Queued \in [1 .. count -> Messages \cup {None}]
<1>1. ASSUME NEW i \in 1 .. count PROVE (head + i - 1) % QueueMax \in Slots
  <2>1. head \in Slots /\ i \in 1 .. QueueMax
    BY StatusConstants DEF TypeOK
  <2>2. QED  BY <2>1, Places
<1>2. QED  BY <1>1 DEF Queued, TypeOK

(* Every step of the ring is a step of the queue, or none. *)
LEMMA StepRefines ==
    ASSUME TypeOK, QueueInv, [Next]_vars
    PROVE  [Fifo!Next]_(Fifo!vars)
<1>1. ASSUME UNCHANGED <<slots, head, count, acks>>
      PROVE  UNCHANGED Fifo!vars
  BY <1>1 DEF Fifo!vars, Queued
<1>2. CASE Push
  <2>1. /\ pushes' = pushes + 1 /\ pushes \in Nat /\ Store(pushes')
        /\ head' = head /\ acks' = acks /\ pushes' \in Messages
    BY <1>2, StatusConstants DEF Push, TypeOK, Messages
  <2>2. /\ DOMAIN Queued = 1 .. count /\ DOMAIN Queued' = 1 .. count + 1
        /\ \A i \in 1 .. count : Queued'[i] = Queued[i]
        /\ Queued'[count + 1] = pushes'
        /\ count \in Nat /\ count < QueueMax
    BY <2>1, QueueStored, CursorStored
  <2>3. \A i \in 1 .. count : Queued[i] \in 1 .. pushes
    BY DEF QueueInv
  <2>4. Len(Queued) = count
    BY <2>2 DEF Queued
  <2>5. Queued' = Append(Queued, pushes')
    <3>1. Queued \in [1 .. count -> Messages \cup {None}]
      BY <2>2, QueuedType
    <3>2. Queued' \in [1 .. count + 1 -> Messages \cup {None}]
      <4>1. \A i \in 1 .. count + 1 : i \in 1 .. count \/ i = count + 1
        BY <2>2
      <4>2. \A i \in 1 .. count + 1 : Queued'[i] \in Messages \cup {None}
        BY <2>1, <2>2, <3>1, <4>1
      <4>3. Queued' = [i \in 1 .. count + 1 |-> Queued'[i]]
        BY <2>2 DEF Queued
      <4>4. QED  BY <4>2, <4>3
    <3>3. QED  BY <2>1, <2>2, <3>1, <3>2, IsAppend
  <2>6. pushes' \notin {Queued[i] : i \in 1 .. Len(Queued)}
    BY <2>1, <2>3, <2>4
  <2>7. Fifo!Raise(pushes')
    BY <2>1, <2>2, <2>4, <2>5, <2>6 DEF Fifo!Raise
  <2>8. QED  BY <2>1, <2>7 DEF Fifo!Next
<1>3. CASE PushDropped
  BY <1>1, <1>3 DEF PushDropped, queueVars
<1>4. CASE CheckAck
  <2>1. /\ DOMAIN Queued = 1 .. count /\ DOMAIN Queued' = 1 .. count - 1
        /\ count \in Nat /\ count > 0
        /\ \A i \in 1 .. count - 1 : Queued'[i] = Queued[i + 1]
        /\ Queued[1] = slots[head]
    BY <1>4, QueueTaken
  <2>2. Queued # <<>> /\ Head(Queued) = slots[head] /\ Len(Queued) = count
    BY <2>1 DEF Queued
  <2>3. Queued' = Tail(Queued)
    <3>1. Queued \in [1 .. count -> Messages \cup {None}]
      BY <2>1, QueuedType
    <3>2. \A i \in 1 .. count - 1 : i + 1 \in 1 .. count
      BY <2>1
    <3>3. Queued' \in [1 .. count - 1 -> Messages \cup {None}]
      BY <2>1, <3>1, <3>2 DEF Queued
    <3>4. count \in Nat \ {0}
      BY <2>1
    <3>5. QED  BY <2>1, <3>1, <3>3, <3>4, IsTail
  <2>4. slots[head] \in acks /\ acks' \in {acks, acks \ {slots[head]}}
    BY <1>4 DEF CheckAck
  <2>5. Fifo!Dismiss
    BY <2>2, <2>3, <2>4 DEF Fifo!Dismiss
  <2>6. QED  BY <2>5 DEF Fifo!Next
<1>5. ASSUME NEW m \in Messages, Ack(m) \/ AckExpires(m)
      PROVE  Fifo!Next
  <2>1. acks' \in SUBSET Messages /\ UNCHANGED Queued
    BY <1>5 DEF Ack, AckExpires, queueVars, TypeOK, Queued
  <2>2. QED  BY <2>1 DEF Fifo!Next, Fifo!Acknowledge
<1>6. CASE Restart
  <2>1. count' = 0 /\ acks' = acks
    BY <1>6 DEF Restart
  <2>2. Queued' = <<>>
    BY <2>1 DEF Queued
  <2>3. QED  BY <2>1, <2>2 DEF Fifo!Next, Fifo!Forget
<1>7. CASE UNCHANGED vars
  BY <1>1, <1>7 DEF vars, queueVars
<1>8. QED  BY <1>2, <1>3, <1>4, <1>5, <1>6, <1>7 DEF Next

(* The ring implements the queue of StatusFifo. *)
THEOREM RingIsFifo == Spec => FifoSpec
<1>1. Init => Fifo!Init
  BY DEF Init, Fifo!Init, Queued
<1>2. TypeOK /\ QueueInv /\ [Next]_vars => [Fifo!Next]_(Fifo!vars)
  BY StepRefines
<1>3. QED  BY <1>1, <1>2, QueueHolds, PTL DEF Spec, FifoSpec, Fifo!Spec
=============================================================================
