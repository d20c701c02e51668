--------------------------- MODULE OfiAm_proofs ---------------------------
(***************************************************************************)
(* The safety invariants of the active messages, for any ring, any staging *)
(* pool that is not larger, and any number of batches.                     *)
(***************************************************************************)
EXTENDS OfiAm, FiniteSetTheorems, TLAPS

Outgoing == dwq[Requester]

(* The writes of message m have thresholds 2m-1 and 2m.                    *)
Outgoings ==
    \A w \in Outgoing :
        /\ w.put.part \in {"body", "seq"}
        /\ w.put.msg \in 1 .. head_seq - 1
        /\ w.put.slot = SlotIdx(w.put.msg)
        /\ w.threshold = IF w.put.part = "seq" THEN 2 * w.put.msg
                                               ELSE 2 * w.put.msg - 1
        /\ w.st = "sent" => /\ w.threshold <= trigger_cntr[Requester]
                            /\ w.data \in 0 .. MaxMessages

(* A number on its way belongs to the batch that is not acknowledged, and  *)
(* has or will find its data in the buffer of its turn.  A body may come   *)
(* much later when the network does not keep the order.                    *)
Unhandled ==
    \A w \in Outgoing :
        w.put.part = "seq" =>
            /\ w.put.msg >= expected_seq
            /\ w.put.buf = w.put.msg - 1 - replied
            /\ w.st = "queued" => staging[w.put.buf] = w.put.msg
            /\ w.st = "sent" => w.data = w.put.msg

(* The number of m has been written.                                       *)
Delivered(m) == \A w \in Outgoing : w.threshold # 2 * m

Inbox ==
    \A s \in Slot :
        inbox[s].seq > 0 =>
            /\ SlotIdx(inbox[s].seq) = s
            /\ inbox[s].seq < head_seq
            /\ 2 * inbox[s].seq <= trigger_cntr[Requester]
            /\ Delivered(inbox[s].seq)

Acks ==
    \A w \in dwq[Responder] :
        /\ w.put.part = "ack" /\ w.put.msg = replied
        /\ w.st = "queued" => reply_staging[w.put.buf] = replied
        /\ w.st = "sent" => w.data = replied
        /\ dwq[Responder] = {w}

(* The batch is not replied to; or its reply is on the way or has come.    *)
Outstanding == IF pc[Requester] = "await" THEN StagingSize ELSE staging_idx

Phase ==
    \/ /\ head_seq - 1 = replied + Outstanding
       /\ local_ack = replied /\ dwq[Responder] = {}
    \/ /\ head_seq - 1 = replied /\ pc[Requester] # "client"
       /\ local_ack <= replied
       /\ local_ack = replied => dwq[Responder] = {}

Turns ==
    /\ replied <= expected_seq - 1
    /\ 2 * (expected_seq - 1) <= trigger_cntr[Requester]
    /\ pc[Requester] = "client" =>
           /\ stream[Requester] = 0 /\ trigger_cntr[Requester] <= 2 * replied
           /\ staging_idx > 0 =>
                  max_threshold[Requester] = current_threshold[Requester]
    /\ pc[Requester] = "wait" => staging_idx = StagingSize
    /\ pc[Requester] = "await" => staging_idx = 0
    /\ stream[Requester] # 0 =>
           /\ stream[Requester] = current_threshold[Requester]
           /\ trigger_cntr[Requester] < stream[Requester]

(* The completion counter counts what is no more in the queue, and the     *)
(* writebacks.                                                             *)
Tally(r) ==
    /\ IsFiniteSet(dwq[r])
    /\ completion_cntr[r] + Cardinality(dwq[r]) =
           current_threshold[r] + writebacks[r]
    /\ \A w \in dwq[r] : w.threshold <= current_threshold[r]
    /\ \A v, w \in dwq[r] : v.threshold = w.threshold => v = w

Counters ==
    /\ current_threshold[Requester] = 2 * (head_seq - 1)
    /\ current_threshold[Responder] <= replied
    /\ \A r \in Rank : Tally(r)

(* One entry for each rank.                                                *)
Arrays ==
    /\ DOMAIN current_threshold = Rank /\ DOMAIN stream = Rank
    /\ DOMAIN trigger_cntr = Rank /\ DOMAIN completion_cntr = Rank
    /\ DOMAIN dwq = Rank /\ DOMAIN writebacks = Rank
    /\ DOMAIN max_threshold = Rank /\ DOMAIN waited = Rank
    /\ DOMAIN pc = Rank

IInv ==
    /\ TypeOK /\ Arrays /\ Counters /\ Turns /\ Phase /\ Outgoings /\ Unhandled
    /\ Inbox /\ Acks
-----------------------------------------------------------------------------
(* Constants and types.                                                    *)

LEMMA Members ==
    /\ Requester \in Rank /\ Responder \in Rank /\ Requester # Responder
    /\ \A r \in Rank : r = Requester \/ r = Responder
    /\ NSlots \in Nat /\ StagingSize \in Nat /\ MaxBatches \in Nat
    /\ 1 <= StagingSize /\ StagingSize <= NSlots
    /\ MaxMessages \in Nat
  BY AmAssumption DEF MaxMessages

LEMMA SlotRange == ASSUME NEW m \in Nat PROVE SlotIdx(m) \in Slot
  BY Members DEF SlotIdx, Slot

(* Less than a ring apart, two messages have different slots.              *)
LEMMA SlotsDiffer ==
    ASSUME NEW i \in Nat, NEW j \in Nat, i < j, j < i + NSlots
    PROVE  SlotIdx(i) # SlotIdx(j)
<1> DEFINE qi == i \div NSlots
           qj == j \div NSlots
<1>1. NSlots \in Nat \ {0}
  BY Members
<1>2. /\ i = NSlots * qi + SlotIdx(i) /\ qi \in Nat
      /\ j = NSlots * qj + SlotIdx(j) /\ qj \in Nat
  BY <1>1 DEF SlotIdx
<1>3. SlotIdx(i) \in Nat /\ SlotIdx(j) \in Nat
  BY SlotRange DEF Slot
<1> HIDE DEF qi, qj
<1>4. SUFFICES ASSUME SlotIdx(i) = SlotIdx(j) PROVE FALSE
  OBVIOUS
<1>5. j - i = NSlots * (qj - qi)
  BY <1>1, <1>2, <1>3, <1>4
<1>6. CASE qj - qi <= 0
  BY <1>1, <1>2, <1>5, <1>6
<1>7. CASE qj - qi >= 1
  BY <1>1, <1>2, <1>5, <1>7
<1> QED BY <1>2, <1>6, <1>7

LEMMA Numbers ==
    ASSUME TypeOK
    PROVE  /\ \A r \in Rank :
                  /\ current_threshold[r] \in Nat /\ completion_cntr[r] \in Nat
                  /\ trigger_cntr[r] \in Nat /\ stream[r] \in Nat
                  /\ waited[r] \in Nat /\ max_threshold[r] \in Nat
                  /\ writebacks[r] \in Nat
                  /\ trigger_cntr[r] <= current_threshold[r]
                  /\ stream[r] <= current_threshold[r]
                  /\ max_threshold[r] <= current_threshold[r]
                  /\ current_threshold[r] <= 2 * MaxMessages
           /\ staging_idx \in Nat /\ staging_idx <= StagingSize
           /\ reply_staging_idx \in Nat
           /\ head_seq \in Nat /\ head_seq >= 1 /\ head_seq <= MaxMessages + 1
           /\ expected_seq \in Nat /\ expected_seq >= 1 /\ expected_seq <= head_seq
           /\ local_ack \in Nat /\ replied \in Nat /\ replied <= MaxMessages
           /\ \A s \in Slot : inbox[s].seq \in Nat /\ inbox[s].body \in Nat
<1>1. ASSUME NEW r \in Rank
      PROVE  /\ current_threshold[r] \in Nat /\ completion_cntr[r] \in Nat
             /\ trigger_cntr[r] \in Nat /\ stream[r] \in Nat
             /\ waited[r] \in Nat /\ max_threshold[r] \in Nat
             /\ writebacks[r] \in Nat
             /\ trigger_cntr[r] <= current_threshold[r]
             /\ stream[r] <= current_threshold[r]
             /\ max_threshold[r] <= current_threshold[r]
             /\ current_threshold[r] <= 2 * MaxMessages
  <2>1. current_threshold[r] \in 0 .. 2 * MaxMessages
    BY DEF TypeOK
  <2>2. /\ completion_cntr[r] \in 0 .. 2 * current_threshold[r]
        /\ {trigger_cntr[r], stream[r], waited[r], max_threshold[r]}
               \subseteq 0 .. current_threshold[r]
        /\ writebacks[r] \in 0 .. current_threshold[r]
    BY DEF TypeOK
  <2> QED BY <2>1, <2>2, Members
<1>2. /\ staging_idx \in 0 .. StagingSize /\ reply_staging_idx \in 0 .. StagingSize
      /\ head_seq \in 1 .. MaxMessages + 1 /\ expected_seq \in 1 .. head_seq
      /\ local_ack \in 0 .. MaxMessages /\ replied \in 0 .. MaxMessages
  BY DEF TypeOK
<1>3. \A s \in Slot : inbox[s] \in [seq : 0 .. MaxMessages, body : 0 .. MaxMessages]
  BY DEF TypeOK
<1>4. \A s \in Slot : inbox[s].seq \in 0 .. MaxMessages /\ inbox[s].body \in 0 .. MaxMessages
  BY <1>3
<1> QED BY <1>1, <1>2, <1>4, Members

(* The messages that are not replied to fit the staging pool.              *)
LEMMA Window ==
    ASSUME IInv
    PROVE  head_seq - 1 <= replied + StagingSize
<1>1. TypeOK /\ Phase
  BY DEF IInv
<1> QED BY <1>1, Numbers, Members DEF Phase, Outstanding

(* A write of the requester: its message, its slot and its threshold.      *)
LEMMA WriteFacts ==
    ASSUME IInv, NEW w \in Outgoing
    PROVE  /\ w.put.msg \in Nat /\ w.put.msg >= 1 /\ w.put.msg < head_seq
           /\ w.put.part \in {"body", "seq"} /\ w.put.buf \in Staging
           /\ w.put.slot = SlotIdx(w.put.msg) /\ w.put.slot \in Slot
           /\ w.threshold \in Nat
           /\ w.st \in {"queued", "sent"}
<1>1. TypeOK /\ Outgoings
  BY DEF IInv
<1>2. /\ w.put.part \in {"body", "seq"} /\ w.put.msg \in 1 .. head_seq - 1
      /\ w.put.slot = SlotIdx(w.put.msg)
  BY <1>1 DEF Outgoings
<1>3. w.put.msg \in Nat /\ w.put.msg >= 1 /\ w.put.msg < head_seq
  BY <1>1, <1>2, Numbers
<1>4. w.threshold \in Thresholds /\ w.put \in PutSet /\ w.st \in {"queued", "sent"}
  BY <1>1, Members DEF TypeOK, Outgoing
<1> QED BY <1>2, <1>3, <1>4, SlotRange DEF PutSet, Thresholds

(* Two messages on their way, or one and an unread number of the ring, have*)
(* one slot only if they are one.                                          *)
LEMMA OneInSlot ==
    ASSUME IInv,
           NEW i \in Nat, i >= expected_seq, i < head_seq,
           NEW j \in Nat, j >= expected_seq, j < head_seq,
           SlotIdx(i) = SlotIdx(j)
    PROVE  i = j
<1>1. TypeOK /\ Turns
  BY DEF IInv
<1>2. /\ replied \in Nat /\ expected_seq \in Nat /\ head_seq \in Nat
      /\ replied <= expected_seq - 1
  BY <1>1, Numbers DEF Turns
<1>3. i < j + NSlots /\ j < i + NSlots
  BY <1>2, Window, Members
<1> QED BY <1>3, SlotsDiffer
-----------------------------------------------------------------------------
(* What the invariant says of the ring and of the staging buffers.         *)

LEMMA RingFree == IInv => RingSlotsFree
<1> SUFFICES ASSUME IInv, NEW w \in Outgoing, w.put.part = "seq",
                    ~(inbox[w.put.slot].seq < expected_seq)
             PROVE  FALSE
  BY DEF RingSlotsFree, Outgoing
<1> DEFINE k == inbox[w.put.slot].seq
<1>1. TypeOK /\ Outgoings /\ Unhandled /\ Inbox
  BY DEF IInv
<1>2. /\ w.put.slot \in Slot /\ w.put.slot = SlotIdx(w.put.msg)
      /\ w.put.msg \in Nat /\ w.put.msg < head_seq
  BY WriteFacts
<1>3. w.threshold = 2 * w.put.msg /\ w.put.msg >= expected_seq
  BY <1>1 DEF Outgoings, Unhandled
<1>4. k \in Nat /\ k >= expected_seq /\ k > 0
  BY <1>1, <1>2, Numbers
<1>5. SlotIdx(k) = w.put.slot /\ k < head_seq /\ Delivered(k)
  BY <1>1, <1>2, <1>4 DEF Inbox
<1> HIDE DEF k
<1>6. k = w.put.msg
  BY <1>2, <1>3, <1>4, <1>5, OneInSlot
<1> QED BY <1>3, <1>5, <1>6 DEF Delivered

LEMMA Staged == IInv => StagedUntilSent
  BY Members DEF IInv, Outgoings, Unhandled, Acks, StagedUntilSent, Source, Outgoing

-----------------------------------------------------------------------------
(* What each step does to the arrays.                                      *)

LEMMA SendTo ==
    ASSUME IInv, SendHandle
    PROVE  LET b == Write(Part("body", head_seq, staging_idx), 2 * head_seq - 1)
               q == Write(Part("seq", head_seq, staging_idx), 2 * head_seq)
           IN /\ Outgoing' = Outgoing \cup {b, q}
              /\ dwq'[Responder] = dwq[Responder]
              /\ current_threshold[Requester] = 2 * head_seq - 2
              /\ current_threshold'[Requester] = 2 * head_seq
              /\ current_threshold'[Responder] = current_threshold[Responder]
              /\ max_threshold'[Requester] = 2 * head_seq
              /\ max_threshold'[Responder] = max_threshold[Responder]
              /\ staging_idx \in Staging /\ pc[Requester] = "client"
              /\ DOMAIN dwq' = Rank /\ DOMAIN current_threshold' = Rank
              /\ DOMAIN max_threshold' = Rank
<1> DEFINE b == Write(Part("body", head_seq, staging_idx), 2 * head_seq - 1)
           q == Write(Part("seq", head_seq, staging_idx), 2 * head_seq)
           ps == MessagePuts(staging_idx)
<1>1. TypeOK /\ Arrays /\ Counters
  BY DEF IInv
<1>2. /\ head_seq \in Nat /\ head_seq >= 1 /\ staging_idx \in Nat
      /\ current_threshold[Requester] = 2 * head_seq - 2
      /\ max_threshold[Requester] \in Nat
      /\ max_threshold[Requester] <= 2 * head_seq - 2
  BY <1>1, Numbers, Members DEF Counters
<1>3. staging_idx \in Staging
  BY <1>2, Members DEF SendHandle, Staging
<1>4. Len(ps) = 2 /\ ps[1] = Part("body", head_seq, staging_idx)
                  /\ ps[2] = Part("seq", head_seq, staging_idx)
  BY DEF MessagePuts
<1>5. {Write(ps[i], Threshold(Requester, i)) : i \in 1 .. Len(ps)} = {b, q}
  <2>1. 1 .. Len(ps) = {1, 2}
    BY <1>4
  <2>2. Threshold(Requester, 1) = 2 * head_seq - 1 /\ Threshold(Requester, 2) = 2 * head_seq
    BY <1>2 DEF Threshold
  <2> HIDE DEF ps
  <2> QED BY <1>4, <2>1, <2>2
<1>6. NewMax(Requester, 2) = 2 * head_seq
  BY <1>2 DEF NewMax, Max2, Threshold
<1>7. /\ dwq' = [dwq EXCEPT ![Requester] = @ \cup {b, q}]
      /\ current_threshold' = [current_threshold EXCEPT ![Requester] = @ + 2]
      /\ max_threshold' = [max_threshold EXCEPT ![Requester] = 2 * head_seq]
      /\ pc[Requester] = "client"
  BY <1>4, <1>5, <1>6 DEF SendHandle, PutRaw
<1> HIDE DEF b, q, ps
<1>8. /\ dwq'[Requester] = dwq[Requester] \cup {b, q}
      /\ dwq'[Responder] = dwq[Responder] /\ DOMAIN dwq' = Rank
  BY <1>1, <1>7, Members DEF Arrays
<1>9. /\ current_threshold'[Requester] = 2 * head_seq
      /\ current_threshold'[Responder] = current_threshold[Responder]
      /\ DOMAIN current_threshold' = Rank
  BY <1>1, <1>2, <1>7, Members DEF Arrays
<1>10. /\ max_threshold'[Requester] = 2 * head_seq
       /\ max_threshold'[Responder] = max_threshold[Responder]
       /\ DOMAIN max_threshold' = Rank
  BY <1>1, <1>7, Members DEF Arrays
<1> QED BY <1>2, <1>3, <1>7, <1>8, <1>9, <1>10 DEF Outgoing, b, q

(* The reply finds the whole batch handled, so nothing of it is on its way *)
(* but bodies, and no reply before it.                                     *)
LEMMA ReplyTo ==
    ASSUME IInv, Reply
    PROVE  LET a == Write(Part("ack", expected_seq - 1, reply_staging_idx),
                          current_threshold[Responder] + 1)
           IN /\ dwq'[Responder] = {a} /\ dwq[Responder] = {}
              /\ Outgoing' = Outgoing
              /\ current_threshold'[Responder] = current_threshold[Responder] + 1
              /\ current_threshold'[Requester] = current_threshold[Requester]
              /\ max_threshold'[Responder] = current_threshold[Responder] + 1
              /\ max_threshold'[Requester] = max_threshold[Requester]
              /\ reply_staging_idx \in Staging
              /\ replied' = replied + StagingSize /\ replied' = expected_seq - 1
              /\ replied' = head_seq - 1 /\ local_ack = replied
              /\ pc[Requester] # "client"
              /\ DOMAIN dwq' = Rank /\ DOMAIN current_threshold' = Rank
              /\ DOMAIN max_threshold' = Rank
<1> DEFINE a == Write(Part("ack", expected_seq - 1, reply_staging_idx),
                      current_threshold[Responder] + 1)
           ps == <<Part("ack", expected_seq - 1, reply_staging_idx)>>
<1>1. TypeOK /\ Arrays /\ Counters /\ Phase /\ Turns
  BY DEF IInv
<1>2. /\ head_seq \in Nat /\ expected_seq \in Nat /\ expected_seq <= head_seq
      /\ replied \in Nat /\ reply_staging_idx \in Nat
      /\ StagingSize \in Nat /\ StagingSize >= 1
      /\ staging_idx \in Nat /\ staging_idx <= StagingSize
      /\ current_threshold[Responder] \in Nat
      /\ trigger_cntr[Requester] \in Nat
      /\ max_threshold[Responder] \in Nat
      /\ max_threshold[Responder] <= current_threshold[Responder]
  BY <1>1, Numbers, Members
<1>3. reply_staging_idx \in Staging
  BY <1>2 DEF Reply, Staging
<1>4. expected_seq - 1 = replied + StagingSize /\ replied' = expected_seq - 1
  BY DEF Reply
<1>5. /\ head_seq - 1 = replied + Outstanding /\ local_ack = replied
      /\ dwq[Responder] = {}
  BY <1>1, <1>2, <1>4 DEF Phase
<1>6. head_seq - 1 = replied + StagingSize
  BY <1>2, <1>4, <1>5 DEF Outstanding
<1>7. pc[Requester] # "client"
  BY <1>1, <1>2, <1>4 DEF Turns
<1>8. Len(ps) = 1 /\ ps[1] = Part("ack", expected_seq - 1, reply_staging_idx)
  OBVIOUS
<1>9. {Write(ps[i], Threshold(Responder, i)) : i \in 1 .. Len(ps)} = {a}
  <2>1. 1 .. Len(ps) = {1}
    BY <1>8
  <2> HIDE DEF ps
  <2> QED BY <1>8, <2>1 DEF Threshold
<1>10. NewMax(Responder, 1) = current_threshold[Responder] + 1
  BY <1>2 DEF NewMax, Max2, Threshold
<1>11. /\ dwq' = [dwq EXCEPT ![Responder] = @ \cup {a}]
       /\ current_threshold' = [current_threshold EXCEPT ![Responder] = @ + 1]
       /\ max_threshold' = [max_threshold EXCEPT ![Responder] =
                                current_threshold[Responder] + 1]
  BY <1>8, <1>9, <1>10 DEF Reply, PutRaw
<1> HIDE DEF a, ps
<1>12. /\ dwq'[Responder] = {a}
       /\ dwq'[Requester] = dwq[Requester] /\ DOMAIN dwq' = Rank
  BY <1>1, <1>5, <1>11, Members DEF Arrays
<1>13. /\ current_threshold'[Responder] = current_threshold[Responder] + 1
       /\ current_threshold'[Requester] = current_threshold[Requester]
       /\ DOMAIN current_threshold' = Rank
  BY <1>1, <1>11, Members DEF Arrays
<1>14. /\ max_threshold'[Responder] = current_threshold[Responder] + 1
       /\ max_threshold'[Requester] = max_threshold[Requester]
       /\ DOMAIN max_threshold' = Rank
  BY <1>1, <1>11, Members DEF Arrays
<1> QED BY <1>3, <1>4, <1>5, <1>6, <1>7, <1>12, <1>13, <1>14 DEF Outgoing, a
Sent(w, data) ==
    [threshold |-> w.threshold, put |-> w.put, st |-> "sent", data |-> data]

LEMMA NicSendTo ==
    ASSUME IInv, NEW r \in Rank, NEW w \in dwq[r], NicSend(r, w)
    PROVE  /\ dwq'[r] = (dwq[r] \ {w}) \cup {Sent(w, Source(w.put))}
           /\ \A o \in Rank : o # r => dwq'[o] = dwq[o]
           /\ DOMAIN dwq' = Rank
           /\ w.st = "queued" /\ w.threshold <= trigger_cntr[r]
<1>1. DOMAIN dwq = Rank
  BY DEF IInv, Arrays
<1>2. dwq' = [dwq EXCEPT ![r] = (@ \ {w}) \cup {Sent(w, Source(w.put))}]
  BY DEF NicSend, Send, Sent
<1>3. w.st = "queued" /\ w.threshold <= trigger_cntr[r]
  <2>1. trigger_cntr[r] >= w.threshold
    BY DEF NicSend, Send
  <2>2. trigger_cntr[r] \in Nat /\ w.threshold \in Int
    BY Numbers DEF IInv, TypeOK, Thresholds
  <2> QED BY <2>1, <2>2 DEF NicSend
<1> HIDE DEF Sent
<1> QED BY <1>1, <1>2, <1>3

LEMMA NicDeliverTo ==
    ASSUME IInv, NEW r \in Rank, NEW w \in dwq[r], NicDeliver(r, w)
    PROVE  /\ dwq'[r] = dwq[r] \ {w}
           /\ completion_cntr'[r] = completion_cntr[r] + 1
           /\ \A o \in Rank : o # r => /\ dwq'[o] = dwq[o]
                                       /\ completion_cntr'[o] = completion_cntr[o]
           /\ DOMAIN dwq' = Rank /\ DOMAIN completion_cntr' = Rank
           /\ w.st = "sent"
           /\ UNCHANGED <<current_threshold, stream, trigger_cntr, writebacks>>
<1>1. DOMAIN dwq = Rank /\ DOMAIN completion_cntr = Rank
  BY DEF IInv, Arrays
<1>2. /\ dwq' = [dwq EXCEPT ![r] = @ \ {w}]
      /\ completion_cntr' = [completion_cntr EXCEPT ![r] = @ + 1]
  BY DEF NicDeliver, Deliver
<1> QED BY <1>1, <1>2 DEF NicDeliver, Deliver

LEMMA ArraysStep == IInv /\ [Next]_vars => Arrays'
<1> SUFFICES ASSUME IInv, [Next]_vars PROVE Arrays'
  OBVIOUS
<1>0. Arrays
  BY DEF IInv
<1>1. CASE SendHandle
  BY <1>0, <1>1, SendTo DEF SendHandle, PutRaw, Arrays
<1>2. CASE Reply
  BY <1>0, <1>2, ReplyTo DEF Reply, PutRaw, Arrays
<1>3. CASE Acked
  BY <1>0, <1>3 DEF Acked, Arrays, fabricVars
<1>4. CASE PollPeer
  BY <1>0, <1>4 DEF PollPeer, Arrays, fabricVars
<1>5. ASSUME NEW r \in Rank, TriggerBegin(r) PROVE Arrays'
  BY <1>0, <1>5 DEF TriggerBegin, Trigger, Arrays
<1>6. ASSUME NEW r \in Rank, WaitEnd(r) PROVE Arrays'
  <2>1. DOMAIN pc' = Rank
    BY <1>0, <1>6 DEF WaitEnd, Arrays
  <2> QED BY <1>0, <1>6, <2>1 DEF WaitEnd, Arrays, fabricVars
<1>7. ASSUME NEW r \in Rank, TriggerKernel(r) PROVE Arrays'
  BY <1>0, <1>7 DEF TriggerKernel, RunTriggerKernel, Arrays, amVars
<1>8. ASSUME NEW r \in Rank, NEW w \in dwq[r], NicSend(r, w) PROVE Arrays'
  <2>1. DOMAIN dwq' = Rank
    BY <1>8, NicSendTo
  <2> QED BY <1>0, <1>8, <2>1 DEF NicSend, Send, Arrays, amVars
<1>9. ASSUME NEW r \in Rank, NEW w \in dwq[r], NicDeliver(r, w) PROVE Arrays'
  <2>1. DOMAIN dwq' = Rank /\ DOMAIN completion_cntr' = Rank
    BY <1>9, NicDeliverTo
  <2> QED BY <1>0, <1>9, <2>1 DEF NicDeliver, Deliver, Arrays
<1>10. ASSUME NEW r \in Rank, NicWriteBack(r) PROVE Arrays'
  BY <1>0, <1>10 DEF NicWriteBack, WriteBack, Arrays, amVars
<1>11. CASE UNCHANGED vars
  BY <1>0, <1>11 DEF vars, fabricVars, amVars, Arrays
<1> QED BY <1>1, <1>2, <1>3, <1>4, <1>5, <1>6, <1>7, <1>8, <1>9, <1>10, <1>11
        DEF Next, Host, Nic, Finished

LEMMA CountersStep == IInv /\ [Next]_vars => Counters'
<1> SUFFICES ASSUME IInv, [Next]_vars PROVE Counters'
  OBVIOUS
<1>0. TypeOK /\ Arrays /\ Counters
  BY DEF IInv
<1>n. /\ head_seq \in Nat /\ replied \in Nat
      /\ \A r \in Rank : /\ current_threshold[r] \in Nat /\ completion_cntr[r] \in Nat
                         /\ writebacks[r] \in Nat
                         /\ Cardinality(dwq[r]) \in Nat
                         /\ \A w \in dwq[r] : w.threshold \in Nat
  <2>1. \A r \in Rank : IsFiniteSet(dwq[r])
    BY <1>0 DEF Counters, Tally
  <2>2. \A r \in Rank : \A w \in dwq[r] : w.threshold \in Thresholds
    BY <1>0 DEF TypeOK
  <2> QED BY <1>0, <2>1, <2>2, Numbers, FS_CardinalityType DEF Thresholds
(* A rank whose queue and counters stay.                                   *)
<1>s. ASSUME NEW r \in Rank, dwq'[r] = dwq[r],
             completion_cntr'[r] = completion_cntr[r],
             current_threshold'[r] = current_threshold[r],
             writebacks'[r] = writebacks[r]
      PROVE  Tally(r)'
  BY <1>0, <1>s DEF Counters, Tally
<1>1. CASE SendHandle
  <2> DEFINE b == Write(Part("body", head_seq, staging_idx), 2 * head_seq - 1)
             q == Write(Part("seq", head_seq, staging_idx), 2 * head_seq)
             D == dwq[Requester]
  <2>1. /\ dwq'[Requester] = (D \cup {b}) \cup {q}
        /\ dwq'[Responder] = dwq[Responder]
        /\ current_threshold[Requester] = 2 * head_seq - 2
        /\ current_threshold'[Requester] = 2 * head_seq
        /\ current_threshold'[Responder] = current_threshold[Responder]
    BY <1>1, SendTo DEF Outgoing
  <2>2. /\ head_seq' = head_seq + 1 /\ UNCHANGED <<replied, completion_cntr, writebacks>>
    BY <1>1 DEF SendHandle, PutRaw, responderVars
  <2>3. b.threshold = 2 * head_seq - 1 /\ q.threshold = 2 * head_seq
    BY DEF Write
  <2> HIDE DEF b, q
  <2>4. /\ IsFiniteSet(D) /\ \A w \in D : w.threshold <= 2 * head_seq - 2
        /\ \A v, w \in D : v.threshold = w.threshold => v = w
        /\ \A w \in D : w.threshold \in Nat
        /\ completion_cntr[Requester] + Cardinality(D) =
               2 * head_seq - 2 + writebacks[Requester]
    BY <1>0, <1>n, <2>1, Members DEF Counters, Tally
  <2>5. b \notin D /\ q \notin D \cup {b}
    BY <1>n, <2>3, <2>4
  <2>6. IsFiniteSet(D \cup {b}) /\ Cardinality(D \cup {b}) = Cardinality(D) + 1
    BY <2>4, <2>5, FS_AddElement
  <2>7. /\ IsFiniteSet(dwq'[Requester])
        /\ Cardinality(dwq'[Requester]) = Cardinality(D) + 2
    <3>1. /\ IsFiniteSet((D \cup {b}) \cup {q})
          /\ Cardinality((D \cup {b}) \cup {q}) = Cardinality(D \cup {b}) + 1
      BY <2>5, <2>6, FS_AddElement
    <3> QED BY <1>n, <2>1, <2>6, <3>1, Members
  <2>8. \A w \in dwq'[Requester] : w.threshold <= 2 * head_seq
    BY <1>n, <2>1, <2>3, <2>4
  <2>9. \A v, w \in dwq'[Requester] : v.threshold = w.threshold => v = w
    BY <1>n, <2>1, <2>3, <2>4
  <2>10. Tally(Requester)'
    <3>1. completion_cntr[Requester] + Cardinality(dwq'[Requester]) =
              2 * head_seq + writebacks[Requester]
      BY <1>n, <2>4, <2>7, Members
    <3> QED BY <2>1, <2>2, <2>7, <2>8, <2>9, <3>1 DEF Tally
  <2>11. Tally(Responder)'
    BY <1>s, <2>1, <2>2, Members
  <2> QED BY <1>0, <1>n, <2>1, <2>2, <2>10, <2>11, Members DEF Counters
<1>2. CASE Reply
  <2> DEFINE a == Write(Part("ack", expected_seq - 1, reply_staging_idx),
                        current_threshold[Responder] + 1)
  <2>1. /\ dwq'[Responder] = {a} /\ dwq[Responder] = {}
        /\ dwq'[Requester] = dwq[Requester]
        /\ current_threshold'[Responder] = current_threshold[Responder] + 1
        /\ current_threshold'[Requester] = current_threshold[Requester]
        /\ replied' = replied + StagingSize
    BY <1>2, ReplyTo DEF Outgoing
  <2>2. UNCHANGED <<head_seq, completion_cntr, writebacks>>
    BY <1>2 DEF Reply, PutRaw, requesterVars
  <2>3. a.threshold = current_threshold[Responder] + 1
    BY DEF Write
  <2> HIDE DEF a
  <2>4. completion_cntr[Responder] = current_threshold[Responder] + writebacks[Responder]
    BY <1>0, <1>n, <2>1, FS_EmptySet, Members DEF Counters, Tally
  <2>5. IsFiniteSet({a}) /\ Cardinality({a}) = 1
    <3>1. IsFiniteSet({} \cup {a}) /\ Cardinality({} \cup {a}) = 1
      BY FS_EmptySet, FS_AddElement
    <3> QED BY <3>1
  <2>6. Tally(Responder)'
    <3>1. completion_cntr[Responder] + Cardinality(dwq'[Responder]) =
              current_threshold'[Responder] + writebacks[Responder]
      BY <1>n, <2>1, <2>4, <2>5, Members
    <3> QED BY <1>n, <2>1, <2>2, <2>3, <2>5, <3>1, Members DEF Tally
  <2>7. Tally(Requester)'
    BY <1>s, <2>1, <2>2, Members
  <2> QED BY <1>0, <1>n, <2>1, <2>2, <2>6, <2>7, Members DEF Counters
<1>3. ASSUME NEW r \in Rank, NEW w \in dwq[r], NicSend(r, w) PROVE Counters'
  <2> DEFINE n == Sent(w, Source(w.put))
             D == dwq[r] \ {w}
  <2>1. dwq'[r] = D \cup {n} /\ \A o \in Rank : o # r => dwq'[o] = dwq[o]
    BY <1>3, NicSendTo
  <2>2. UNCHANGED <<current_threshold, completion_cntr, writebacks, head_seq, replied>>
    BY <1>3 DEF NicSend, Send, amVars, requesterVars, responderVars
  <2>3. n.threshold = w.threshold
    BY DEF Sent
  <2> HIDE DEF n
  <2>4. /\ IsFiniteSet(dwq[r])
        /\ completion_cntr[r] + Cardinality(dwq[r]) =
               current_threshold[r] + writebacks[r]
        /\ \A v \in dwq[r] : v.threshold <= current_threshold[r]
        /\ \A u, v \in dwq[r] : u.threshold = v.threshold => u = v
    BY <1>0 DEF Counters, Tally
  <2>5. n \notin D
    BY <2>3, <2>4
  <2>6. IsFiniteSet(D) /\ Cardinality(D) = Cardinality(dwq[r]) - 1
    BY <2>4, FS_RemoveElement
  <2>7. IsFiniteSet(D \cup {n}) /\ Cardinality(D \cup {n}) = Cardinality(D) + 1
    BY <2>5, <2>6, FS_AddElement
  <2>8. Cardinality(dwq'[r]) = Cardinality(dwq[r])
    BY <1>n, <2>1, <2>6, <2>7
  <2>9. Tally(r)'
    <3>1. \A v \in dwq'[r] : v.threshold <= current_threshold[r]
      BY <2>1, <2>3, <2>4
    <3>2. \A u, v \in dwq'[r] : u.threshold = v.threshold => u = v
      BY <2>1, <2>3, <2>4
    <3> QED BY <2>1, <2>2, <2>4, <2>7, <2>8, <3>1, <3>2 DEF Tally
  <2> QED BY <1>0, <1>s, <2>1, <2>2, <2>9 DEF Counters
<1>4. ASSUME NEW r \in Rank, NEW w \in dwq[r], NicDeliver(r, w) PROVE Counters'
  <2>1. /\ dwq'[r] = dwq[r] \ {w} /\ completion_cntr'[r] = completion_cntr[r] + 1
        /\ \A o \in Rank : o # r => /\ dwq'[o] = dwq[o]
                                    /\ completion_cntr'[o] = completion_cntr[o]
        /\ UNCHANGED <<current_threshold, writebacks>>
    BY <1>4, NicDeliverTo
  <2>2. UNCHANGED <<head_seq, replied>>
    BY <1>4 DEF NicDeliver
  <2>3. /\ IsFiniteSet(dwq'[r])
        /\ Cardinality(dwq'[r]) = Cardinality(dwq[r]) - 1
    BY <1>0, <2>1, FS_RemoveElement DEF Counters, Tally
  <2>4. Tally(r)'
    <3>1. completion_cntr'[r] + Cardinality(dwq'[r]) =
              current_threshold[r] + writebacks[r]
      BY <1>0, <1>n, <2>1, <2>3 DEF Counters, Tally
    <3> QED BY <1>0, <2>1, <2>3, <3>1 DEF Counters, Tally
  <2> QED BY <1>0, <1>s, <2>1, <2>2, <2>4 DEF Counters
<1>5. ASSUME NEW r \in Rank, NicWriteBack(r) PROVE Counters'
  <2>1. /\ writebacks' = [writebacks EXCEPT ![r] = @ + 1]
        /\ completion_cntr' = [completion_cntr EXCEPT ![r] = @ + 1]
        /\ UNCHANGED <<current_threshold, dwq, head_seq, replied>>
    BY <1>5 DEF NicWriteBack, WriteBack, amVars, requesterVars, responderVars
  <2>2. /\ writebacks'[r] = writebacks[r] + 1
        /\ completion_cntr'[r] = completion_cntr[r] + 1
        /\ \A o \in Rank : o # r => /\ writebacks'[o] = writebacks[o]
                                    /\ completion_cntr'[o] = completion_cntr[o]
    BY <1>0, <2>1 DEF Arrays
  <2>3. Tally(r)'
    <3>1. completion_cntr'[r] + Cardinality(dwq[r]) =
              current_threshold[r] + writebacks'[r]
      BY <1>0, <1>n, <2>2 DEF Counters, Tally
    <3> QED BY <1>0, <2>1, <3>1 DEF Counters, Tally
  <2> QED BY <1>0, <1>s, <2>1, <2>2, <2>3 DEF Counters
<1>6. CASE UNCHANGED <<current_threshold, completion_cntr, dwq, writebacks, head_seq, replied>>
  BY <1>0, <1>s, <1>6 DEF Counters
<1>7. CASE \/ Acked \/ PollPeer \/ UNCHANGED vars
           \/ \E r \in Rank : Host(r) \/ TriggerKernel(r)
  BY <1>6, <1>7 DEF Acked, PollPeer, vars, fabricVars, amVars, requesterVars,
                    responderVars, Host, TriggerBegin, Trigger, WaitEnd,
                    TriggerKernel, RunTriggerKernel
<1> QED BY <1>1, <1>2, <1>3, <1>4, <1>5, <1>7 DEF Next, Nic, Finished
-----------------------------------------------------------------------------
(* Type correctness, in two halves: the counters of a rank and its writes, *)
(* and the clients' own state.                                             *)
RankTypes(r) ==
    /\ current_threshold[r] \in 0 .. 2 * MaxMessages
    /\ completion_cntr[r] \in 0 .. 2 * current_threshold[r]
    /\ {trigger_cntr[r], stream[r], waited[r], max_threshold[r]}
           \subseteq 0 .. current_threshold[r]
    /\ writebacks[r] \in 0 .. current_threshold[r]
    /\ \A w \in dwq[r] :
           /\ w.threshold \in Thresholds /\ w.put \in PutSet
           /\ w.st \in {"queued", "sent"}

LEMMA RankTypeStep == IInv /\ [Next]_vars => \A r \in Rank : RankTypes(r)'
<1> SUFFICES ASSUME IInv, [Next]_vars PROVE \A r \in Rank : RankTypes(r)'
  OBVIOUS
<1>0. TypeOK /\ Arrays /\ Counters /\ \A r \in Rank : RankTypes(r)
  BY DEF IInv, TypeOK, RankTypes
<1>n. /\ \A r \in Rank : /\ current_threshold[r] \in Nat /\ completion_cntr[r] \in Nat
                         /\ writebacks[r] \in Nat
                         /\ {trigger_cntr[r], stream[r], waited[r], max_threshold[r]}
                                \subseteq 0 .. current_threshold[r]
                         /\ writebacks[r] <= current_threshold[r]
                         /\ completion_cntr[r] <= 2 * current_threshold[r]
      /\ MaxMessages \in Nat /\ head_seq \in Nat /\ head_seq >= 1
      /\ head_seq <= MaxMessages + 1 /\ replied \in Nat /\ expected_seq \in Nat
      /\ expected_seq >= 1
      /\ expected_seq <= head_seq
  BY <1>0, Numbers, Members DEF RankTypes
<1>s. ASSUME NEW r \in Rank, dwq'[r] = dwq[r],
             completion_cntr'[r] = completion_cntr[r],
             current_threshold'[r] = current_threshold[r],
             writebacks'[r] = writebacks[r], trigger_cntr'[r] = trigger_cntr[r],
             stream'[r] = stream[r], waited'[r] = waited[r],
             max_threshold'[r] = max_threshold[r]
      PROVE  RankTypes(r)'
  BY <1>0, <1>s DEF RankTypes
<1>1. CASE SendHandle
  <2> DEFINE b == Write(Part("body", head_seq, staging_idx), 2 * head_seq - 1)
             q == Write(Part("seq", head_seq, staging_idx), 2 * head_seq)
  <2>1. /\ dwq'[Requester] = dwq[Requester] \cup {b, q}
        /\ dwq'[Responder] = dwq[Responder]
        /\ current_threshold[Requester] = 2 * head_seq - 2
        /\ current_threshold'[Requester] = 2 * head_seq
        /\ current_threshold'[Responder] = current_threshold[Responder]
        /\ max_threshold'[Requester] = 2 * head_seq
        /\ max_threshold'[Responder] = max_threshold[Responder]
        /\ staging_idx \in Staging
    BY <1>1, SendTo DEF Outgoing
  <2>2. UNCHANGED <<completion_cntr, writebacks, trigger_cntr, stream, waited>>
    BY <1>1 DEF SendHandle, PutRaw
  <2>3. head_seq <= MaxMessages
    BY <1>1 DEF SendHandle
  <2>4. /\ Part("body", head_seq, staging_idx) \in PutSet
        /\ Part("seq", head_seq, staging_idx) \in PutSet
    BY <1>n, <2>1, <2>3, SlotRange DEF Part, PutSet
  <2>5. /\ b.threshold \in Thresholds /\ b.put \in PutSet /\ b.st = "queued"
        /\ q.threshold \in Thresholds /\ q.put \in PutSet /\ q.st = "queued"
    BY <1>n, <2>3, <2>4 DEF Write, Thresholds
  <2> HIDE DEF b, q
  <2>6. \A w \in dwq'[Requester] : /\ w.threshold \in Thresholds /\ w.put \in PutSet
                                   /\ w.st \in {"queued", "sent"}
    BY <1>0, <2>1, <2>5, Members DEF RankTypes
  <2>7. RankTypes(Requester)'
    <3>1. /\ completion_cntr[Requester] \in 0 .. 2 * (2 * head_seq)
          /\ {trigger_cntr[Requester], stream[Requester], waited[Requester]}
                 \subseteq 0 .. 2 * head_seq
          /\ writebacks[Requester] \in 0 .. 2 * head_seq
          /\ 2 * head_seq \in 0 .. 2 * MaxMessages
      BY <1>n, <2>1, <2>3, Members
    <3> QED BY <2>1, <2>2, <2>6, <3>1
            DEF RankTypes, Thresholds, PutSet, MaxMessages, Staging, Slot
  <2>8. RankTypes(Responder)'
    BY <1>s, <2>1, <2>2, Members
  <2> QED BY <2>7, <2>8, Members
<1>2. CASE Reply
  <2> DEFINE a == Write(Part("ack", expected_seq - 1, reply_staging_idx),
                        current_threshold[Responder] + 1)
             c == current_threshold[Responder]
  <2>1. /\ dwq'[Responder] = {a} /\ dwq'[Requester] = dwq[Requester]
        /\ current_threshold'[Responder] = c + 1
        /\ current_threshold'[Requester] = current_threshold[Requester]
        /\ max_threshold'[Responder] = c + 1
        /\ max_threshold'[Requester] = max_threshold[Requester]
        /\ reply_staging_idx \in Staging
        /\ replied + StagingSize = expected_seq - 1
    BY <1>2, ReplyTo DEF Outgoing
  <2>2. UNCHANGED <<completion_cntr, writebacks, trigger_cntr, stream, waited>>
    BY <1>2 DEF Reply, PutRaw
  <2>3. c + 1 <= expected_seq - 1 /\ c \in Nat
    BY <1>0, <1>n, <2>1, Members DEF Counters
  <2>4. expected_seq - 1 \in 1 .. MaxMessages
    BY <1>n, <2>3
  <2>5. Part("ack", expected_seq - 1, reply_staging_idx) \in PutSet
    BY <1>n, <2>1, <2>4, SlotRange DEF Part, PutSet
  <2>6. a.threshold \in Thresholds /\ a.put \in PutSet /\ a.st = "queued"
    BY <1>n, <2>3, <2>4, <2>5 DEF Write, Thresholds
  <2>7. RankTypes(Responder)'
    <3>1. /\ completion_cntr[Responder] \in 0 .. 2 * (c + 1)
          /\ {trigger_cntr[Responder], stream[Responder], waited[Responder]}
                 \subseteq 0 .. c + 1
          /\ writebacks[Responder] \in 0 .. c + 1
          /\ c + 1 \in 0 .. 2 * MaxMessages
      BY <1>n, <2>3, <2>4, Members
    <3> HIDE DEF a, c
    <3>2. c + 1 \in 0 .. c + 1
      BY <2>3
    <3> QED BY <2>1, <2>2, <2>6, <3>1, <3>2
            DEF RankTypes, Thresholds, PutSet, MaxMessages, Staging, Slot
  <2>8. RankTypes(Requester)'
    BY <1>s, <2>1, <2>2, Members
  <2> QED BY <2>7, <2>8, Members
<1>3. ASSUME NEW r \in Rank, TriggerBegin(r) PROVE \A o \in Rank : RankTypes(o)'
  <2>1. /\ stream' = [stream EXCEPT ![r] = max_threshold[r]]
        /\ UNCHANGED <<dwq, completion_cntr, current_threshold, writebacks,
                       trigger_cntr, waited, max_threshold>>
    BY <1>3 DEF TriggerBegin, Trigger
  <2>2. /\ stream'[r] = max_threshold[r]
        /\ \A o \in Rank : o # r => stream'[o] = stream[o]
    BY <1>0, <2>1 DEF Arrays
  <2>3. RankTypes(r)'
    BY <1>0, <2>1, <2>2 DEF RankTypes
  <2> QED BY <1>s, <2>1, <2>2, <2>3
<1>4. ASSUME NEW r \in Rank, WaitEnd(r) PROVE \A o \in Rank : RankTypes(o)'
  <2>1. /\ waited' = [waited EXCEPT ![r] = max_threshold[r]]
        /\ max_threshold' = [max_threshold EXCEPT ![r] = 0]
        /\ UNCHANGED fabricVars
    BY <1>4 DEF WaitEnd
  <2>2. /\ waited'[r] = max_threshold[r] /\ max_threshold'[r] = 0
        /\ \A o \in Rank : o # r => /\ waited'[o] = waited[o]
                                    /\ max_threshold'[o] = max_threshold[o]
    BY <1>0, <2>1 DEF Arrays
  <2>3. RankTypes(r)'
    <3>1. 0 \in 0 .. current_threshold[r]
      BY <1>n
    <3> QED BY <1>0, <2>1, <2>2, <3>1 DEF RankTypes, fabricVars
  <2> QED BY <1>s, <2>1, <2>2, <2>3 DEF fabricVars
<1>5. ASSUME NEW r \in Rank, TriggerKernel(r) PROVE \A o \in Rank : RankTypes(o)'
  <2>1. /\ trigger_cntr' = [trigger_cntr EXCEPT ![r] = stream[r]]
        /\ stream' = [stream EXCEPT ![r] = 0]
        /\ UNCHANGED <<dwq, completion_cntr, current_threshold, writebacks,
                       waited, max_threshold>>
    BY <1>5 DEF TriggerKernel, RunTriggerKernel, amVars
  <2>2. /\ trigger_cntr'[r] = stream[r] /\ stream'[r] = 0
        /\ \A o \in Rank : o # r => /\ trigger_cntr'[o] = trigger_cntr[o]
                                    /\ stream'[o] = stream[o]
    BY <1>0, <2>1 DEF Arrays
  <2>3. RankTypes(r)'
    <3>1. 0 \in 0 .. current_threshold[r]
      BY <1>n
    <3> QED BY <1>0, <2>1, <2>2, <3>1 DEF RankTypes
  <2> QED BY <1>s, <2>1, <2>2, <2>3
<1>6. ASSUME NEW r \in Rank, NEW w \in dwq[r], NicSend(r, w)
      PROVE \A o \in Rank : RankTypes(o)'
  <2> DEFINE n == Sent(w, Source(w.put))
  <2>1. /\ dwq'[r] = (dwq[r] \ {w}) \cup {n}
        /\ \A o \in Rank : o # r => dwq'[o] = dwq[o]
    BY <1>6, NicSendTo
  <2>2. UNCHANGED <<completion_cntr, current_threshold, writebacks, trigger_cntr,
                    stream, waited, max_threshold>>
    BY <1>6 DEF NicSend, Send, amVars
  <2>3. n.threshold = w.threshold /\ n.put = w.put /\ n.st = "sent"
    BY DEF Sent
  <2> HIDE DEF n
  <2>4. RankTypes(r)'
    BY <1>0, <2>1, <2>2, <2>3 DEF RankTypes
  <2> QED BY <1>s, <2>1, <2>2, <2>4
<1>7. ASSUME NEW r \in Rank, NEW w \in dwq[r], NicDeliver(r, w)
      PROVE \A o \in Rank : RankTypes(o)'
  <2>1. /\ dwq'[r] = dwq[r] \ {w} /\ completion_cntr'[r] = completion_cntr[r] + 1
        /\ \A o \in Rank : o # r => /\ dwq'[o] = dwq[o]
                                    /\ completion_cntr'[o] = completion_cntr[o]
        /\ UNCHANGED <<current_threshold, writebacks, stream, trigger_cntr>>
    BY <1>7, NicDeliverTo
  <2>2. UNCHANGED <<waited, max_threshold>>
    BY <1>7 DEF NicDeliver
  <2>3. completion_cntr'[r] \in 0 .. 2 * current_threshold[r]
    <3>1. /\ completion_cntr'[r] + Cardinality(dwq'[r]) =
                 current_threshold[r] + writebacks[r]
          /\ Cardinality(dwq'[r]) \in Nat
      BY <2>1, CountersStep, FS_CardinalityType DEF Counters, Tally
    <3> QED BY <1>n, <2>1, <3>1
  <2>4. RankTypes(r)'
    BY <1>0, <2>1, <2>2, <2>3 DEF RankTypes
  <2> QED BY <1>s, <2>1, <2>2, <2>4
<1>8. ASSUME NEW r \in Rank, NicWriteBack(r) PROVE \A o \in Rank : RankTypes(o)'
  <2>1. /\ writebacks' = [writebacks EXCEPT ![r] = @ + 1]
        /\ completion_cntr' = [completion_cntr EXCEPT ![r] = @ + 1]
        /\ writebacks[r] < current_threshold[r]
        /\ UNCHANGED <<current_threshold, dwq, stream, trigger_cntr, waited, max_threshold>>
    BY <1>8 DEF NicWriteBack, WriteBack, amVars
  <2>2. /\ writebacks'[r] = writebacks[r] + 1
        /\ completion_cntr'[r] = completion_cntr[r] + 1
        /\ \A o \in Rank : o # r => /\ writebacks'[o] = writebacks[o]
                                    /\ completion_cntr'[o] = completion_cntr[o]
    BY <1>0, <2>1 DEF Arrays
  <2>3. /\ completion_cntr'[r] \in 0 .. 2 * current_threshold[r]
        /\ writebacks'[r] \in 0 .. current_threshold[r]
    <3>1. /\ completion_cntr'[r] + Cardinality(dwq'[r]) =
                 current_threshold[r] + writebacks'[r]
          /\ Cardinality(dwq'[r]) \in Nat
      BY <2>1, CountersStep, FS_CardinalityType DEF Counters, Tally
    <3> QED BY <1>n, <2>1, <2>2, <3>1
  <2>4. RankTypes(r)'
    BY <1>0, <2>1, <2>2, <2>3 DEF RankTypes
  <2> QED BY <1>s, <2>1, <2>2, <2>4
<1>9. CASE Acked \/ PollPeer \/ UNCHANGED vars
  BY <1>s, <1>9 DEF Acked, PollPeer, vars, fabricVars, amVars
<1> QED BY <1>1, <1>2, <1>3, <1>4, <1>5, <1>6, <1>7, <1>8, <1>9
        DEF Next, Host, Nic, Finished
LEMMA TypeStep == IInv /\ [Next]_vars => TypeOK'
<1> SUFFICES ASSUME IInv, [Next]_vars PROVE TypeOK'
  OBVIOUS
<1> DEFINE Clients ==
      /\ pc \in [Rank -> {"client", "wait", "await"}]
      /\ staging \in [Staging -> 0 .. MaxMessages]
      /\ reply_staging \in [Staging -> 0 .. MaxMessages]
      /\ staging_idx \in 0 .. StagingSize /\ reply_staging_idx \in 0 .. StagingSize
      /\ head_seq \in 1 .. MaxMessages + 1 /\ expected_seq \in 1 .. head_seq
      /\ inbox \in [Slot -> [seq : 0 .. MaxMessages, body : 0 .. MaxMessages]]
      /\ local_ack \in 0 .. MaxMessages /\ replied \in 0 .. MaxMessages
<1>0. TypeOK /\ Clients /\ Turns /\ Outgoings /\ Unhandled /\ Inbox /\ Acks
  BY DEF IInv, TypeOK
<1>n. /\ MaxMessages \in Nat /\ head_seq \in Nat /\ expected_seq \in Nat
      /\ head_seq >= 1 /\ expected_seq >= 1 /\ expected_seq <= head_seq
      /\ head_seq <= MaxMessages + 1
      /\ StagingSize \in Nat /\ staging_idx \in Nat /\ reply_staging_idx \in Nat
  BY <1>0, Numbers, Members
<1>c. SUFFICES Clients'
  <2>1. \A r \in Rank : RankTypes(r)'
    BY RankTypeStep
  <2> QED BY <1>c, <2>1 DEF RankTypes, TypeOK
<1>1. CASE SendHandle
  <2>1. head_seq <= MaxMessages /\ staging_idx < StagingSize
    BY <1>1 DEF SendHandle
  <2>2. head_seq' = head_seq + 1 /\ staging_idx' = staging_idx + 1
    BY <1>1 DEF SendHandle, TakeStaging
  <2>3. staging' \in [Staging -> 0 .. MaxMessages]
    <3>1. staging' = [staging EXCEPT ![staging_idx] = head_seq]
      BY <1>1 DEF SendHandle
    <3>2. head_seq \in 0 .. MaxMessages
      BY <1>n, <2>1
    <3> QED BY <1>0, <3>1, <3>2
  <2>4. UNCHANGED <<pc, local_ack, responderVars>>
    BY <1>1 DEF SendHandle
  <2>5. head_seq' \in 1 .. MaxMessages + 1 /\ expected_seq' \in 1 .. head_seq'
    BY <1>n, <2>1, <2>2, <2>4 DEF responderVars
  <2>6. staging_idx' \in 0 .. StagingSize
    BY <1>n, <2>1, <2>2
  <2> QED BY <1>0, <2>3, <2>4, <2>5, <2>6 DEF responderVars, MaxMessages, Staging, Slot
<1>2. CASE Reply
  <2>1. reply_staging_idx < StagingSize
    BY <1>2 DEF Reply
  <2>2. /\ reply_staging_idx' = reply_staging_idx + 1
        /\ replied' = expected_seq - 1
        /\ reply_staging' = [reply_staging EXCEPT ![reply_staging_idx] = expected_seq - 1]
        /\ UNCHANGED <<pc, requesterVars, inbox, expected_seq>>
    BY <1>2 DEF Reply
  <2>3. expected_seq - 1 \in 0 .. MaxMessages /\ reply_staging_idx' \in 0 .. StagingSize
    BY <1>n, <2>1, <2>2
  <2>4. reply_staging' \in [Staging -> 0 .. MaxMessages]
    BY <1>0, <2>2, <2>3
  <2> QED BY <1>0, <2>2, <2>3, <2>4 DEF requesterVars, MaxMessages, Staging, Slot
<1>3. ASSUME NEW r \in Rank, TriggerBegin(r) PROVE Clients'
  <2>1. pc' = [pc EXCEPT ![r] = "wait"] /\ UNCHANGED <<requesterVars, responderVars>>
    BY <1>3 DEF TriggerBegin
  <2> QED BY <1>0, <2>1 DEF requesterVars, responderVars, MaxMessages, Staging, Slot
<1>4. ASSUME NEW r \in Rank, WaitEnd(r) PROVE Clients'
  <2>1. /\ UNCHANGED <<staging, head_seq, local_ack, inbox, expected_seq,
                       reply_staging, replied>>
        /\ \/ staging_idx' = 0 /\ reply_staging_idx' = reply_staging_idx
              /\ pc' = [pc EXCEPT ![r] = "await"]
           \/ reply_staging_idx' = 0 /\ staging_idx' = staging_idx
              /\ pc' = [pc EXCEPT ![r] = "client"]
    BY <1>4 DEF WaitEnd
  <2>2. pc' \in [Rank -> {"client", "wait", "await"}]
    BY <1>0, <2>1
  <2>3. 0 \in 0 .. StagingSize
    BY <1>n
  <2> QED BY <1>0, <2>1, <2>2, <2>3 DEF MaxMessages, Staging, Slot
<1>5. CASE Acked
  <2>1. pc' = [pc EXCEPT ![Requester] = "client"] /\ UNCHANGED <<requesterVars, responderVars>>
    BY <1>5 DEF Acked
  <2> QED BY <1>0, <2>1 DEF requesterVars, responderVars, MaxMessages, Staging, Slot
<1>6. CASE PollPeer
  <2>1. /\ expected_seq' = expected_seq + 1
        /\ inbox[SlotIdx(expected_seq)].seq = expected_seq
        /\ UNCHANGED <<pc, requesterVars, inbox, reply_staging, reply_staging_idx, replied>>
    BY <1>6 DEF PollPeer
  <2>2. SlotIdx(expected_seq) \in Slot
    BY <1>n, SlotRange
  <2>3. expected_seq < head_seq
    BY <1>0, <1>n, <2>1, <2>2 DEF Inbox
  <2>4. expected_seq' \in 1 .. head_seq
    BY <1>n, <2>1, <2>3
  <2> QED BY <1>0, <2>1, <2>4 DEF requesterVars, MaxMessages, Staging, Slot
<1>7. ASSUME NEW r \in Rank, NEW w \in dwq[r], NicDeliver(r, w) PROVE Clients'
  <2>1. /\ w.st = "sent"
        /\ IF w.put.part = "ack"
           THEN local_ack' = w.data /\ UNCHANGED inbox
           ELSE /\ inbox' = IF w.put.part = "body"
                            THEN [inbox EXCEPT ![w.put.slot].body = w.data]
                            ELSE [inbox EXCEPT ![w.put.slot].seq = w.data]
                /\ UNCHANGED local_ack
        /\ UNCHANGED <<pc, staging, staging_idx, head_seq, expected_seq,
                       reply_staging, reply_staging_idx, replied>>
    BY <1>7, NicDeliverTo DEF NicDeliver, Deliver
  <2>2. CASE r = Responder
    <3>1. w.put.part = "ack" /\ w.data = replied
      BY <1>0, <2>1, <2>2 DEF Acks
    <3> QED BY <1>0, <2>1, <3>1 DEF MaxMessages, Staging, Slot
  <2>3. CASE r = Requester
    <3>1. w \in Outgoing
      BY <2>3 DEF Outgoing
    <3>2. w.data \in 0 .. MaxMessages /\ w.put.part # "ack" /\ w.put.slot \in Slot
      BY <1>0, <2>1, <3>1, WriteFacts DEF Outgoings
    <3>3. inbox' \in [Slot -> [seq : 0 .. MaxMessages, body : 0 .. MaxMessages]]
      <4> HIDE DEF Clients
      <4>1. inbox \in [Slot -> [seq : 0 .. MaxMessages, body : 0 .. MaxMessages]]
        BY <1>0 DEF Clients
      <4>2. CASE w.put.part = "body"
        <5>1. inbox' = [inbox EXCEPT ![w.put.slot].body = w.data]
          BY <2>1, <4>2
        <5> QED BY <3>2, <4>1, <5>1
      <4>3. CASE w.put.part # "body"
        <5>1. inbox' = [inbox EXCEPT ![w.put.slot].seq = w.data]
          BY <2>1, <3>2, <4>3
        <5> QED BY <3>2, <4>1, <5>1
      <4> QED BY <4>2, <4>3
    <3> QED BY <1>0, <2>1, <3>2, <3>3 DEF MaxMessages, Staging, Slot
  <2> QED BY <2>2, <2>3, Members
<1>8. CASE UNCHANGED <<pc, requesterVars, responderVars>>
  BY <1>0, <1>8 DEF requesterVars, responderVars, MaxMessages, Staging, Slot
<1>9. CASE \/ UNCHANGED vars
           \/ \E r \in Rank : \/ TriggerKernel(r) \/ NicWriteBack(r)
                              \/ \E w \in dwq[r] : NicSend(r, w)
  BY <1>8, <1>9 DEF vars, amVars, TriggerKernel, NicWriteBack, NicSend
<1> HIDE DEF Clients
<1> QED BY <1>1, <1>2, <1>3, <1>4, <1>5, <1>6, <1>7, <1>9
        DEF Next, Host, Nic, Finished
-----------------------------------------------------------------------------
(* The turns of the two clients.                                           *)

LEMMA TurnsStep == IInv /\ [Next]_vars => Turns'
<1> SUFFICES ASSUME IInv, [Next]_vars PROVE Turns'
  OBVIOUS
<1>0. TypeOK /\ Arrays /\ Turns /\ Counters /\ Phase /\ Inbox
  BY DEF IInv
<1>n. /\ head_seq \in Nat /\ expected_seq \in Nat /\ replied \in Nat
      /\ expected_seq <= head_seq
      /\ staging_idx \in Nat /\ StagingSize \in Nat /\ StagingSize >= 1
      /\ staging_idx <= StagingSize
      /\ trigger_cntr[Requester] \in Nat /\ stream[Requester] \in Nat
      /\ max_threshold[Requester] \in Nat
      /\ trigger_cntr[Requester] <= current_threshold[Requester]
      /\ current_threshold[Requester] = 2 * (head_seq - 1)
      /\ Requester \in Rank /\ Responder \in Rank /\ Requester # Responder
  BY <1>0, Numbers, Members DEF Counters
<1>1. CASE SendHandle
  <2>1. /\ current_threshold'[Requester] = 2 * head_seq
        /\ max_threshold'[Requester] = 2 * head_seq
        /\ pc[Requester] = "client"
    BY <1>1, SendTo
  <2>2. UNCHANGED <<pc, replied, expected_seq, trigger_cntr, stream>>
    BY <1>1 DEF SendHandle, PutRaw, responderVars
  <2> QED BY <1>0, <1>n, <2>1, <2>2 DEF Turns
<1>2. CASE Reply
  <2>1. /\ replied' = expected_seq - 1 /\ pc[Requester] # "client"
        /\ current_threshold'[Requester] = current_threshold[Requester]
        /\ max_threshold'[Requester] = max_threshold[Requester]
    BY <1>2, ReplyTo
  <2>2. UNCHANGED <<pc, staging_idx, expected_seq, trigger_cntr, stream>>
    BY <1>2 DEF Reply, PutRaw, requesterVars
  <2> QED BY <1>0, <1>n, <2>1, <2>2 DEF Turns
<1>3. CASE TriggerBegin(Requester)
  <2>1. /\ pc[Requester] = "client" /\ staging_idx >= StagingSize
        /\ stream' = [stream EXCEPT ![Requester] = max_threshold[Requester]]
        /\ pc' = [pc EXCEPT ![Requester] = "wait"]
        /\ UNCHANGED <<trigger_cntr, current_threshold, max_threshold,
                       staging_idx, replied, expected_seq>>
    BY <1>3 DEF TriggerBegin, Trigger, requesterVars, responderVars
  <2>2. stream'[Requester] = current_threshold[Requester] /\ pc'[Requester] = "wait"
    BY <1>0, <1>n, <2>1 DEF Turns, Arrays
  <2>3. trigger_cntr[Requester] < current_threshold[Requester]
    <3>1. head_seq - 1 = replied + staging_idx /\ staging_idx = StagingSize
      BY <1>0, <1>n, <2>1 DEF Phase, Outstanding
    <3>2. trigger_cntr[Requester] <= 2 * replied
      BY <1>0, <2>1 DEF Turns
    <3> QED BY <1>n, <3>1, <3>2
  <2>4. staging_idx = StagingSize
    BY <1>n, <2>1
  <2> QED BY <1>0, <2>1, <2>2, <2>3, <2>4 DEF Turns
<1>4. CASE TriggerBegin(Responder)
  <2>1. /\ stream' = [stream EXCEPT ![Responder] = max_threshold[Responder]]
        /\ pc' = [pc EXCEPT ![Responder] = "wait"]
        /\ UNCHANGED <<trigger_cntr, current_threshold, max_threshold,
                       staging_idx, replied, expected_seq>>
    BY <1>4 DEF TriggerBegin, Trigger, requesterVars, responderVars
  <2>2. stream'[Requester] = stream[Requester] /\ pc'[Requester] = pc[Requester]
    BY <1>0, <1>n, <2>1 DEF Arrays
  <2> QED BY <1>0, <2>1, <2>2 DEF Turns
<1>5. CASE WaitEnd(Requester)
  <2>1. /\ pc[Requester] = "wait" /\ staging_idx' = 0
        /\ pc' = [pc EXCEPT ![Requester] = "await"]
        /\ UNCHANGED <<fabricVars, replied, expected_seq>>
    BY <1>5 DEF WaitEnd
  <2>2. pc'[Requester] = "await"
    BY <1>0, <1>n, <2>1 DEF Arrays
  <2> QED BY <1>0, <2>1, <2>2 DEF Turns, fabricVars
<1>6. CASE WaitEnd(Responder)
  <2>1. /\ pc' = [pc EXCEPT ![Responder] = "client"]
        /\ max_threshold' = [max_threshold EXCEPT ![Responder] = 0]
        /\ UNCHANGED <<fabricVars, replied, expected_seq, staging_idx>>
    BY <1>n, <1>6 DEF WaitEnd
  <2>2. /\ pc'[Requester] = pc[Requester]
        /\ max_threshold'[Requester] = max_threshold[Requester]
    BY <1>0, <1>n, <2>1 DEF Arrays
  <2> QED BY <1>0, <2>1, <2>2 DEF Turns, fabricVars
<1>7. CASE Acked
  <2>1. /\ pc[Requester] = "await" /\ local_ack = head_seq - 1
        /\ pc' = [pc EXCEPT ![Requester] = "client"]
        /\ UNCHANGED <<fabricVars, max_threshold, staging_idx, replied, expected_seq>>
    BY <1>7 DEF Acked, requesterVars, responderVars
  <2>2. pc'[Requester] = "client"
    BY <1>0, <1>n, <2>1 DEF Arrays
  <2>3. replied = head_seq - 1
    BY <1>0, <1>n, <2>1 DEF Phase, Outstanding
  <2>4. staging_idx = 0 /\ 2 * replied <= trigger_cntr[Requester]
    BY <1>0, <1>n, <2>1 DEF Turns
  <2>5. stream[Requester] = 0
    BY <1>0, <1>n, <2>3, <2>4 DEF Turns
  <2> QED BY <1>0, <1>n, <2>1, <2>2, <2>3, <2>4, <2>5 DEF Turns, fabricVars
<1>8. CASE PollPeer
  <2>1. /\ expected_seq' = expected_seq + 1
        /\ inbox[SlotIdx(expected_seq)].seq = expected_seq
        /\ UNCHANGED <<fabricVars, pc, max_threshold, staging_idx, replied>>
    BY <1>8 DEF PollPeer, requesterVars
  <2>2. SlotIdx(expected_seq) \in Slot /\ expected_seq > 0
    BY <1>0, Numbers, SlotRange
  <2>3. 2 * expected_seq <= trigger_cntr[Requester]
    BY <1>0, <2>1, <2>2 DEF Inbox
  <2> QED BY <1>0, <1>n, <2>1, <2>3 DEF Turns, fabricVars
<1>9. CASE TriggerKernel(Requester)
  <2>1. /\ stream[Requester] # 0
        /\ trigger_cntr' = [trigger_cntr EXCEPT ![Requester] = stream[Requester]]
        /\ stream' = [stream EXCEPT ![Requester] = 0]
        /\ UNCHANGED <<current_threshold, pc, max_threshold, staging_idx, replied,
                       expected_seq>>
    BY <1>9 DEF TriggerKernel, RunTriggerKernel, amVars, requesterVars, responderVars
  <2>2. trigger_cntr'[Requester] = stream[Requester] /\ stream'[Requester] = 0
    BY <1>0, <1>n, <2>1 DEF Arrays
  <2> QED BY <1>0, <1>n, <2>1, <2>2 DEF Turns
<1>10. CASE TriggerKernel(Responder)
  <2>1. /\ trigger_cntr' = [trigger_cntr EXCEPT ![Responder] = stream[Responder]]
        /\ stream' = [stream EXCEPT ![Responder] = 0]
        /\ UNCHANGED <<current_threshold, pc, max_threshold, staging_idx, replied,
                       expected_seq>>
    BY <1>10 DEF TriggerKernel, RunTriggerKernel, amVars, requesterVars, responderVars
  <2>2. /\ trigger_cntr'[Requester] = trigger_cntr[Requester]
        /\ stream'[Requester] = stream[Requester]
    BY <1>0, <1>n, <2>1 DEF Arrays
  <2> QED BY <1>0, <1>n, <2>1, <2>2 DEF Turns
<1>11. CASE UNCHANGED <<trigger_cntr, stream, current_threshold, pc, max_threshold,
                        staging_idx, replied, expected_seq>>
  BY <1>0, <1>11 DEF Turns
<1>12. CASE UNCHANGED vars
  BY <1>11, <1>12 DEF vars, fabricVars, amVars, requesterVars, responderVars
<1>13. ASSUME NEW r \in Rank, NicWriteBack(r) PROVE Turns'
  BY <1>11, <1>13 DEF NicWriteBack, WriteBack, amVars, requesterVars, responderVars
<1>14. ASSUME NEW r \in Rank, NEW w \in dwq[r], NicSend(r, w) PROVE Turns'
  BY <1>11, <1>14 DEF NicSend, Send, amVars, requesterVars, responderVars
<1>15. ASSUME NEW r \in Rank, NEW w \in dwq[r], NicDeliver(r, w) PROVE Turns'
  BY <1>11, <1>15 DEF NicDeliver, Deliver
<1>16. ASSUME NEW r \in Rank, Host(r) \/ TriggerKernel(r) PROVE Turns'
  <2>1. CASE r = Requester
    BY <1>3, <1>5, <1>9, <1>16, <2>1 DEF Host
  <2>2. CASE r = Responder
    BY <1>4, <1>6, <1>10, <1>16, <2>2 DEF Host
  <2> QED BY <2>1, <2>2, Members
<1>17. ASSUME NEW r \in Rank, Nic(r) PROVE Turns'
  BY <1>13, <1>14, <1>15, <1>17 DEF Nic
<1> QED BY <1>1, <1>2, <1>7, <1>8, <1>12, <1>16, <1>17 DEF Next, Finished

LEMMA PhaseStep == IInv /\ [Next]_vars => Phase'
<1> SUFFICES ASSUME IInv, [Next]_vars PROVE Phase'
  OBVIOUS
<1>0. TypeOK /\ Arrays /\ Turns /\ Phase /\ Acks /\ Counters
  BY DEF IInv
<1>n. /\ head_seq \in Nat /\ expected_seq \in Nat /\ replied \in Nat
      /\ local_ack \in Nat
      /\ staging_idx \in Nat /\ StagingSize \in Nat /\ StagingSize >= 1
      /\ staging_idx <= StagingSize
      /\ Requester \in Rank /\ Responder \in Rank /\ Requester # Responder
  BY <1>0, Numbers, Members
<1>1. CASE SendHandle
  <2>1. dwq'[Responder] = dwq[Responder] /\ pc[Requester] = "client"
    BY <1>1, SendTo
  <2>2. /\ head_seq' = head_seq + 1 /\ staging_idx' = staging_idx + 1
        /\ UNCHANGED <<pc, replied, local_ack>>
    BY <1>1 DEF SendHandle, TakeStaging, responderVars
  <2> QED BY <1>0, <1>n, <2>1, <2>2 DEF Phase, Outstanding
<1>2. CASE Reply
  <2>1. /\ replied' = head_seq - 1 /\ replied' = replied + StagingSize
        /\ local_ack = replied /\ pc[Requester] # "client"
    BY <1>2, ReplyTo
  <2>2. UNCHANGED <<pc, head_seq, local_ack>>
    BY <1>2 DEF Reply, requesterVars
  <2> QED BY <1>n, <2>1, <2>2 DEF Phase
<1>3. CASE TriggerBegin(Requester)
  <2>1. /\ pc[Requester] = "client" /\ pc' = [pc EXCEPT ![Requester] = "wait"]
        /\ UNCHANGED <<dwq, head_seq, staging_idx, replied, local_ack>>
    BY <1>3 DEF TriggerBegin, Trigger, requesterVars, responderVars
  <2>2. pc'[Requester] = "wait"
    BY <1>0, <1>n, <2>1 DEF Arrays
  <2> QED BY <1>0, <2>1, <2>2 DEF Phase, Outstanding
<1>4. CASE WaitEnd(Requester)
  <2>1. /\ pc[Requester] = "wait" /\ pc' = [pc EXCEPT ![Requester] = "await"]
        /\ UNCHANGED <<dwq, head_seq, replied, local_ack>>
    BY <1>4 DEF WaitEnd, fabricVars
  <2>2. pc'[Requester] = "await" /\ staging_idx = StagingSize
    BY <1>0, <1>n, <2>1 DEF Arrays, Turns
  <2> QED BY <1>0, <2>1, <2>2 DEF Phase, Outstanding
<1>5. CASE TriggerBegin(Responder) \/ WaitEnd(Responder)
  <2>1. /\ \E x \in {"wait", "client"} : pc' = [pc EXCEPT ![Responder] = x]
        /\ UNCHANGED <<dwq, head_seq, staging_idx, replied, local_ack>>
    <3>1. CASE TriggerBegin(Responder)
      BY <3>1 DEF TriggerBegin, Trigger, requesterVars, responderVars
    <3>2. CASE WaitEnd(Responder)
      BY <1>n, <3>2 DEF WaitEnd, fabricVars
    <3> QED BY <1>5, <3>1, <3>2
  <2>2. pc'[Requester] = pc[Requester]
    BY <1>0, <1>n, <2>1 DEF Arrays
  <2> QED BY <1>0, <2>1, <2>2 DEF Phase, Outstanding
<1>6. CASE Acked
  <2>1. /\ pc[Requester] = "await" /\ local_ack = head_seq - 1
        /\ pc' = [pc EXCEPT ![Requester] = "client"]
        /\ UNCHANGED <<dwq, head_seq, staging_idx, replied, local_ack>>
    BY <1>6 DEF Acked, fabricVars, requesterVars, responderVars
  <2>2. pc'[Requester] = "client" /\ staging_idx = 0
    BY <1>0, <1>n, <2>1 DEF Arrays, Turns
  <2>3. replied = head_seq - 1 /\ dwq[Responder] = {}
    BY <1>0, <1>n, <2>1 DEF Phase, Outstanding
  <2> QED BY <1>n, <2>1, <2>2, <2>3 DEF Phase, Outstanding
<1>7. ASSUME NEW w \in dwq[Requester], NicSend(Requester, w) PROVE Phase'
  <2>1. dwq'[Responder] = dwq[Responder]
    BY <1>n, <1>7, NicSendTo
  <2> QED BY <1>0, <1>7, <2>1
          DEF NicSend, amVars, requesterVars, responderVars, Phase, Outstanding
<1>8. ASSUME NEW w \in dwq[Responder], NicSend(Responder, w) PROVE Phase'
  <2>1. local_ack # replied /\ dwq[Responder] # {}
    BY <1>0, <1>8 DEF Phase
  <2> QED BY <1>0, <1>8, <2>1
          DEF NicSend, amVars, requesterVars, responderVars, Phase, Outstanding
<1>9. ASSUME NEW w \in dwq[Requester], NicDeliver(Requester, w) PROVE Phase'
  <2>1. dwq'[Responder] = dwq[Responder]
    BY <1>n, <1>9, NicDeliverTo
  <2>2. w.put.part # "ack"
    BY WriteFacts DEF Outgoing
  <2> QED BY <1>0, <1>9, <2>1, <2>2 DEF NicDeliver, Phase, Outstanding
<1>10. ASSUME NEW w \in dwq[Responder], NicDeliver(Responder, w) PROVE Phase'
  <2>1. w.put.part = "ack" /\ w.data = replied
    <3>1. w.st = "sent"
      BY <1>10 DEF NicDeliver, Deliver
    <3> QED BY <1>0, <3>1 DEF Acks
  <2>2. local_ack' = replied /\ UNCHANGED <<pc, head_seq, replied>>
    BY <1>10, <2>1 DEF NicDeliver
  <2>3. head_seq - 1 = replied /\ pc[Requester] # "client"
    BY <1>0 DEF Phase
  <2>4. dwq'[Responder] = {}
    <3>1. dwq'[Responder] = dwq[Responder] \ {w}
      BY <1>n, <1>10, NicDeliverTo
    <3>2. dwq[Responder] = {w}
      BY <1>0 DEF Acks
    <3> QED BY <3>1, <3>2
  <2> QED BY <1>n, <2>2, <2>3, <2>4 DEF Phase
<1>11. CASE UNCHANGED <<dwq, pc, head_seq, staging_idx, replied, local_ack>>
  BY <1>0, <1>11 DEF Phase, Outstanding
<1>12. CASE \/ UNCHANGED vars \/ PollPeer
            \/ \E r \in Rank : NicWriteBack(r) \/ TriggerKernel(r)
  BY <1>11, <1>12 DEF vars, fabricVars, amVars, requesterVars, responderVars,
                      PollPeer, NicWriteBack, WriteBack, TriggerKernel, RunTriggerKernel
<1>13. ASSUME NEW r \in Rank, Nic(r) PROVE Phase'
  BY <1>7, <1>8, <1>9, <1>10, <1>12, <1>13, Members DEF Nic
<1>14. ASSUME NEW r \in Rank, Host(r) PROVE Phase'
  BY <1>3, <1>4, <1>5, <1>14, Members DEF Host
<1> QED BY <1>1, <1>2, <1>6, <1>12, <1>13, <1>14 DEF Next, Finished
LEMMA AcksStep == IInv /\ [Next]_vars => Acks'
<1> SUFFICES ASSUME IInv, [Next]_vars PROVE Acks'
  OBVIOUS
<1>0. TypeOK /\ Acks
  BY DEF IInv
<1>1. CASE SendHandle
  <2>1. dwq'[Responder] = dwq[Responder] /\ UNCHANGED <<reply_staging, replied>>
    BY <1>1, SendTo DEF SendHandle, responderVars
  <2> QED BY <1>0, <2>1 DEF Acks
<1>2. CASE Reply
  <2> DEFINE a == Write(Part("ack", expected_seq - 1, reply_staging_idx),
                        current_threshold[Responder] + 1)
  <2>1. /\ dwq'[Responder] = {a} /\ reply_staging_idx \in Staging
        /\ replied' = expected_seq - 1
    BY <1>2, ReplyTo
  <2>2. reply_staging' = [reply_staging EXCEPT ![reply_staging_idx] = expected_seq - 1]
    BY <1>2 DEF Reply
  <2>3. reply_staging'[reply_staging_idx] = expected_seq - 1
    BY <1>0, <2>1, <2>2 DEF TypeOK
  <2>4. /\ a.put.part = "ack" /\ a.put.msg = expected_seq - 1
        /\ a.put.buf = reply_staging_idx /\ a.st = "queued"
    BY DEF Write, Part
  <2> HIDE DEF a
  <2> QED BY <2>1, <2>3, <2>4 DEF Acks
<1>3. ASSUME NEW w \in dwq[Requester], NicSend(Requester, w) \/ NicDeliver(Requester, w)
      PROVE Acks'
  <2>1. dwq'[Responder] = dwq[Responder]
    BY <1>3, NicSendTo, NicDeliverTo, Members
  <2>2. UNCHANGED <<reply_staging, replied>>
    BY <1>3 DEF NicSend, NicDeliver, amVars, responderVars
  <2> QED BY <1>0, <2>1, <2>2 DEF Acks
<1>4. ASSUME NEW w \in dwq[Responder], NicSend(Responder, w) PROVE Acks'
  <2> DEFINE n == Sent(w, Source(w.put))
  <2>1. dwq[Responder] = {w} /\ w.put.part = "ack" /\ w.put.msg = replied
    BY <1>0 DEF Acks
  <2>2. /\ dwq'[Responder] = (dwq[Responder] \ {w}) \cup {n} /\ w.st = "queued"
    BY <1>4, NicSendTo, Members
  <2>3. UNCHANGED <<reply_staging, replied>>
    BY <1>4 DEF NicSend, amVars, responderVars
  <2>4. n.st = "sent" /\ n.put = w.put /\ n.data = Source(w.put)
    BY DEF Sent
  <2>5. Source(w.put) = replied
    BY <1>0, <2>1, <2>2 DEF Source, Acks
  <2> HIDE DEF n
  <2> QED BY <2>1, <2>2, <2>3, <2>4, <2>5 DEF Acks
<1>5. ASSUME NEW w \in dwq[Responder], NicDeliver(Responder, w) PROVE Acks'
  <2>1. dwq'[Responder] = dwq[Responder] \ {w} /\ dwq[Responder] = {w}
    BY <1>0, <1>5, NicDeliverTo, Members DEF Acks
  <2> QED BY <2>1 DEF Acks
<1>6. CASE UNCHANGED <<dwq, reply_staging, replied>>
  BY <1>0, <1>6 DEF Acks
<1>7. CASE \/ UNCHANGED vars \/ PollPeer \/ Acked
           \/ \E r \in Rank : NicWriteBack(r) \/ TriggerKernel(r) \/ Host(r)
  BY <1>6, <1>7 DEF vars, fabricVars, amVars, requesterVars, responderVars,
                    PollPeer, Acked, NicWriteBack, WriteBack, TriggerKernel,
                    RunTriggerKernel, Host, TriggerBegin, Trigger, WaitEnd
<1>8. ASSUME NEW r \in Rank, Nic(r) PROVE Acks'
  BY <1>3, <1>4, <1>5, <1>7, <1>8, Members DEF Nic
<1> QED BY <1>1, <1>2, <1>7, <1>8 DEF Next, Finished

-----------------------------------------------------------------------------
(* The requester's writes.                                                 *)

(* What the steps leave of the requester's queue: most do not touch it.    *)
LEMMA QueueStays ==
    ASSUME IInv, [Next]_vars, ~SendHandle,
           ~\E w \in Outgoing : NicSend(Requester, w) \/ NicDeliver(Requester, w)
    PROVE  /\ Outgoing' = Outgoing
           /\ UNCHANGED <<head_seq, staging, inbox>>
<1>0. Acks
  BY DEF IInv
<1>1. CASE Reply
  BY <1>1, ReplyTo DEF Reply, PutRaw, requesterVars
<1>2. ASSUME NEW w \in dwq[Responder], NicSend(Responder, w)
      PROVE  /\ Outgoing' = Outgoing
             /\ UNCHANGED <<head_seq, staging, inbox>>
  <2>1. dwq'[Requester] = dwq[Requester]
    BY <1>2, NicSendTo, Members
  <2> QED BY <1>2, <2>1 DEF NicSend, Send, amVars, requesterVars, responderVars, Outgoing
<1>3. ASSUME NEW w \in dwq[Responder], NicDeliver(Responder, w)
      PROVE  /\ Outgoing' = Outgoing
             /\ UNCHANGED <<head_seq, staging, inbox>>
  <2>1. dwq'[Requester] = dwq[Requester] /\ w.put.part = "ack"
    BY <1>0, <1>3, NicDeliverTo, Members DEF Acks
  <2> QED BY <1>3, <2>1 DEF NicDeliver, Deliver, Outgoing
<1>4. CASE \/ UNCHANGED vars \/ PollPeer \/ Acked
           \/ \E r \in Rank : NicWriteBack(r) \/ TriggerKernel(r) \/ Host(r)
  BY <1>4 DEF vars, fabricVars, amVars, requesterVars, responderVars,
              PollPeer, Acked, NicWriteBack, WriteBack, TriggerKernel,
              RunTriggerKernel, Host, TriggerBegin, Trigger, WaitEnd, Outgoing
<1>5. ASSUME NEW r \in Rank, Nic(r)
      PROVE  /\ Outgoing' = Outgoing
             /\ UNCHANGED <<head_seq, staging, inbox>>
  BY <1>2, <1>3, <1>4, <1>5, Members DEF Nic, Outgoing
<1> QED BY <1>1, <1>4, <1>5 DEF Next, Finished

(* The requester's trigger counter, and the numbers that the responder     *)
(* expects and has replied to, never go back.                              *)
LEMMA Forward ==
    ASSUME IInv, [Next]_vars
    PROVE  /\ trigger_cntr'[Requester] >= trigger_cntr[Requester]
           /\ trigger_cntr[Requester] \in Nat /\ trigger_cntr'[Requester] \in Nat
           /\ expected_seq \in Nat
           /\ PollPeer \/ expected_seq' = expected_seq
           /\ expected_seq' \in {expected_seq, expected_seq + 1}
           /\ Reply \/ replied' = replied
          
<1>0. TypeOK /\ Arrays /\ Turns
  BY DEF IInv
<1>n. /\ trigger_cntr[Requester] \in Nat /\ stream[Requester] \in Nat
      /\ expected_seq \in Nat
  BY <1>0, Numbers, Members
<1>1. ASSUME NEW r \in Rank, TriggerKernel(r)
      PROVE  /\ trigger_cntr'[Requester] >= trigger_cntr[Requester]
             /\ trigger_cntr'[Requester] \in Nat
  <2>1. trigger_cntr' = [trigger_cntr EXCEPT ![r] = stream[r]] /\ stream[r] # 0
    BY <1>1 DEF TriggerKernel, RunTriggerKernel
  <2>2. trigger_cntr'[Requester] = IF r = Requester THEN stream[r] ELSE trigger_cntr[Requester]
    BY <1>0, <2>1, Members DEF Arrays
  <2> QED BY <1>0, <1>n, <2>1, <2>2 DEF Turns
<1>2. (\E r \in Rank : TriggerKernel(r)) \/ trigger_cntr' = trigger_cntr
  BY DEF Next, vars, fabricVars, SendHandle, PutRaw, Reply, PollPeer, Acked,
         Host, TriggerBegin, Trigger, WaitEnd, Nic, NicSend, Send, NicDeliver,
         Deliver, NicWriteBack, WriteBack, Finished
<1>3. PollPeer \/ expected_seq' = expected_seq
  BY DEF Next, vars, amVars, responderVars, SendHandle, Reply, Acked,
         Host, TriggerBegin, WaitEnd, TriggerKernel, Nic, NicSend, NicDeliver,
         NicWriteBack, Finished
<1>4. PollPeer => expected_seq' = expected_seq + 1
  BY DEF PollPeer
<1>5. Reply \/ replied' = replied
  BY DEF Next, vars, amVars, responderVars, SendHandle, PollPeer, Acked,
         Host, TriggerBegin, WaitEnd, TriggerKernel, Nic, NicSend, NicDeliver,
         NicWriteBack, Finished
<1> QED BY <1>n, <1>1, <1>2, <1>3, <1>4, <1>5

(* The two writes of a message that send_handle() queues.                  *)
LEMMA NewWrites ==
    ASSUME IInv, SendHandle
    PROVE  \E b, q :
             /\ Outgoing' = Outgoing \cup {b, q}
             /\ b.put = Part("body", head_seq, staging_idx)
             /\ q.put = Part("seq", head_seq, staging_idx)
             /\ b.threshold = 2 * head_seq - 1 /\ q.threshold = 2 * head_seq
             /\ b.st = "queued" /\ q.st = "queued"
             /\ head_seq' = head_seq + 1 /\ head_seq \in Nat /\ head_seq >= 1
             /\ staging_idx \in Staging /\ staging_idx = head_seq - 1 - replied
             /\ staging' = [staging EXCEPT ![staging_idx] = head_seq]
             /\ UNCHANGED <<inbox, expected_seq, replied, trigger_cntr>>
<1> DEFINE b == Write(Part("body", head_seq, staging_idx), 2 * head_seq - 1)
           q == Write(Part("seq", head_seq, staging_idx), 2 * head_seq)
<1>1. Outgoing' = Outgoing \cup {b, q} /\ staging_idx \in Staging /\ pc[Requester] = "client"
  BY SendTo
<1>2. /\ b.put = Part("body", head_seq, staging_idx)
      /\ q.put = Part("seq", head_seq, staging_idx)
      /\ b.threshold = 2 * head_seq - 1 /\ q.threshold = 2 * head_seq
      /\ b.st = "queued" /\ q.st = "queued"
  BY DEF Write
<1>3. /\ head_seq \in Nat /\ head_seq >= 1 /\ staging_idx = head_seq - 1 - replied
  <2>1. TypeOK /\ Phase
    BY DEF IInv
  <2>2. head_seq \in Nat /\ head_seq >= 1 /\ staging_idx \in Nat /\ replied \in Nat
    BY <2>1, Numbers
  <2>3. head_seq - 1 = replied + staging_idx
    BY <1>1, <2>1 DEF Phase, Outstanding
  <2> QED BY <2>2, <2>3
<1>4. /\ head_seq' = head_seq + 1
      /\ staging' = [staging EXCEPT ![staging_idx] = head_seq]
      /\ UNCHANGED <<inbox, expected_seq, replied, trigger_cntr>>
  BY DEF SendHandle, PutRaw, responderVars
<1> HIDE DEF b, q
<1> QED BY <1>1, <1>2, <1>3, <1>4
(* A write sent, or delivered, is a write of the requester as it was.      *)
LEMMA SentFacts ==
    ASSUME IInv, NEW w \in Outgoing, NicSend(Requester, w)
    PROVE  \E n :
             /\ Outgoing' = (Outgoing \ {w}) \cup {n}
             /\ n.threshold = w.threshold /\ n.put = w.put
             /\ n.st = "sent" /\ n.data = staging[w.put.buf]
             /\ w.st = "queued" /\ w.threshold <= trigger_cntr[Requester]
             /\ UNCHANGED <<head_seq, staging, inbox, expected_seq, replied,
                            trigger_cntr>>
<1> DEFINE n == Sent(w, Source(w.put))
<1>1. /\ Outgoing' = (Outgoing \ {w}) \cup {n}
      /\ w.st = "queued" /\ w.threshold <= trigger_cntr[Requester]
  BY NicSendTo, Members DEF Outgoing
<1>2. /\ n.threshold = w.threshold /\ n.put = w.put
      /\ n.st = "sent" /\ n.data = Source(w.put)
  BY DEF Sent
<1>3. Source(w.put) = staging[w.put.buf]
  BY WriteFacts DEF Source
<1>4. UNCHANGED <<head_seq, staging, inbox, expected_seq, replied, trigger_cntr>>
  BY DEF NicSend, Send, amVars, requesterVars, responderVars
<1> HIDE DEF n
<1> QED BY <1>1, <1>2, <1>3, <1>4

LEMMA DeliveredFacts ==
    ASSUME IInv, NEW w \in Outgoing, NicDeliver(Requester, w)
    PROVE  /\ Outgoing' = Outgoing \ {w}
           /\ w.st = "sent"
           /\ inbox' = IF w.put.part = "body"
                       THEN [inbox EXCEPT ![w.put.slot].body = w.data]
                       ELSE [inbox EXCEPT ![w.put.slot].seq = w.data]
           /\ UNCHANGED <<head_seq, staging, expected_seq, replied,
                          trigger_cntr>>
<1>1. w.put.part # "ack"
  BY WriteFacts
<1>2. /\ Outgoing' = Outgoing \ {w}
      /\ w.st = "sent"
  BY NicDeliverTo, Members DEF Outgoing
<1> QED BY <1>1, <1>2 DEF NicDeliver, Deliver

LEMMA OutgoingsStep == IInv /\ [Next]_vars => Outgoings'
<1> SUFFICES ASSUME IInv, [Next]_vars PROVE Outgoings'
  OBVIOUS
<1>0. TypeOK /\ Outgoings
  BY DEF IInv
<1>1. CASE SendHandle
  <2>1. PICK b, q :
             /\ Outgoing' = Outgoing \cup {b, q}
             /\ b.put = Part("body", head_seq, staging_idx)
             /\ q.put = Part("seq", head_seq, staging_idx)
             /\ b.threshold = 2 * head_seq - 1 /\ q.threshold = 2 * head_seq
             /\ b.st = "queued" /\ q.st = "queued"
             /\ head_seq' = head_seq + 1 /\ head_seq \in Nat /\ head_seq >= 1
             /\ UNCHANGED trigger_cntr
    BY <1>1, NewWrites
  <2>2. /\ b.put.part = "body" /\ b.put.msg = head_seq /\ b.put.slot = SlotIdx(head_seq)
        /\ q.put.part = "seq" /\ q.put.msg = head_seq /\ q.put.slot = SlotIdx(head_seq)
    BY <2>1 DEF Part
  <2>3. head_seq \in 1 .. head_seq' - 1 /\ 1 .. head_seq - 1 \subseteq 1 .. head_seq' - 1
    BY <2>1
  <2>4. ASSUME NEW w \in Outgoing
        PROVE  /\ w.put.part \in {"body", "seq"}
               /\ w.put.msg \in 1 .. head_seq' - 1
               /\ w.put.slot = SlotIdx(w.put.msg)
               /\ w.threshold = IF w.put.part = "seq" THEN 2 * w.put.msg
                                                      ELSE 2 * w.put.msg - 1
               /\ w.st = "sent" => /\ w.threshold <= trigger_cntr'[Requester]
                                   /\ w.data \in 0 .. MaxMessages
    BY <1>0, <2>1, <2>3 DEF Outgoings
  <2> QED BY <2>1, <2>2, <2>3, <2>4 DEF Outgoings, SlotIdx, MaxMessages
<1>2. ASSUME NEW w \in Outgoing, NicSend(Requester, w) PROVE Outgoings'
  <2>1. PICK n :
             /\ Outgoing' = (Outgoing \ {w}) \cup {n}
             /\ n.threshold = w.threshold /\ n.put = w.put
             /\ n.st = "sent" /\ n.data = staging[w.put.buf]
             /\ w.threshold <= trigger_cntr[Requester]
             /\ UNCHANGED <<head_seq, trigger_cntr>>
    BY <1>2, SentFacts
  <2>2. n.data \in 0 .. MaxMessages
    BY <1>0, <2>1, WriteFacts DEF TypeOK
  <2> QED BY <1>0, <2>1, <2>2 DEF Outgoings, SlotIdx, MaxMessages
<1>3. ASSUME NEW w \in Outgoing, NicDeliver(Requester, w) PROVE Outgoings'
  BY <1>0, <1>3, DeliveredFacts DEF Outgoings, SlotIdx, MaxMessages
<1>4. CASE /\ ~SendHandle
           /\ ~\E w \in Outgoing : NicSend(Requester, w) \/ NicDeliver(Requester, w)
  <2>1. Outgoing' = Outgoing /\ head_seq' = head_seq
    BY <1>4, QueueStays
  <2>2. /\ trigger_cntr'[Requester] >= trigger_cntr[Requester]
        /\ trigger_cntr[Requester] \in Nat /\ trigger_cntr'[Requester] \in Nat
    BY Forward
  <2>3. \A w \in Outgoing : w.threshold \in Nat
    BY WriteFacts
  <2> QED BY <1>0, <2>1, <2>2, <2>3 DEF Outgoings, SlotIdx, MaxMessages
<1> QED BY <1>1, <1>2, <1>3, <1>4

LEMMA UnhandledStep == IInv /\ [Next]_vars => Unhandled'
<1> SUFFICES ASSUME IInv, [Next]_vars PROVE Unhandled'
  OBVIOUS
<1>0. TypeOK /\ Outgoings /\ Unhandled /\ Inbox
  BY DEF IInv
<1>n. expected_seq \in Nat /\ expected_seq >= 1 /\ head_seq \in Nat
      /\ expected_seq <= head_seq /\ replied \in Nat
  BY <1>0, Numbers
<1>1. CASE SendHandle
  <2>1. PICK b, q :
             /\ Outgoing' = Outgoing \cup {b, q}
             /\ b.put = Part("body", head_seq, staging_idx)
             /\ q.put = Part("seq", head_seq, staging_idx)
             /\ b.st = "queued" /\ q.st = "queued"
             /\ staging_idx \in Staging /\ staging_idx = head_seq - 1 - replied
             /\ staging' = [staging EXCEPT ![staging_idx] = head_seq]
             /\ UNCHANGED <<expected_seq, replied>>
    BY <1>1, NewWrites
  <2>2. /\ b.put.msg = head_seq /\ b.put.buf = staging_idx
        /\ q.put.msg = head_seq /\ q.put.buf = staging_idx
    BY <2>1 DEF Part
  <2>3. staging'[staging_idx] = head_seq
    BY <1>0, <2>1 DEF TypeOK
  <2>4. ASSUME NEW w \in Outgoing, w.put.part = "seq"
        PROVE  /\ w.put.msg >= expected_seq
               /\ w.put.buf = w.put.msg - 1 - replied
               /\ w.st = "queued" => staging'[w.put.buf] = w.put.msg
               /\ w.st = "sent" => w.data = w.put.msg
    <3>1. w.put.buf = w.put.msg - 1 - replied /\ w.put.msg < head_seq
          /\ w.put.msg \in Nat /\ w.put.buf \in Staging
      BY <1>0, <2>4, WriteFacts DEF Unhandled
    <3>2. w.put.buf # staging_idx
      BY <1>n, <2>1, <3>1
    <3>3. staging'[w.put.buf] = staging[w.put.buf]
      BY <1>0, <2>1, <3>1, <3>2 DEF TypeOK
    <3> QED BY <1>0, <2>4, <3>3 DEF Unhandled
  <2> QED BY <1>n, <2>1, <2>2, <2>3, <2>4 DEF Unhandled
<1>2. ASSUME NEW w \in Outgoing, NicSend(Requester, w) PROVE Unhandled'
  <2>1. PICK n :
             /\ Outgoing' = (Outgoing \ {w}) \cup {n}
             /\ n.put = w.put /\ n.st = "sent" /\ n.data = staging[w.put.buf]
             /\ w.st = "queued"
             /\ UNCHANGED <<staging, expected_seq, replied>>
    BY <1>2, SentFacts
  <2> QED BY <1>0, <2>1 DEF Unhandled
<1>3. ASSUME NEW w \in Outgoing, NicDeliver(Requester, w) PROVE Unhandled'
  BY <1>0, <1>3, DeliveredFacts DEF Unhandled
<1>4. CASE Reply
  <2>1. Outgoing' = Outgoing /\ replied' = head_seq - 1 /\ replied' = expected_seq - 1
    BY <1>4, ReplyTo
  <2>2. expected_seq' = expected_seq
    BY <1>4, Forward DEF Reply
  <2>3. \A w \in Outgoing : w.put.part # "seq"
    <3> SUFFICES ASSUME NEW w \in Outgoing, w.put.part = "seq" PROVE FALSE
      OBVIOUS
    <3>1. w.put.msg >= expected_seq /\ w.put.msg < head_seq /\ w.put.msg \in Nat
      BY <1>0, WriteFacts DEF Unhandled
    <3> QED BY <1>n, <2>1, <3>1
  <2> QED BY <2>1, <2>2, <2>3 DEF Unhandled
<1>5. CASE PollPeer
  <2>1. /\ inbox[SlotIdx(expected_seq)].seq = expected_seq
        /\ expected_seq' = expected_seq + 1
        /\ UNCHANGED <<dwq, staging, replied>>
    BY <1>5 DEF PollPeer, fabricVars, requesterVars
  <2>2. Delivered(expected_seq)
    <3>1. SlotIdx(expected_seq) \in Slot
      BY <1>n, SlotRange
    <3> QED BY <1>0, <1>n, <2>1, <3>1 DEF Inbox
  <2>3. ASSUME NEW w \in Outgoing, w.put.part = "seq"
        PROVE  w.put.msg >= expected_seq + 1
    <3>1. /\ w.put.msg >= expected_seq /\ w.put.msg \in Nat
          /\ w.put.part \in {"body", "seq"}
          /\ w.threshold = IF w.put.part = "seq" THEN 2 * w.put.msg
                                                 ELSE 2 * w.put.msg - 1
          /\ w.threshold # 2 * expected_seq
      BY <1>0, <2>2, <2>3, WriteFacts DEF Unhandled, Outgoings, Delivered
    <3> QED BY <1>n, <2>3, <3>1
  <2> QED BY <1>0, <2>1, <2>3 DEF Unhandled, Outgoing
<1>6. CASE /\ ~SendHandle /\ ~PollPeer /\ ~Reply
           /\ ~\E w \in Outgoing : NicSend(Requester, w) \/ NicDeliver(Requester, w)
  <2>1. Outgoing' = Outgoing /\ staging' = staging
    BY <1>6, QueueStays
  <2>2. expected_seq' = expected_seq /\ replied' = replied
    BY <1>6, Forward
  <2> QED BY <1>0, <2>1, <2>2 DEF Unhandled
<1> QED BY <1>1, <1>2, <1>3, <1>4, <1>5, <1>6
-----------------------------------------------------------------------------
(* The ring.                                                               *)

LEMMA InboxStep == IInv /\ [Next]_vars => Inbox'
<1> SUFFICES ASSUME IInv, [Next]_vars PROVE Inbox'
  OBVIOUS
<1>0. TypeOK /\ Outgoings /\ Unhandled /\ Inbox /\ Counters
  BY DEF IInv
<1>n. /\ expected_seq \in Nat /\ expected_seq >= 1 /\ head_seq \in Nat
      /\ \A s \in Slot : inbox[s].seq \in Nat
      /\ \A s \in Slot : inbox[s].seq < head_seq \/ inbox[s].seq = 0
      /\ trigger_cntr[Requester] \in Nat
  BY <1>0, Numbers, Members DEF Inbox
<1>1. CASE SendHandle
  <2>1. PICK b, q :
             /\ Outgoing' = Outgoing \cup {b, q}
             /\ b.threshold = 2 * head_seq - 1 /\ q.threshold = 2 * head_seq
             /\ head_seq' = head_seq + 1
             /\ UNCHANGED <<inbox, expected_seq, trigger_cntr>>
    BY <1>1, NewWrites
  <2>2. ASSUME NEW s \in Slot, inbox[s].seq > 0 PROVE Delivered(inbox[s].seq)'
    <3>1. Delivered(inbox[s].seq) /\ inbox[s].seq < head_seq /\ inbox[s].seq \in Nat
      BY <1>0, <1>n, <2>2 DEF Inbox
    <3>2. /\ b.threshold > 2 * inbox[s].seq /\ q.threshold > 2 * inbox[s].seq
          /\ b.threshold # 2 * inbox[s].seq /\ q.threshold # 2 * inbox[s].seq
      BY <1>n, <2>1, <3>1
    <3> QED BY <2>1, <3>1, <3>2 DEF Delivered
  <2> QED BY <1>0, <1>n, <2>1, <2>2 DEF Inbox, SlotIdx
<1>2. ASSUME NEW w \in Outgoing, NicSend(Requester, w) PROVE Inbox'
  <2>1. PICK n :
             /\ Outgoing' = (Outgoing \ {w}) \cup {n}
             /\ n.threshold = w.threshold
             /\ UNCHANGED <<head_seq, inbox, expected_seq, trigger_cntr>>
    BY <1>2, SentFacts
  <2>2. ASSUME NEW s \in Slot, inbox[s].seq > 0 PROVE Delivered(inbox[s].seq)'
    BY <1>0, <2>1, <2>2 DEF Inbox, Delivered
  <2> QED BY <1>0, <2>1, <2>2 DEF Inbox, SlotIdx
<1>3. ASSUME NEW w \in Outgoing, NicDeliver(Requester, w) PROVE Inbox'
  <2> DEFINE m == w.put.msg
             slot == w.put.slot
  <2>1. /\ Outgoing' = Outgoing \ {w} /\ w.st = "sent"
        /\ UNCHANGED <<head_seq, expected_seq, trigger_cntr>>
    BY <1>3, DeliveredFacts
  <2>2. /\ m \in Nat /\ m >= 1 /\ m < head_seq /\ slot = SlotIdx(m) /\ slot \in Slot
        /\ w.put.part \in {"body", "seq"}
    BY WriteFacts
  <2>3. /\ w.threshold = IF w.put.part = "seq" THEN 2 * m ELSE 2 * m - 1
        /\ w.threshold <= trigger_cntr[Requester]
    BY <1>0, <2>1 DEF Outgoings
  <2>4. w.put.part = "seq" => m >= expected_seq /\ w.data = m
    BY <1>0, <2>1 DEF Unhandled
  <2>5. \A s \in Slot : inbox[s].seq > 0 =>
          \A v \in Outgoing' : v.threshold # 2 * inbox[s].seq
    BY <1>0, <2>1 DEF Inbox, Delivered
  <2>6. CASE w.put.part = "body"
    <3>1. inbox' = [inbox EXCEPT ![slot].body = w.data]
      BY <1>3, <2>6, DeliveredFacts
    <3>2. \A s \in Slot : /\ inbox'[s].seq = inbox[s].seq
                          /\ s # slot => inbox'[s].body = inbox[s].body
      BY <1>0, <3>1 DEF TypeOK
    <3> HIDE DEF slot, m
    <3>4. ASSUME NEW s \in Slot, inbox'[s].seq > 0
          PROVE  /\ SlotIdx(inbox'[s].seq) = s
                 /\ inbox'[s].seq < head_seq'
                 /\ 2 * inbox'[s].seq <= trigger_cntr'[Requester]
                 /\ \A v \in Outgoing' : v.threshold # 2 * inbox'[s].seq
      BY <1>0, <2>1, <2>5, <3>2, <3>4 DEF Inbox
    <3> QED BY <2>1, <3>4 DEF Inbox, Delivered, SlotIdx
  <2>7. CASE w.put.part = "seq"
    <3>1. inbox' = [inbox EXCEPT ![slot].seq = m]
      BY <1>3, <2>4, <2>7, DeliveredFacts
    <3>2. /\ inbox'[slot].seq = m /\ inbox'[slot].body = inbox[slot].body
          /\ \A s \in Slot : s # slot => inbox'[s] = inbox[s]
      BY <1>0, <2>2, <3>1 DEF TypeOK
    <3>3. \A v \in Outgoing : v.threshold = w.threshold => v = w
      BY <1>0, Members DEF Counters, Tally, Outgoing
    <3>4. Delivered(m)'
      <4>1. \A v \in Outgoing : v.threshold \in Nat
        BY WriteFacts
      <4> QED BY <2>1, <2>2, <2>3, <2>7, <3>3, <4>1 DEF Delivered
    <3> HIDE DEF slot, m
    <3>6. ASSUME NEW s \in Slot, inbox'[s].seq > 0
          PROVE  /\ SlotIdx(inbox'[s].seq) = s
                 /\ inbox'[s].seq < head_seq'
                 /\ 2 * inbox'[s].seq <= trigger_cntr'[Requester]
                 /\ \A v \in Outgoing' : v.threshold # 2 * inbox'[s].seq
      <4>1. CASE s = slot
        BY <2>1, <2>2, <2>3, <2>7, <3>2, <3>4, <4>1 DEF Delivered
      <4>2. CASE s # slot
        BY <1>0, <2>1, <2>5, <3>2, <3>6, <4>2 DEF Inbox, Delivered
      <4> QED BY <4>1, <4>2
    <3> QED BY <2>1, <3>6 DEF Inbox, Delivered, SlotIdx
  <2> QED BY <2>2, <2>6, <2>7
<1>4. CASE /\ ~SendHandle
           /\ ~\E w \in Outgoing : NicSend(Requester, w) \/ NicDeliver(Requester, w)
  <2>1. Outgoing' = Outgoing /\ UNCHANGED <<head_seq, inbox>>
    BY <1>4, QueueStays
  <2>2. /\ trigger_cntr'[Requester] >= trigger_cntr[Requester]
        /\ trigger_cntr'[Requester] \in Nat
        /\ expected_seq' \in {expected_seq, expected_seq + 1}
    BY Forward
  <2> QED BY <1>0, <1>n, <2>1, <2>2 DEF Inbox, Delivered, SlotIdx
<1> QED BY <1>1, <1>2, <1>3, <1>4

-----------------------------------------------------------------------------
LEMMA InitInv == Init => IInv
<1> SUFFICES ASSUME Init PROVE IInv
  OBVIOUS
<1> USE Members DEF Init, FabricInit
<1>1. TypeOK
  BY DEF TypeOK, Staging, Slot, Thresholds, PutSet
<1>2. Arrays
  BY DEF Arrays
<1>3. Counters
  BY FS_EmptySet DEF Counters, Tally
<1>4. Turns
  BY DEF Turns
<1>5. Phase
  BY DEF Phase, Outstanding
<1>6. Outgoings /\ Unhandled
  BY DEF Outgoings, Unhandled, Outgoing
<1>7. Inbox
  BY DEF Inbox
<1>8. Acks
  BY DEF Acks
<1> QED BY <1>1, <1>2, <1>3, <1>4, <1>5, <1>6, <1>7, <1>8 DEF IInv

LEMMA Step == IInv /\ [Next]_vars => IInv'
  BY TypeStep, ArraysStep, CountersStep, TurnsStep, PhaseStep, OutgoingsStep,
     UnhandledStep, InboxStep, AcksStep DEF IInv

(* The strengthened invariant holds in every state: the two halves of a    *)
(* message, the ring's slots, the staging buffers and the acknowledgement  *)
(* of a batch stand to each other as am.hpp supposes.                      *)
THEOREM Invariance == Spec => []IInv
<1> QED BY InitInv, Step, PTL DEF Spec

(* Every variable has its type: the completion counter is at most twice    *)
(* the thresholds given out (put_raw() and its writeback count each once). *)
THEOREM TypeCorrect == Spec => []TypeOK
<1>1. IInv => TypeOK
  BY DEF IInv
<1> QED BY <1>1, Invariance, PTL

(* No sequence number is on its way to a slot whose last message has not   *)
(* been handled, whatever the order of the network: one batch is on its    *)
(* way at a time, and it is not longer than the ring.                      *)
THEOREM RingTheorem == Spec => []RingSlotsFree
<1> QED BY RingFree, Invariance, PTL

(* A staging buffer holds its message until the NIC has read its number,   *)
(* although trigger_and_wait() frees the buffers before that.              *)
THEOREM StagingTheorem == Spec => []StagedUntilSent
<1> QED BY Staged, Invariance, PTL
=============================================================================
