------------------------------- MODULE OfiAm -------------------------------
(***************************************************************************)
(* Active messages of the OFI backend (platform/ofi/internal/am.hpp,       *)
(* am_context.hpp, am_device.hpp) over Fabric.  A message is staged in     *)
(* device memory and goes out as two writes, its body and then its         *)
(* sequence number, into a slot of the ring the peer keeps for this rank;  *)
(* the peer's poll kernel runs the handler of the slot whose number is the *)
(* one it expects.  A reply is a write of 8 bytes into the sender's ack    *)
(* buffer.                                                                 *)
(*                                                                         *)
(* The client is the module's own: it calls the host functions as the      *)
(* documentation of Am does (am.hpp:7-22, 310-313).  A requester sends     *)
(* until send_handle() refuses, calls trigger_and_wait(), and waits for    *)
(* the ack of its last message; a responder calls poll_once(), and         *)
(* reply() and trigger_and_wait() once a batch is handled.  Without such   *)
(* an ack nothing keeps the ring from overflowing.  The examples have      *)
(* other clients: am_test_one.cpp waits at a host barrier where this one   *)
(* waits for an ack, and am_pingpong.cpp triggers from its own kernels.    *)
(***************************************************************************)
EXTENDS OfiFabric

CONSTANTS
    Requester, Responder,
    NSlots,       \* slots of the ring: a power of two
    StagingSize,  \* staging_pool_size
    MaxBatches    \* bound: batches the requester sends

ASSUME AmAssumption ==
    /\ Rank = {Requester, Responder} /\ Requester # Responder
    /\ NSlots \in Nat /\ StagingSize \in 1 .. NSlots /\ MaxBatches \in Nat

VARIABLES
    pc,             \* "client", "wait" (in trigger_and_wait()), "await" an ack
    max_threshold,
    \* requester
    staging, staging_idx, head_seq, local_ack,
    \* responder
    inbox, expected_seq, reply_staging, reply_staging_idx, replied,
    \* what has been seen
    handled,        \* the message the last handler ran for, and its body
    waited          \* the highest threshold wait() has returned for

requesterVars == <<staging, staging_idx, head_seq, local_ack>>
responderVars == <<inbox, expected_seq, reply_staging, reply_staging_idx,
                   replied, handled>>
amVars == <<pc, max_threshold, requesterVars, responderVars, waited>>
vars == <<fabricVars, amVars>>

Staging == 0 .. StagingSize - 1
Slot == 0 .. NSlots - 1
MaxMessages == MaxBatches * StagingSize

OneSlot(seq) == 0
SlotIdx(seq) == seq % NSlots

(* A message's body is known by the message's number; 0 is an empty slot.  *)
Init ==
    /\ FabricInit
    /\ pc = [r \in Rank |-> "client"]
    /\ max_threshold = [r \in Rank |-> 0]
    /\ staging = [i \in Staging |-> 0] /\ staging_idx = 0
    /\ head_seq = 1 /\ local_ack = 0
    /\ inbox = [s \in Slot |-> [seq |-> 0, body |-> 0]]
    /\ expected_seq = 1
    /\ reply_staging = [i \in Staging |-> 0] /\ reply_staging_idx = 0
    /\ replied = 0
    /\ handled = [seq |-> 0, body |-> 0]
    /\ waited = [r \in Rank |-> 0]

(* A write of am.hpp: which part of message msg, from which staging buffer *)
(* to which slot.                                                          *)
Part(part, msg, buf) ==
    [part |-> part, msg |-> msg, buf |-> buf, slot |-> SlotIdx(msg)]

MessagePuts(i) == <<Part("body", head_seq, i), Part("seq", head_seq, i)>>

Max2(a, b) == IF a > b THEN a ELSE b
FirstThreshold(r, n) == Max2(max_threshold[r], Threshold(r, 1))
NewMax(r, n) == Max2(max_threshold[r], Threshold(r, n))

NotTaken == UNCHANGED staging_idx
TakeStaging == staging_idx' = staging_idx + 1

-----------------------------------------------------------------------------
(* send_handle(), send_payload(): they differ in the size of the body.     *)
SendHandle ==
    /\ pc[Requester] = "client" /\ head_seq <= MaxMessages
    /\ staging_idx < StagingSize
    /\ Synchronized(Requester)
    /\ staging' = [staging EXCEPT ![staging_idx] = head_seq]
    /\ TakeStaging
    /\ head_seq' = head_seq + 1
    /\ PutRaw(Requester, MessagePuts(staging_idx))
    /\ max_threshold' = [max_threshold EXCEPT ![Requester] = NewMax(Requester, 2)]
    /\ UNCHANGED <<pc, local_ack, responderVars, waited>>

(* reply(), which the client calls once a batch is handled, with the       *)
(* number of its last message: 8 bytes for the requester's ack buffer.     *)
Reply ==
    /\ pc[Responder] = "client"
    /\ expected_seq - 1 = replied + StagingSize
    /\ reply_staging_idx < StagingSize
    /\ Synchronized(Responder)
    /\ reply_staging' = [reply_staging EXCEPT ![reply_staging_idx] =
                             expected_seq - 1]
    /\ reply_staging_idx' = reply_staging_idx + 1
    /\ replied' = expected_seq - 1
    /\ PutRaw(Responder, <<Part("ack", expected_seq - 1, reply_staging_idx)>>)
    /\ max_threshold' = [max_threshold EXCEPT ![Responder] = NewMax(Responder, 1)]
    /\ UNCHANGED <<pc, requesterVars, inbox, expected_seq, handled, waited>>

(* trigger_and_wait(), to its wait(): the requester's client calls it when *)
(* send_handle() has returned -1, the responder's after a reply.           *)
TriggerBegin(r) ==
    /\ pc[r] = "client" /\ max_threshold[r] # 0
    /\ r = Requester => staging_idx >= StagingSize
    /\ Trigger(r, max_threshold[r])
    /\ pc' = [pc EXCEPT ![r] = "wait"]
    /\ UNCHANGED <<max_threshold, requesterVars, responderVars, waited>>

WaitEnd(r) ==
    /\ pc[r] = "wait"
    /\ Waited(r, max_threshold[r])
    /\ waited' = [waited EXCEPT ![r] = max_threshold[r]]
    /\ max_threshold' = [max_threshold EXCEPT ![r] = 0]
    /\ IF r = Requester
       THEN /\ staging_idx' = 0 /\ UNCHANGED reply_staging_idx
            /\ pc' = [pc EXCEPT ![r] = "await"]
       ELSE /\ reply_staging_idx' = 0 /\ UNCHANGED staging_idx
            /\ pc' = [pc EXCEPT ![r] = "client"]
    /\ UNCHANGED <<fabricVars, staging, head_seq, local_ack, inbox,
                   expected_seq, reply_staging, replied, handled>>

(* The client has seen the ack of its last message in its ack buffer.      *)
Acked ==
    /\ pc[Requester] = "await" /\ local_ack = head_seq - 1
    /\ pc' = [pc EXCEPT ![Requester] = "client"]
    /\ UNCHANGED <<fabricVars, max_threshold, requesterVars, responderVars,
                   waited>>

(* poll_once(), am_poll_peer(): one turn of its loop that finds a message. *)
PollPeer ==
    LET slot == SlotIdx(expected_seq) IN
    /\ pc[Responder] = "client" /\ Synchronized(Responder)
    /\ inbox[slot].seq = expected_seq
    /\ handled' = [seq |-> expected_seq, body |-> inbox[slot].body]
    /\ expected_seq' = expected_seq + 1
    /\ UNCHANGED <<fabricVars, pc, max_threshold, requesterVars, inbox,
                   reply_staging, reply_staging_idx, replied, waited>>

-----------------------------------------------------------------------------
(* The NIC and the memory it writes.                                       *)
Source(p) == IF p.part = "ack" THEN reply_staging[p.buf] ELSE staging[p.buf]

NicSend(r, w) == w.st = "queued" /\ Send(r, w, Source(w.put)) /\ UNCHANGED amVars

NicDeliver(r, w) ==
    /\ Deliver(r, w)
    /\ IF w.put.part = "ack"
       THEN local_ack' = w.data /\ UNCHANGED inbox
       ELSE /\ inbox' = IF w.put.part = "body"
                        THEN [inbox EXCEPT ![w.put.slot].body = w.data]
                        ELSE [inbox EXCEPT ![w.put.slot].seq = w.data]
            /\ UNCHANGED local_ack
    /\ UNCHANGED <<pc, max_threshold, staging, staging_idx, head_seq,
                   expected_seq, reply_staging, reply_staging_idx, replied,
                   handled, waited>>

NicWriteBack(r) == WriteBack(r) /\ UNCHANGED amVars

TriggerKernel(r) == RunTriggerKernel(r) /\ UNCHANGED amVars

Nic(r) ==
    \/ \E w \in dwq[r] : NicSend(r, w) \/ NicDeliver(r, w)
    \/ NicWriteBack(r)

Finished ==
    /\ local_ack = MaxMessages /\ pc[Requester] = "client"
    /\ UNCHANGED vars

Host(r) == TriggerBegin(r) \/ WaitEnd(r)

Next ==
    \/ SendHandle \/ Acked \/ Reply \/ PollPeer
    \/ \E r \in Rank : Host(r) \/ TriggerKernel(r) \/ Nic(r)
    \/ Finished

Spec == Init /\ [][Next]_vars

(* Both clients go on, both streams and both NICs progress.                *)
Fairness ==
    /\ WF_vars(SendHandle) /\ WF_vars(Acked) /\ WF_vars(Reply \/ PollPeer)
    /\ \A r \in Rank : WF_vars(Host(r)) /\ WF_vars(TriggerKernel(r)) /\ WF_vars(Nic(r))

FairSpec == Spec /\ Fairness

-----------------------------------------------------------------------------
PutSet == [part : {"body", "seq", "ack"}, msg : 1 .. MaxMessages,
           buf : Staging, slot : Slot]
Thresholds == 1 .. 2 * MaxMessages

(* The completion counter grows by two per write, its completion and its   *)
(* writeback (fabric.hpp:255-258 says so of the version put() gave up).    *)
TypeOK ==
    /\ pc \in [Rank -> {"client", "wait", "await"}]
    /\ \A r \in Rank :
           /\ current_threshold[r] \in 0 .. 2 * MaxMessages
           /\ completion_cntr[r] \in 0 .. 2 * current_threshold[r]
           /\ {trigger_cntr[r], stream[r], waited[r], max_threshold[r]}
                  \subseteq 0 .. current_threshold[r]
           /\ writebacks[r] \in 0 .. current_threshold[r]
           /\ \A w \in dwq[r] :
                  /\ w.threshold \in Thresholds /\ w.put \in PutSet
                  /\ w.st \in {"queued", "sent"}
    /\ staging \in [Staging -> 0 .. MaxMessages]
    /\ reply_staging \in [Staging -> 0 .. MaxMessages]
    /\ staging_idx \in 0 .. StagingSize /\ reply_staging_idx \in 0 .. StagingSize
    /\ head_seq \in 1 .. MaxMessages + 1 /\ expected_seq \in 1 .. head_seq
    /\ inbox \in [Slot -> [seq : 0 .. MaxMessages, body : 0 .. MaxMessages]]
    /\ local_ack \in 0 .. MaxMessages /\ replied \in 0 .. MaxMessages

(* A handler runs with the body of its own message: the sequence number is *)
(* the "release point - must come after body" (am.hpp:171; am_types.hpp:17 *)
(* and 96).                                                                *)
HandlerSeesItsMessage == handled.body = handled.seq

(* A sequence number is only on its way to a slot whose last message has   *)
(* been handled: no message is lost in the ring, although nothing in       *)
(* send_handle() looks at the receiver's progress.                         *)
RingSlotsFree ==
    \A w \in dwq[Requester] :
        w.put.part = "seq" =>
            inbox[w.put.slot].seq < expected_seq

(* While a sequence number or an ack has not been read from its staging    *)
(* buffer, the buffer holds it: trigger_and_wait() frees the buffers of    *)
(* messages and replies for the next batch, and only the ack that the      *)
(* client waits for, or the next request, says they were read.  Of bodies  *)
(* the ack says nothing (see HandlerSeesItsMessage).                       *)
StagedUntilSent ==
    \A r \in Rank : \A w \in dwq[r] :
        w.put.part # "body" /\ w.st = "queued" => Source(w.put) = w.put.msg

(* "Trigger all queued sends and wait for completion" (am.hpp:274).        *)
WaitIsCompletion ==
    \A r \in Rank : \A w \in dwq[r] : w.threshold > waited[r]

(* Every message is handled and every batch acknowledged, in whatever      *)
(* order the writes arrive: none is left untriggered and no wait() in vain.*)
EveryBatchAcked ==
    \A k \in 1 .. MaxBatches :
        head_seq = k * StagingSize + 1 ~> local_ack >= k * StagingSize
=============================================================================
