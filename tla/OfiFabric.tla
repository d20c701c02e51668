----------------------------- MODULE OfiFabric -----------------------------
(***************************************************************************)
(* gicc::Fabric of the OFI backend (platform/ofi/internal/fabric.hpp), as  *)
(* the active messages use it: put_raw() queues writes on the NIC, a       *)
(* kernel of one store sets the trigger counter, wait() compares the       *)
(* completion counter with a threshold.  put_raw() also queues a           *)
(* "writeback": a deferred add of 1 to the completion counter itself.      *)
(*                                                                         *)
(* What a write carries is left to the module that uses this one: it       *)
(* passes the data to Send and does the store of Deliver.                  *)
(***************************************************************************)
EXTENDS Integers, Sequences

CONSTANT Rank

VARIABLES
    current_threshold,  \* thresholds given out, by rank
    stream,             \* threshold of the trigger kernel in the stream, or 0
    trigger_cntr, completion_cntr,
    dwq,                \* deferred writes of each rank, not complete
    writebacks          \* writebacks done: they fire in threshold order

fabricVars == <<current_threshold, stream, trigger_cntr, completion_cntr, dwq,
                writebacks>>

FabricInit ==
    /\ current_threshold = [r \in Rank |-> 0]
    /\ stream = [r \in Rank |-> 0]
    /\ trigger_cntr = [r \in Rank |-> 0]
    /\ completion_cntr = [r \in Rank |-> 0]
    /\ dwq = [r \in Rank |-> {}] /\ writebacks = [r \in Rank |-> 0]

Write(p, t) == [threshold |-> t, put |-> p, st |-> "queued"]

BeforeIncrement(r, i) == current_threshold[r] + i - 1
Threshold(r, i) == current_threshold[r] + i

(* put_raw() once for each put of ps.  The host's calls are one step: the  *)
(* NIC starts none of these writes before the host's next trigger().       *)
PutRaw(r, ps) ==
    /\ current_threshold' = [current_threshold EXCEPT ![r] = @ + Len(ps)]
    /\ dwq' = [dwq EXCEPT ![r] = @ \cup
           {Write(ps[i], Threshold(r, i)) : i \in 1 .. Len(ps)}]
    /\ UNCHANGED <<stream, trigger_cntr, completion_cntr, writebacks>>

(* trigger(): the kernel is in the stream when the call returns.           *)
Trigger(r, threshold) ==
    /\ stream' = [stream EXCEPT ![r] = threshold]
    /\ UNCHANGED <<current_threshold, trigger_cntr, completion_cntr, dwq,
                   writebacks>>

(* hipMemcpy and poll_once() go behind the kernel in the stream and wait.  *)
Synchronized(r) == stream[r] = 0

Waited(r, threshold) == completion_cntr[r] >= threshold

(* gda_trigger_kernel.                                                     *)
RunTriggerKernel(r) ==
    /\ stream[r] # 0
    /\ trigger_cntr' = [trigger_cntr EXCEPT ![r] = stream[r]]
    /\ stream' = [stream EXCEPT ![r] = 0]
    /\ UNCHANGED <<current_threshold, completion_cntr, dwq, writebacks>>

-----------------------------------------------------------------------------
(* The NIC.                                                                *)
(* The write reads its source buffer.                                      *)
Send(r, w, data) ==
    /\ w.st = "queued"
    /\ trigger_cntr[r] >= w.threshold
    /\ dwq' = [dwq EXCEPT ![r] = (@ \ {w}) \cup
           {[threshold |-> w.threshold, put |-> w.put, st |-> "sent",
             data |-> data]}]
    /\ UNCHANGED <<current_threshold, stream, trigger_cntr, completion_cntr,
                   writebacks>>

(* The write reaches the memory of the peer, and is counted: the store     *)
(* itself is in the module that uses this one.  A rank's writes arrive in  *)
(* any order: the hints ask for no msg_order (fabric_dwq_context.hpp:171). *)
Deliver(r, w) ==
    /\ w.st = "sent"
    /\ dwq' = [dwq EXCEPT ![r] = @ \ {w}]
    /\ completion_cntr' = [completion_cntr EXCEPT ![r] = @ + 1]
    /\ UNCHANGED <<current_threshold, stream, trigger_cntr, writebacks>>

(* queue_counter_writeback()'s add, one for each threshold.                *)
WriteBack(r) ==
    /\ writebacks[r] < current_threshold[r]
    /\ completion_cntr[r] >= writebacks[r] + 1
    /\ writebacks' = [writebacks EXCEPT ![r] = @ + 1]
    /\ completion_cntr' = [completion_cntr EXCEPT ![r] = @ + 1]
    /\ UNCHANGED <<current_threshold, stream, trigger_cntr, dwq>>
=============================================================================
