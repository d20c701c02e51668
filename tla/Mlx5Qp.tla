------------------------------- MODULE Mlx5Qp -------------------------------
(***************************************************************************)
(* One queue pair of the MLX5 backend as a GPU thread drives it: put(),    *)
(* put_no_db(), flush() and quiet() (platform/mlx5/mlx5_device.cuh over    *)
(* platform/mlx5/device_opt.cuh) on the QP and CQ of DevxQp                *)
(* (platform/mlx5/devx_qp.hpp).                                            *)
(*                                                                         *)
(* The GPU writes a work queue entry (WQE) into a ring, publishes the new  *)
(* producer index in the doorbell record and writes the BlueFlame          *)
(* register; the NIC executes the entries in order and writes a completion *)
(* (CQE) into the next slot of a second ring, whose owner bit toggles each *)
(* time round.  Nothing tells the GPU how full either ring is.             *)
(*                                                                         *)
(* The GPU's fence before the doorbell makes entry and doorbell one write  *)
(* to the NIC's eyes; the doorbell record and BlueFlame are one register.  *)
(***************************************************************************)
EXTENDS Integers

CONSTANTS
    IndexSpan,    \* producer indices before the 16 bits wrap, 2^16
    NWqes,        \* nwqes, entries of the work queue
    NCqes,        \* ncqes, entries of the completion queue
    MaxPuts,      \* bound: puts of the whole run
    Signals,      \* the values of signaled that the client passes
    QuietAtWrap   \* may the client call quiet() when the index is 0 again?

(* DevxQp makes 256 WQEs and 512 CQEs.  The index wraps on the boundary of *)
(* both rings, and with the CQ in an even round.                           *)
ASSUME SizeAssumption ==
    /\ {IndexSpan, NWqes, NCqes} \subseteq Nat \ {0}
    /\ NWqes <= NCqes
    /\ IndexSpan % NWqes = 0 /\ IndexSpan % (2 * NCqes) = 0
    /\ MaxPuts \in Nat
ASSUME ClientAssumption ==
    Signals \subseteq BOOLEAN /\ QuietAtWrap \in BOOLEAN

VARIABLES
    pc,         \* "idle", "ring" (entry built), "poll" (in quiet)
    prod_idx,   \* *prod_idx
    expected,   \* expected_wqe_idx of the poll
    wq,         \* wqe_buf: wq[i] is the put in slot i and its signal flag
    dbrec,      \* the doorbell's producer index
    cq,         \* owner bit of each CQE; 1 at first (the buffer is 0xFF)
    cqes,       \* CQEs written
    qp_error,   \* has the QP gone to the error state?
    \* history
    posted,     \* puts built
    completed,  \* puts the NIC has finished with
    executed,   \* has each been executed once, in order, as it was built?
    quieted     \* puts that a quiet() which returned has covered

gpuVars == <<pc, prod_idx, expected, wq, dbrec, posted, quieted>>
nicVars == <<cq, cqes, qp_error, completed, executed>>
vars == <<gpuVars, nicVars>>

Init ==
    /\ pc = "idle" /\ prod_idx = 0 /\ expected = 0 /\ dbrec = 0
    /\ wq = [i \in 0 .. NWqes - 1 |-> [put |-> 0, signaled |-> FALSE]]
    /\ cq = [i \in 0 .. NCqes - 1 |-> 1]
    /\ cqes = 0 /\ qp_error = FALSE
    /\ posted = 0 /\ completed = 0 /\ executed = TRUE /\ quieted = 0

-----------------------------------------------------------------------------
(* The GPU thread.                                                         *)
NextSlot(idx) == (idx + 1) % NWqes
SlotOf(idx) == idx % NWqes

Unwrapped(idx) == idx + 1
NewProd(idx) == (idx + 1) % IndexSpan

(* gda_build_rdma_write_wqe_opt().  The client has room: it never posts    *)
(* more than the ring holds without a quiet().                             *)
BuildWqe(signaled) ==
    /\ pc = "idle"
    /\ posted < MaxPuts /\ posted - quieted < NWqes
    /\ posted' = posted + 1
    /\ wq' = [wq EXCEPT ![SlotOf(prod_idx)] =
                  [put |-> posted + 1, signaled |-> signaled]]

Put(signaled) ==
    /\ BuildWqe(signaled)
    /\ pc' = "ring"
    /\ UNCHANGED <<prod_idx, expected, dbrec, quieted, nicVars>>

(* gda_ring_doorbell_bf() at the end of put().                             *)
RingDoorbell ==
    /\ pc = "ring"
    /\ dbrec' = NewProd(prod_idx)
    /\ prod_idx' = NewProd(prod_idx)
    /\ pc' = "idle"
    /\ UNCHANGED <<expected, wq, posted, quieted, nicVars>>

PutNoDb(signaled) ==
    /\ BuildWqe(signaled)
    /\ prod_idx' = NewProd(prod_idx)
    /\ UNCHANGED <<pc, expected, dbrec, quieted, nicVars>>

Flush ==
    /\ pc = "idle"
    /\ dbrec' = prod_idx
    /\ UNCHANGED <<pc, prod_idx, expected, wq, posted, quieted, nicVars>>

(* quiet().  The client has flushed.  An index of 0 means nothing was sent.*)
QuietNothing ==
    /\ pc = "idle" /\ dbrec = prod_idx
    /\ prod_idx = 0
    /\ posted = 0 \/ QuietAtWrap
    /\ quieted' = posted
    /\ UNCHANGED <<pc, prod_idx, expected, wq, dbrec, posted, nicVars>>

QuietBegin ==
    /\ pc = "idle" /\ dbrec = prod_idx
    /\ prod_idx # 0
    /\ expected' = prod_idx
    /\ pc' = "poll"
    /\ UNCHANGED <<prod_idx, wq, dbrec, posted, quieted, nicVars>>

(* gda_poll_cq_wqe_counter() without a timeout: the CQE's slot and the     *)
(* owner bit it will have.  An error CQE ends the wait as well.            *)
CqeAfter == expected % NCqes
CqeIdx == (expected - 1) % NCqes

FirstRoundOwner == 0
ExpectedOwner == ((expected - 1) \div NCqes) % 2

QuietEnd ==
    /\ pc = "poll"
    /\ cq[CqeIdx] = ExpectedOwner
    /\ pc' = "idle"
    /\ quieted' = posted
    /\ UNCHANGED <<prod_idx, expected, wq, dbrec, posted, nicVars>>

-----------------------------------------------------------------------------
(* The NIC takes the entry of the next index.  It writes a CQE if the entry*)
(* asks for one, and always for an entry that fails or follows one that    *)
(* failed.  The CQ ignores overruns (oi = 1).                              *)
Execute ==
    /\ completed % IndexSpan # dbrec
    /\ completed' = completed + 1
    /\ LET wqe == wq[completed % NWqes]
       IN /\ executed' = (executed /\ wqe.put = completed + 1)
          /\ \E failed \in {qp_error, TRUE} :
                /\ qp_error' = failed
                /\ IF wqe.signaled \/ failed
                   THEN /\ cq' = [cq EXCEPT ![cqes % NCqes] =
                                      (cqes \div NCqes) % 2]
                        /\ cqes' = cqes + 1
                   ELSE UNCHANGED <<cq, cqes>>
    /\ UNCHANGED gpuVars

(* The kernel may end wherever it is not polling.                          *)
Stopped == pc = "idle" /\ UNCHANGED vars

Gpu ==
    \/ \E signaled \in Signals : Put(signaled) \/ PutNoDb(signaled)
    \/ RingDoorbell \/ Flush \/ QuietNothing \/ QuietBegin \/ QuietEnd

Next == Gpu \/ Execute \/ Stopped

Spec == Init /\ [][Next]_vars

(* A thread in put() or quiet() goes on, and so does the NIC.              *)
Fairness == WF_vars(RingDoorbell \/ QuietEnd) /\ WF_vars(Execute)
FairSpec == Spec /\ Fairness

-----------------------------------------------------------------------------
(* The producer index keeps its 16 bits (device_opt.cuh:609) and no more   *)
(* completions come than entries were posted.                              *)
TypeOK ==
    /\ pc \in {"idle", "ring", "poll"}
    /\ {prod_idx, expected, dbrec} \subseteq 0 .. IndexSpan - 1
    /\ wq \in [0 .. NWqes - 1 -> [put : 0 .. MaxPuts, signaled : BOOLEAN]]
    /\ cq \in [0 .. NCqes - 1 -> {0, 1}]
    /\ cqes \in 0 .. MaxPuts /\ qp_error \in BOOLEAN
    /\ posted \in 0 .. MaxPuts
    /\ completed \in 0 .. posted /\ quieted \in 0 .. posted
    /\ cqes <= completed

(* quiet() returns when every put before it is complete: "Wait for all     *)
(* outstanding RDMA operations to complete" (mlx5_device.cuh:86), across   *)
(* every wrap of the two rings and of the 16-bit index.                    *)
QuietIsCompletion == quieted <= completed

(* Every put is executed once and in order, and an entry the NIC may still *)
(* read is never overwritten: an early quiet() or a slot off by one gives  *)
(* the NIC another put's addresses (device_opt.cuh:191-194, :608-617).     *)
EntriesExecutedAsBuilt ==
    /\ executed
    /\ \A put \in completed + 1 .. posted : wq[(put - 1) % NWqes].put = put

(* quiet() returns (device_opt.cuh:516), also after an error.              *)
QuietReturns == pc = "poll" ~> pc = "idle"
=============================================================================
