---------------------------- MODULE Mlx5Submit ----------------------------
(***************************************************************************)
(* The multi-threaded send path of the MLX5 backend: the threads of one    *)
(* CTA share a queue pair (platform/mlx5/device_nvshmem.cuh).  A thread    *)
(* reserves entries of the work queue with an atomic add, builds them,     *)
(* publishes them in the order of reservation with a compare-and-swap, and *)
(* may leave the doorbell to a later thread.  gda_rdma_write() does all of *)
(* it for one entry; gda_concurrent_write_kernel(), and a client of        *)
(* gda_rdma_write_batched() and gda_flush(), for several.                  *)
(*                                                                         *)
(* An entry is in the ring when its builder's fence is past, which it is   *)
(* before the compare-and-swap; a WQE is its 64-bit index (of which the    *)
(* code stores 16 bits) and the thread whose put it is.                    *)
(***************************************************************************)
EXTENDS Naturals, Sequences

CONSTANTS
    Thread,
    Sizes,          \* entries a thread reserves at once
    BatchSize,      \* batch_size; batch_mask = ~(batch_size - 1)
    NWqes,          \* entries of the work queue
    IndexSpan,      \* what the doorbells hold of an index, 2^16
    MaxWqes         \* bound: entries reserved in the whole run

ASSUME SizeAssumption ==
    /\ {BatchSize, NWqes, IndexSpan} \subseteq Nat \ {0}
    /\ NWqes < IndexSpan
    /\ Sizes \subseteq Nat \ {0}
    /\ MaxWqes \in Nat

VARIABLES
    pc,             \* pc[t]: where thread t is in the path below
    base,           \* base_wqe_idx of t's reservation
    num,            \* num_wqes of t's reservation
    todo,           \* reserved entries that t has not built yet
    resv_head,      \* *qp->resv_head, *qp->ready_head, *qp->prod_idx
    ready_head,
    prod_idx,
    post_send_lock, \* *qp->post_send_lock # 0
    dbrec,          \* *qp->dbrec
    bf_reg,         \* the index in *qp->bf_reg
    wq,             \* wqe_buf: index and thread of the entry in each slot
    \* history
    claims,         \* the thread that reserved each entry
    log             \* the threads whose entries the NIC has executed

threadVars == <<pc, base, num, todo>>
headVars == <<resv_head, ready_head, claims>>
postVars == <<prod_idx, post_send_lock, dbrec, bf_reg>>
vars == <<threadVars, headVars, postVars, wq, log>>

NoWqe == [idx |-> 0, by |-> "none"]

Init ==
    /\ pc = [t \in Thread |-> "idle"]
    /\ base = [t \in Thread |-> 0] /\ num = [t \in Thread |-> 0]
    /\ todo = [t \in Thread |-> {}]
    /\ resv_head = 0 /\ ready_head = 0 /\ prod_idx = 0
    /\ post_send_lock = FALSE /\ dbrec = 0 /\ bf_reg = 0
    /\ wq = [s \in 0 .. NWqes - 1 |-> NoWqe]
    /\ claims = <<>> /\ log = <<>>

executed == Len(log)
SlotOf(idx) == idx % NWqes
Low(idx) == idx % IndexSpan
New(t) == base[t] + num[t]
Goto(t, from, to) == pc[t] = from /\ pc' = [pc EXCEPT ![t] = to]

(* The call returns, and its local variables are gone.                     *)
Return(t, from) ==
    /\ Goto(t, from, "idle")
    /\ base' = [base EXCEPT ![t] = 0] /\ num' = [num EXCEPT ![t] = 0]

-----------------------------------------------------------------------------
(* gda_reserve_wqe_slots().  The queue does not know how full it is: the   *)
(* client reserves only what the ring has room for.                        *)
Reserve(t, n) ==
    /\ resv_head + n <= MaxWqes
    /\ resv_head + n <= executed + NWqes
    /\ Goto(t, "idle", "build")
    /\ base' = [base EXCEPT ![t] = resv_head]
    /\ num' = [num EXCEPT ![t] = n]
    /\ todo' = [todo EXCEPT ![t] = resv_head .. resv_head + n - 1]
    /\ resv_head' = resv_head + n
    /\ claims' = claims \o [k \in 1 .. n |-> t]
    /\ UNCHANGED <<ready_head, postVars, wq, log>>

(* gda_build_rdma_write_wqe(), in any order: the concurrent kernel has one *)
(* thread per entry, and __syncthreads() before it submits.                *)
BuildWqe(t, i) ==
    /\ pc[t] = "build" /\ i \in todo[t]
    /\ wq' = [wq EXCEPT ![SlotOf(i)] = [idx |-> i, by |-> t]]
    /\ todo' = [todo EXCEPT ![t] = @ \ {i}]
    /\ UNCHANGED <<pc, base, num, headVars, postVars, log>>

SomeBuilt(t) == base[t] \notin todo[t]
Built(t) == todo[t] = {}

(* gda_submit_requests(): the compare-and-swap that succeeds.              *)
AnyTurn(t) == TRUE
MyTurn(t) == ready_head = base[t]

Publish(t) ==
    /\ Goto(t, "build", "decide")
    /\ Built(t) /\ MyTurn(t)
    /\ ready_head' = New(t)
    /\ UNCHANGED <<base, num, todo, resv_head, claims, postVars, wq, log>>

FirstIsResv(t) == base[t] = resv_head
NobodyElse(t) == New(t) = resv_head
CrossesBatch(t) == base[t] \div BatchSize # New(t) \div BatchSize
DoPostSend(t) ==
    NobodyElse(t) \/ CrossesBatch(t) \/ num[t] >= BatchSize

LeaveToOthers(t) ==
    /\ Return(t, "decide")
    /\ ~DoPostSend(t)
    /\ UNCHANGED <<todo, headVars, postVars, wq, log>>

DecideToPost(t) ==
    /\ Goto(t, "decide", "lock")
    /\ DoPostSend(t)
    /\ UNCHANGED <<base, num, todo, headVars, postVars, wq, log>>

NoLock == TRUE
LockFree == ~post_send_lock

AnyIsNew(t) == TRUE
IsNew(t) == New(t) > prod_idx

(* gda_post_send(): lock, raise prod_idx, and ring both doorbells only for *)
(* an index that is new.                                                   *)
Lock(t) ==
    /\ Goto(t, "lock", "raise")
    /\ LockFree
    /\ post_send_lock' = TRUE
    /\ UNCHANGED <<base, num, todo, headVars, prod_idx, dbrec, bf_reg, wq, log>>

Raise(t) ==
    /\ Goto(t, "raise", "dbr")
    /\ IsNew(t)
    /\ prod_idx' = New(t)
    /\ UNCHANGED <<base, num, todo, headVars, post_send_lock, dbrec, bf_reg, wq, log>>

AlreadyPosted(t) ==
    /\ Goto(t, "raise", "unlock")
    /\ ~IsNew(t)
    /\ UNCHANGED <<base, num, todo, headVars, postVars, wq, log>>

UpdateDbr(t) ==
    /\ Goto(t, "dbr", "ring")
    /\ dbrec' = Low(New(t))
    /\ UNCHANGED <<base, num, todo, headVars, prod_idx, post_send_lock, bf_reg, wq, log>>

RingDb(t) ==
    /\ Goto(t, "ring", "unlock")
    /\ bf_reg' = Low(New(t))
    /\ UNCHANGED <<base, num, todo, headVars, prod_idx, post_send_lock, dbrec, wq, log>>

Unlock(t) ==
    /\ Return(t, "unlock")
    /\ post_send_lock' = FALSE
    /\ UNCHANGED <<todo, headVars, prod_idx, dbrec, bf_reg, wq, log>>

Submit(t) ==
    \/ Publish(t) \/ LeaveToOthers(t) \/ DecideToPost(t)
    \/ Lock(t) \/ Raise(t) \/ AlreadyPosted(t) \/ UpdateDbr(t) \/ RingDb(t) \/ Unlock(t)

Step(t) == (\E i \in todo[t] : BuildWqe(t, i)) \/ Submit(t)

(* The NIC takes the entries up to the index it was last told.             *)
Execute ==
    /\ Low(executed) # bf_reg
    /\ log' = Append(log, wq[SlotOf(executed)].by)
    /\ UNCHANGED <<threadVars, headVars, postVars, wq>>

(* The kernel may end when no thread is at work.                           *)
AllIdle == \A t \in Thread : pc[t] = "idle"
Stopped == AllIdle /\ UNCHANGED vars

Next ==
    \/ \E t \in Thread : Step(t) \/ \E n \in Sizes : Reserve(t, n)
    \/ Execute
    \/ Stopped

Spec == Init /\ [][Next]_vars

(* A thread that has reserved goes on, and so does the NIC.  The threads   *)
(* spin on each other, which the GPU's independent scheduling allows.      *)
FairSpec == Spec /\ WF_vars(Execute) /\ \A t \in Thread : WF_vars(Step(t))

-----------------------------------------------------------------------------
Pcs == {"idle", "build", "decide", "lock", "raise", "dbr", "ring", "unlock"}
Posting == {"raise", "dbr", "ring", "unlock"}

(* Ranges, and the three heads in their order.                             *)
Types ==
    /\ pc \in [Thread -> Pcs]
    /\ base \in [Thread -> Nat] /\ num \in [Thread -> Nat]
    /\ todo \in [Thread -> SUBSET Nat]
    /\ resv_head \in Nat /\ ready_head \in Nat /\ prod_idx \in Nat
    /\ prod_idx <= ready_head /\ ready_head <= resv_head
    /\ post_send_lock \in BOOLEAN
    /\ dbrec \in 0 .. IndexSpan - 1 /\ bf_reg \in 0 .. IndexSpan - 1
    /\ wq \in [0 .. NWqes - 1 -> [idx : Nat, by : Thread \cup {"none"}]]
    /\ claims \in Seq(Thread) /\ Len(claims) = resv_head
    /\ log \in Seq(Thread \cup {"none"})

(* The three heads are in order and every reservation lies below resv_head *)
(* (device_nvshmem.cuh:136-138), an unpublished one at ready_head or       *)
(* above; post_send_lock is held by one thread, which is in                *)
(* gda_post_send(), or by none (:153-163).                                 *)
TypeOK ==
    /\ Types
    /\ \A t \in Thread :
           /\ pc[t] # "idle" => num[t] > 0 /\ New(t) <= resv_head
           /\ pc[t] = "build" => ready_head <= base[t]
           /\ pc[t] \in Posting => post_send_lock
    /\ post_send_lock => \E t \in Thread : pc[t] \in Posting
    /\ \A t, u \in Thread : pc[t] \in Posting /\ pc[u] \in Posting => t = u

(* The doorbell names a published entry that the NIC has not passed: one   *)
(* that goes back would send the NIC nearly 2^16 entries round the ring    *)
(* ("Uses atomicMax to only ring doorbell if new_prod_idx > old", :303).   *)
DoorbellInRange == \E n \in executed .. ready_head : bf_reg = Low(n)

(* While nobody is posting, doorbell record and register hold prod_idx.    *)
DoorbellsAgree ==
    ~post_send_lock => dbrec = Low(prod_idx) /\ bf_reg = Low(prod_idx)

(* No entry is left without a doorbell when the last thread leaves the     *)
(* path, although most threads leave theirs to a later one (:363-371).     *)
NothingStranded ==
    AllIdle => prod_idx = resv_head /\ bf_reg = Low(resv_head)

(* The NIC executes every entry once, in the order of the reservations and *)
(* as its thread built it ("FIFO ordering", :348).                         *)
filled == {i \in 0 .. resv_head - 1 : \A t \in Thread : i \notin todo[t]}
Queue == INSTANCE SendQueueSpec
ImplementsSendQueue == Queue!Spec

(* What was reserved is executed, whoever rings for it.                    *)
EveryPutExecuted ==
    \A n \in 1 .. MaxWqes : resv_head >= n ~> executed >= n
=============================================================================
