----------------------------- MODULE OfiRuntime -----------------------------
(***************************************************************************)
(* gicc::Runtime of the OFI backend (platform/ofi/ofi_runtime.hpp) with    *)
(* its device half (platform/ofi/ofi_device.cuh).  The host queues a batch *)
(* of puts on the NIC; a kernel's flush() fires them by writing the        *)
(* trigger counter, its quiet() polls one memory slot per put, which an    *)
(* atomic chained to the put's completion increments; reset() drains the   *)
(* batch and recycles the counters.                                        *)
(*                                                                         *)
(* One process, three actors: the host, the GPU, the NIC.  A kernel is     *)
(* launched and not waited for, as in the README: the host may reset() and *)
(* queue the next batch while it is still in quiet().                      *)
(*                                                                         *)
(* The client prepares and launches once per batch, as every example does. *)
(***************************************************************************)
EXTENDS Integers, FiniteSets

CONSTANTS
    POOL_SIZE,   \* operations per batch
    MaxBatches   \* bound: batches the client runs

ASSUME SizeAssumption ==
    POOL_SIZE \in Nat \ {0} /\ MaxBatches \in Nat

Slot == 0 .. POOL_SIZE - 1

VARIABLES
    \* host
    pc,            \* "queue", "prepared", "launched", "destroyed", "exit"
    batch,         \* batches reset so far
    my_n_ops,      \* my_n_ops_
    my_pending,    \* my_pending_: <<batch, slot>> of each live builder
    awaited,       \* slots of this batch whose token wait() returned for
    \* shared with the GPU
    ctx,           \* *h_dev_ctx_; completion: is completion_ not null?
    slot_pool,     \* d_slot_pool_
    \* GPU
    kernel,        \* "idle", "flush", "quiet"
    poll,          \* i in quiet()
    kernel_batch,  \* the batch the kernel was launched for
    \* NIC
    dwq,           \* deferred work not complete
    trigger_cntr, completion_cntr, atomic_completion_cntr,
    complete       \* the <<batch, slot>> whose put has completed

hostVars == <<pc, batch, my_n_ops, my_pending, awaited>>
gpuVars == <<kernel, poll, kernel_batch>>
cntrVars == <<trigger_cntr, completion_cntr, atomic_completion_cntr>>
vars == <<hostVars, ctx, slot_pool, gpuVars, cntrVars, dwq, complete>>

(* DwqWorkBuilder's two deferred works for one put.  The write waits for   *)
(* the trigger counter to reach threshold, the atomic for the slot's own   *)
(* completion counter to reach 1.                                          *)
Put(s) == [batch |-> batch, slot |-> s, op |-> "write", st |-> "queued"]
Atomic(s) == [batch |-> batch, slot |-> s, op |-> "atomic", st |-> "queued"]

Init ==
    /\ pc = "queue" /\ batch = 0 /\ my_n_ops = 0
    /\ my_pending = {} /\ awaited = {}
    /\ ctx = [trigger_val |-> 0, completion |-> FALSE, n_ops |-> 0]
    /\ slot_pool = [s \in Slot |-> 0]
    /\ kernel = "idle" /\ poll = 0 /\ kernel_batch = 0
    /\ trigger_cntr = 0
    /\ completion_cntr = [s \in Slot |-> 0]
    /\ atomic_completion_cntr = [s \in Slot |-> 0]
    /\ dwq = {} /\ complete = {}

-----------------------------------------------------------------------------
(* The host.                                                               *)

(* put_no_db() into a pool that is full exits the process.                 *)
PutNoDb ==
    /\ pc = "queue" /\ batch < MaxBatches
    /\ IF my_n_ops >= POOL_SIZE
       THEN /\ pc' = "exit"
            /\ UNCHANGED <<my_n_ops, my_pending, dwq>>
       ELSE /\ my_n_ops' = my_n_ops + 1
            /\ dwq' = dwq \cup {Put(my_n_ops), Atomic(my_n_ops)}
            /\ my_pending' = my_pending \cup {<<batch, my_n_ops>>}
            /\ UNCHANGED pc
    /\ UNCHANGED <<batch, awaited, ctx, slot_pool, gpuVars, cntrVars, complete>>

(* hipMemset on the null stream, then hipDeviceSynchronize: both wait for  *)
(* the kernel.                                                             *)
NotCleared == kernel = "idle" /\ UNCHANGED slot_pool
NotSynchronized ==
    slot_pool' = [s \in Slot |-> IF s < my_n_ops THEN 0 ELSE slot_pool[s]]
ClearSlots ==
    /\ kernel = "idle"
    /\ slot_pool' = [s \in Slot |-> IF s < my_n_ops THEN 0 ELSE slot_pool[s]]

(* prepare(): for a kernel that calls flush() and quiet().                 *)
Prepare ==
    /\ pc = "queue" /\ my_n_ops > 0
    /\ ClearSlots
    /\ ctx' = [trigger_val |-> my_n_ops, completion |-> TRUE,
               n_ops |-> my_n_ops]
    /\ pc' = "prepared"
    /\ UNCHANGED <<batch, my_n_ops, my_pending, awaited, gpuVars, cntrVars,
                   dwq, complete>>

(* prepare_trigger(): for a kernel that only calls flush().  It does not   *)
(* wait for the GPU; a client that calls it after a batch with a quiet()   *)
(* has waited for that kernel.                                             *)
PrepareTrigger ==
    /\ pc = "queue" /\ my_n_ops > 0
    /\ ctx.completion => kernel = "idle"
    /\ ctx' = [trigger_val |-> my_n_ops, completion |-> FALSE, n_ops |-> 0]
    /\ pc' = "prepared"
    /\ UNCHANGED <<batch, my_n_ops, my_pending, awaited, slot_pool, gpuVars,
                   cntrVars, dwq, complete>>

(* The client's kernel enters the stream; kernels run one after another.   *)
Launch ==
    /\ pc = "prepared" /\ kernel = "idle"
    /\ kernel' = "flush" /\ poll' = 0 /\ kernel_batch' = batch
    /\ pc' = "launched"
    /\ UNCHANGED <<batch, my_n_ops, my_pending, awaited, ctx, slot_pool,
                   cntrVars, dwq, complete>>

(* wait(Token) returns.                                                    *)
Wait(s) ==
    /\ pc = "launched" /\ s < my_n_ops
    /\ completion_cntr[s] >= 1
    /\ awaited' = awaited \cup {s}
    /\ UNCHANGED <<pc, batch, my_n_ops, my_pending, ctx, slot_pool, gpuVars,
                   cntrVars, dwq, complete>>

(* reset(): wait for both counters of every slot in use, then delete the   *)
(* builders and clear the counters.                                        *)
PutsDrained == \A s \in Slot : s < my_n_ops => completion_cntr[s] >= 1
Drained ==
    \A s \in Slot : s < my_n_ops =>
        completion_cntr[s] >= 1 /\ atomic_completion_cntr[s] >= 1

Cleared(cntr) == [s \in Slot |-> IF s < my_n_ops THEN 0 ELSE cntr[s]]
KeepTrigger ==
    /\ UNCHANGED trigger_cntr
    /\ completion_cntr' = Cleared(completion_cntr)
    /\ atomic_completion_cntr' = Cleared(atomic_completion_cntr)
KeepCompletions ==
    /\ trigger_cntr' = 0
    /\ UNCHANGED <<completion_cntr, atomic_completion_cntr>>
ClearCounters ==
    /\ trigger_cntr' = 0
    /\ completion_cntr' = Cleared(completion_cntr)
    /\ atomic_completion_cntr' = Cleared(atomic_completion_cntr)

Reset ==
    /\ pc = "launched"
    /\ Drained
    /\ my_pending' = {}
    /\ ClearCounters
    /\ my_n_ops' = 0
    /\ batch' = batch + 1 /\ awaited' = {}
    /\ pc' = "queue"
    /\ UNCHANGED <<ctx, slot_pool, gpuVars, dwq, complete>>

(* ~Runtime(), by a client that has reset.  hipFree waits for the GPU.     *)
Destroy ==
    /\ pc = "queue" /\ my_n_ops = 0
    /\ kernel = "idle"
    /\ pc' = "destroyed" /\ my_pending' = {}
    /\ UNCHANGED <<batch, my_n_ops, awaited, ctx, slot_pool, gpuVars, cntrVars,
                   dwq, complete>>

-----------------------------------------------------------------------------
(* The GPU.                                                                *)

(* flush(); a flush-only kernel then ends.                                 *)
Flush ==
    /\ kernel = "flush"
    /\ trigger_cntr' = ctx.trigger_val
    /\ kernel' = IF ctx.completion THEN "quiet" ELSE "idle"
    /\ UNCHANGED <<hostVars, ctx, slot_pool, poll, kernel_batch,
                   completion_cntr, atomic_completion_cntr, dwq, complete>>

(* quiet(): the slots one by one.                                          *)
QuietPoll ==
    /\ kernel = "quiet" /\ poll < ctx.n_ops
    /\ slot_pool[poll] >= 1
    /\ poll' = poll + 1
    /\ UNCHANGED <<hostVars, ctx, slot_pool, kernel, kernel_batch, cntrVars,
                   dwq, complete>>

QuietDone ==
    /\ kernel = "quiet" /\ poll >= ctx.n_ops
    /\ kernel' = "idle"
    /\ UNCHANGED <<hostVars, ctx, slot_pool, poll, kernel_batch, cntrVars,
                   dwq, complete>>

-----------------------------------------------------------------------------
(* The NIC.  Puts whose threshold is reached run in any order.             *)
Fired(w) == (dwq \ {w}) \cup {[w EXCEPT !.st = "fired"]}

FirePut(w) ==
    /\ w.op = "write" /\ w.st = "queued"
    /\ trigger_cntr >= w.slot + 1
    /\ dwq' = Fired(w)
    /\ UNCHANGED <<hostVars, ctx, slot_pool, gpuVars, cntrVars, complete>>

CompletePut(w) ==
    /\ w.op = "write" /\ w.st = "fired"
    /\ dwq' = dwq \ {w}
    /\ complete' = complete \cup {<<w.batch, w.slot>>}
    /\ completion_cntr' = [completion_cntr EXCEPT ![w.slot] = @ + 1]
    /\ UNCHANGED <<hostVars, ctx, slot_pool, gpuVars, trigger_cntr,
                   atomic_completion_cntr>>

(* The atomic adds 1 to its slot, and later counts its own completion.     *)
FireAtomic(w) ==
    /\ w.op = "atomic" /\ w.st = "queued"
    /\ completion_cntr[w.slot] >= 1
    /\ dwq' = Fired(w)
    /\ slot_pool' = [slot_pool EXCEPT ![w.slot] = @ + 1]
    /\ UNCHANGED <<hostVars, ctx, gpuVars, cntrVars, complete>>

CompleteAtomic(w) ==
    /\ w.op = "atomic" /\ w.st = "fired"
    /\ dwq' = dwq \ {w}
    /\ atomic_completion_cntr' = [atomic_completion_cntr EXCEPT ![w.slot] = @ + 1]
    /\ UNCHANGED <<hostVars, ctx, slot_pool, gpuVars, trigger_cntr,
                   completion_cntr, complete>>

-----------------------------------------------------------------------------
Host ==
    \/ PutNoDb \/ Prepare \/ PrepareTrigger \/ Launch \/ Reset \/ Destroy
    \/ \E s \in Slot : Wait(s)
Gpu == Flush \/ QuietPoll \/ QuietDone
Nic ==
    \E w \in dwq :
        FirePut(w) \/ CompletePut(w) \/ FireAtomic(w) \/ CompleteAtomic(w)
Stopped == pc \in {"exit", "destroyed"} /\ UNCHANGED vars

Next ==
    \/ pc \notin {"exit", "destroyed"} /\ (Host \/ Gpu \/ Nic)
    \/ Stopped

Spec == Init /\ [][Next]_vars

(* The client launches what it prepared and resets what it launched; the   *)
(* GPU and the NIC go on with every work.                                  *)
Fairness ==
    /\ WF_vars(Launch) /\ WF_vars(Reset)
    /\ WF_vars(Prepare \/ PrepareTrigger)
    /\ WF_vars(pc \notin {"exit", "destroyed"} /\ Gpu)
    /\ WF_vars(pc \notin {"exit", "destroyed"} /\ Nic)

FairSpec == Spec /\ Fairness

-----------------------------------------------------------------------------
(* A slot's counters never exceed 1, so that polling for "< 1" waits for   *)
(* this batch's put (ofi_runtime.hpp:290, :298, :304).  Its memory counts  *)
(* the batches since prepare() last cleared it: prepare_trigger() does not.*)
TypeOK ==
    /\ pc \in {"queue", "prepared", "launched", "destroyed", "exit"}
    /\ batch \in 0 .. MaxBatches /\ my_n_ops \in 0 .. POOL_SIZE
    /\ my_pending \subseteq (0 .. MaxBatches) \X Slot
    /\ awaited \subseteq Slot
    /\ ctx \in [trigger_val : 0 .. POOL_SIZE, completion : BOOLEAN,
                n_ops : 0 .. POOL_SIZE]
    /\ slot_pool \in [Slot -> 0 .. MaxBatches]
    /\ kernel \in {"idle", "flush", "quiet"} /\ poll \in 0 .. POOL_SIZE
    /\ kernel_batch \in 0 .. MaxBatches
    /\ trigger_cntr \in 0 .. POOL_SIZE
    /\ completion_cntr \in [Slot -> 0 .. 1]
    /\ atomic_completion_cntr \in [Slot -> 0 .. 1]
    /\ dwq \subseteq [batch : 0 .. MaxBatches, slot : Slot,
                      op : {"write", "atomic"}, st : {"queued", "fired"}]

(* The structures of a deferred work live as long as the NIC may use them: *)
(* "must outlive the operation" (dwq_work_builder.hpp:23).                 *)
BuildersOutliveWork ==
    \A w \in dwq : <<w.batch, w.slot>> \in my_pending

(* No put runs before the kernel of its own batch flushes: neither a       *)
(* trigger value left over from the last batch nor a kernel still running  *)
(* from it fires what the host is queueing.                                *)
NothingFiresEarly ==
    \A w \in dwq : w.st = "fired" /\ w.batch = batch =>
        pc = "launched" /\ kernel_batch = batch /\ kernel # "flush"

(* A slot that quiet() has passed, and a token that wait() has returned    *)
(* for, stand for a put of this batch that is complete, not for one of an  *)
(* earlier batch in the same slot (ofi_device.cuh:61, ofi_runtime.hpp:48). *)
CompletionsAreFresh ==
    /\ kernel = "quiet" =>
           \A s \in Slot : s < poll => <<kernel_batch, s>> \in complete
    /\ \A s \in awaited : <<batch, s>> \in complete

(* A kernel that was launched ends and its batch is reset, so that a token *)
(* is never waited for in vain (unless the process has exited).            *)
BatchesEnd ==
    pc = "launched" ~> pc = "exit" \/ (pc = "queue" /\ kernel = "idle")
=============================================================================
