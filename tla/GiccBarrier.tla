----------------------------- MODULE GiccBarrier -----------------------------
(***************************************************************************)
(* gicc::Barrier (platform/ofi/internal/gicc_barrier.hpp) together with    *)
(* its device half (platform/ofi/ofi_barrier_device.cuh): a dissemination  *)
(* barrier that the GPU runs by triggering RDMA puts the host has queued   *)
(* on the NIC beforehand (DWQ, deferred work queue).                       *)
(*                                                                         *)
(* Each rank has four actors, and every one of their interleavings is a    *)
(* behaviour here:                                                         *)
(*   - the main thread: setup(), the kernel launch, reset(), and           *)
(*     start_continuous() / wait_continuous() / finalize();                *)
(*   - the monitor thread of init(), which re-arms the barrier while a     *)
(*     kernel runs several of them;                                        *)
(*   - the GPU kernel: barrier();                                          *)
(*   - the NIC: fires a deferred put when its trigger counter reaches the  *)
(*     put's threshold, delivers it, and counts its completion.  Delivery  *)
(*     and completion of a put come in either order.                       *)
(*                                                                         *)
(* A busy loop that polls a variable is an action guarded by what the loop *)
(* waits for.                                                              *)
(***************************************************************************)
EXTENDS Integers

CONSTANTS
    N,            \* number of ranks, comm_.size()
    NRounds,      \* n_rounds_
    Dist,         \* Dist[k] = 1 << k
    MaxBarriers,  \* bound: barriers every rank performs before finalize()
    Modes,        \* Modes[r][b]: "single" or "continuous", or the client's
                  \* choice of the two, for the b-th barrier of rank r
    Reuse         \* may the client go on after wait_continuous()?

Rank == 0 .. N - 1

(* n_rounds_ is the least n with (1 << n) >= size.                         *)
ASSUME SizeAssumption == N \in Nat \ {0} /\ MaxBarriers \in Nat
ASSUME RoundsAssumption ==
    /\ NRounds \in Nat
    /\ Dist \in [0 .. NRounds -> Nat \ {0}]
    /\ Dist[0] = 1
    /\ \A k \in 0 .. NRounds - 1 : Dist[k + 1] = 2 * Dist[k] /\ Dist[k] < N
    /\ N <= Dist[NRounds]
ASSUME ClientAssumption ==
    /\ Modes \in [Rank -> [1 .. MaxBarriers ->
                             SUBSET {"single", "continuous"}]]
    /\ Reuse \in BOOLEAN

Round == 0 .. NRounds - 1

VARIABLES
    \* main thread and monitor thread of each rank
    main,                  \* main[r]: where the main thread is
    monitor,               \* monitor[r]: where the monitor thread is
    barrier_count,         \* barrier_count_
    thread_running,        \* thread_running_
    continuous_mode,       \* continuous_mode_
    target_barrier_count,  \* target_barrier_count_
    \* memory shared by host, GPU and NIC
    expected_signal,       \* d_context_->expected_signal
    ready_counter,         \* *h_ready_counter_
    done_counter,          \* *h_done_counter_
    h_signal_values,       \* h_signal_values[<<r, b>>]: source buffer b
    signals,               \* signals[<<r, k, s>>]: slot s of round k at rank r
    \* GPU kernel
    kernel,                \* kernel[r]: where the kernel is, "off" if none
    round,                 \* k in barrier()
    left,                  \* barriers this launch has still to do
    mode,                  \* which kernel was launched
    \* NIC
    trigger_cntr,          \* counter_pairs_[k].trigger_cntr
    completion_cntr,       \* counter_pairs_[k].completion_cntr
    dwq,                   \* puts queued and not fired yet
    unacked,               \* puts fired whose completion is not counted yet
    wire                   \* puts fired and not delivered yet

threadVars == <<main, monitor, barrier_count, thread_running,
                continuous_mode, target_barrier_count>>
memVars == <<expected_signal, ready_counter, done_counter,
             h_signal_values, signals>>
kernelVars == <<kernel, round, left, mode>>
nicVars == <<trigger_cntr, completion_cntr, dwq, unacked, wire>>
vars == <<threadVars, memVars, kernelVars, nicVars>>

-----------------------------------------------------------------------------
(* Addressing.                                                             *)

BARRIER_SIGNAL_SLOTS == 2
N_SIGNAL_BUFFERS == 2

(* The slot of a barrier's signals, at the sender and at the receiver.     *)
SlotOf(threshold) == threshold % BARRIER_SIGNAL_SLOTS

(* The source buffer setup() fills for the barrier after `count` others.   *)
BufOf(count) == count % N_SIGNAL_BUFFERS

Slots == 0 .. BARRIER_SIGNAL_SLOTS - 1
Bufs == 0 .. N_SIGNAL_BUFFERS - 1

(* The rank that rank r signals in round k.                                *)
UnshiftedPeer(r, k) == (r + k) % N
Peer(r, k) == (r + Dist[k]) % N

(* A deferred put, from the fields queue_rma_write() is given.             *)
Put(r, k, threshold) ==
    [src |-> r, round |-> k, threshold |-> threshold,
     buf |-> BufOf(threshold - 1)]
Puts == [src : Rank, round : Round, threshold : Nat \ {0}, buf : Bufs]
-----------------------------------------------------------------------------
Init ==
    /\ main = [r \in Rank |-> "idle"]
    /\ monitor = [r \in Rank |-> "none"]
    /\ barrier_count = [r \in Rank |-> 0]
    /\ thread_running = [r \in Rank |-> FALSE]
    /\ continuous_mode = [r \in Rank |-> FALSE]
    /\ target_barrier_count = [r \in Rank |-> 0]
    /\ expected_signal = [r \in Rank |-> 0]
    /\ ready_counter = [r \in Rank |-> 0]
    /\ done_counter = [r \in Rank |-> 0]
    /\ h_signal_values = [b \in Rank \X Bufs |-> 0]
    /\ signals = [s \in Rank \X Round \X Slots |-> 0]
    /\ kernel = [r \in Rank |-> "off"]
    /\ round = [r \in Rank |-> 0]
    /\ left = [r \in Rank |-> 0]
    /\ mode = [r \in Rank |-> "single"]
    /\ trigger_cntr = [c \in Rank \X Round |-> 0]
    /\ completion_cntr = [c \in Rank \X Round |-> 0]
    /\ dwq = {}
    /\ unacked = {}
    /\ wire = {}

-----------------------------------------------------------------------------
(* Host operations.  setup() runs in the main thread or in the monitor;    *)
(* nothing it writes can be observed before the ready counter it bumps     *)
(* last, so the call is one step.                                          *)

(* hipMemcpy and hipFree wait for the kernel that is running.              *)
StreamIdle(r) == kernel[r] = "off"

(* Fill the next source buffer and queue one put per round on it.          *)
QueuePuts(r, continuous) ==
    LET threshold == barrier_count[r] + 1 IN
    /\ continuous \/ StreamIdle(r)
    /\ h_signal_values' =
         IF NRounds = 0 THEN h_signal_values
         ELSE [h_signal_values EXCEPT
                 ![<<r, BufOf(barrier_count[r])>>] = threshold]
    /\ expected_signal' =
         IF continuous THEN expected_signal
         ELSE [expected_signal EXCEPT ![r] = threshold]
    /\ dwq' = dwq \cup {Put(r, k, threshold) : k \in Round}

SetupWithoutReady(r, continuous) ==
    QueuePuts(r, continuous) /\ UNCHANGED ready_counter

Setup(r, continuous) ==
    /\ QueuePuts(r, continuous)
    /\ ready_counter' = [ready_counter EXCEPT ![r] = @ + 1]

(* reset() increments barrier_count_ and only then waits, round by round,  *)
(* for the completion counters to reach it.                                *)
CountBarrier(r) == barrier_count' = [barrier_count EXCEPT ![r] = @ + 1]

NotDrained(r) == TRUE
Drained(r) == \A k \in Round : completion_cntr[<<r, k>>] >= barrier_count[r]

(* A kernel that will call barrier() n times.                              *)
Launch(r, m, n) ==
    /\ kernel' = [kernel EXCEPT ![r] = "ready"]
    /\ left' = [left EXCEPT ![r] = n]
    /\ mode' = [mode EXCEPT ![r] = m]
    /\ UNCHANGED round

Go(r, from, to) ==
    /\ main[r] = from
    /\ main' = [main EXCEPT ![r] = to]

-----------------------------------------------------------------------------
(* The main thread: a client that performs MaxBarriers barriers, each by   *)
(* setup / launch / synchronize / reset or several at a time in continuous *)
(* mode, and then finalizes.                                               *)

MayUse(r, m) ==
    barrier_count[r] < MaxBarriers /\ m \in Modes[r][barrier_count[r] + 1]

(* init(): spawn the monitor thread, unless it runs already.               *)
CallInit(r) ==
    /\ Go(r, "idle", "idle")
    /\ \E b \in 1 .. MaxBarriers : "continuous" \in Modes[r][b]
    /\ ~thread_running[r]
    /\ monitor' = [monitor EXCEPT ![r] = "loop"]
    /\ thread_running' = [thread_running EXCEPT ![r] = TRUE]
    /\ continuous_mode' = [continuous_mode EXCEPT ![r] = FALSE]
    /\ target_barrier_count' = [target_barrier_count EXCEPT ![r] = 0]
    /\ UNCHANGED <<barrier_count, memVars, kernelVars, nicVars>>

SingleSetup(r) ==
    /\ Go(r, "idle", "armed")
    /\ MayUse(r, "single")
    /\ Setup(r, continuous_mode[r])
    /\ UNCHANGED <<monitor, barrier_count, thread_running, continuous_mode,
                   target_barrier_count, done_counter, signals, kernelVars,
                   trigger_cntr, completion_cntr, unacked, wire>>

(* Launch a kernel that calls barrier() once, barrier_kernel().            *)
SingleLaunch(r) ==
    /\ Go(r, "armed", "launched")
    /\ Launch(r, "single", 1)
    /\ UNCHANGED <<monitor, barrier_count, thread_running, continuous_mode,
                   target_barrier_count, memVars, nicVars>>

(* wait_completion(): every put of the current barrier is complete.        *)
PutsComplete(r) ==
    \A k \in Round : completion_cntr[<<r, k>>] >= barrier_count[r] + 1

(* hipDeviceSynchronize(), or wait_completion(), and then reset().         *)
ResetBegin(r) ==
    /\ Go(r, "launched", "reset")
    /\ StreamIdle(r) \/ PutsComplete(r)
    /\ CountBarrier(r)
    /\ UNCHANGED <<monitor, thread_running, continuous_mode,
                   target_barrier_count, memVars, kernelVars, nicVars>>

ResetEnd(r) ==
    /\ Go(r, "reset", "idle")
    /\ Drained(r)
    /\ UNCHANGED <<monitor, barrier_count, thread_running, continuous_mode,
                   target_barrier_count, memVars, kernelVars, nicVars>>

(* start_continuous(n): the target, then (once the copy of expected_signal *)
(* got through) the mode and the first setup().                            *)
StartContinuous(r) ==
    /\ Go(r, "idle", "seed")
    /\ thread_running[r]
    /\ MayUse(r, "continuous")
    /\ \E n \in 1 .. MaxBarriers - barrier_count[r] :
         /\ ~Reuse => barrier_count[r] + n = MaxBarriers
         /\ target_barrier_count' =
              [target_barrier_count EXCEPT ![r] = barrier_count[r] + n]
    /\ UNCHANGED <<monitor, barrier_count, thread_running, continuous_mode,
                   memVars, kernelVars, nicVars>>

StartContinuousSeed(r) ==
    /\ Go(r, "seed", "go")
    /\ StreamIdle(r)
    /\ expected_signal' =
         [expected_signal EXCEPT ![r] = barrier_count[r] + 1]
    /\ continuous_mode' = [continuous_mode EXCEPT ![r] = TRUE]
    /\ UNCHANGED <<monitor, barrier_count, thread_running,
                   target_barrier_count, ready_counter, done_counter,
                   h_signal_values, signals, kernelVars, nicVars>>

StartContinuousSetup(r) ==
    /\ Go(r, "go", "started")
    /\ Setup(r, continuous_mode[r])
    /\ UNCHANGED <<monitor, barrier_count, thread_running, continuous_mode,
                   target_barrier_count, done_counter, signals, kernelVars,
                   trigger_cntr, completion_cntr, unacked, wire>>

(* Launch a kernel that calls barrier() for every barrier of this run and  *)
(* increments expected_signal after each.                                  *)
ContinuousLaunch(r) ==
    /\ Go(r, "started", "waiting")
    /\ Launch(r, "continuous",
              target_barrier_count[r] - (expected_signal[r] - 1))
    /\ UNCHANGED <<monitor, barrier_count, thread_running, continuous_mode,
                   target_barrier_count, memVars, nicVars>>

WaitContinuous(r) ==
    /\ Go(r, "waiting", IF Reuse THEN "idle" ELSE "waited")
    /\ barrier_count[r] >= target_barrier_count[r]
    /\ continuous_mode' = [continuous_mode EXCEPT ![r] = FALSE]
    /\ UNCHANGED <<monitor, barrier_count, thread_running,
                   target_barrier_count, memVars, kernelVars, nicVars>>

(* finalize(): stop the monitor and join it, then release.  hipFree waits  *)
(* for the kernel.                                                         *)
NotJoined(r) == TRUE
Joined(r) == monitor[r] \in {"none", "exited"}

Finalize(r) ==
    /\ \/ Go(r, "idle", "joining") /\ barrier_count[r] = MaxBarriers
       \/ Go(r, "waited", "joining")
    /\ thread_running' = [thread_running EXCEPT ![r] = FALSE]
    /\ continuous_mode' = [continuous_mode EXCEPT ![r] =
                             @ /\ ~thread_running[r]]
    /\ UNCHANGED <<monitor, barrier_count, target_barrier_count, memVars,
                   kernelVars, nicVars>>

Release(r) ==
    /\ Go(r, "joining", "released")
    /\ Joined(r)
    /\ StreamIdle(r)
    /\ UNCHANGED <<monitor, barrier_count, thread_running, continuous_mode,
                   target_barrier_count, memVars, kernelVars, nicVars>>

Main(r) ==
    \/ CallInit(r)
    \/ SingleSetup(r) \/ SingleLaunch(r) \/ ResetBegin(r) \/ ResetEnd(r)
    \/ StartContinuous(r) \/ StartContinuousSeed(r)
    \/ StartContinuousSetup(r) \/ ContinuousLaunch(r) \/ WaitContinuous(r)
    \/ Finalize(r) \/ Release(r)

-----------------------------------------------------------------------------
(* monitor_loop().  The loop reads thread_running_, then continuous_mode_, *)
(* then the GPU's done counter, and main may move in between.              *)

MonitorGo(r, from, to) ==
    /\ monitor[r] = from
    /\ monitor' = [monitor EXCEPT ![r] = to]

MonitorExit(r) ==
    /\ MonitorGo(r, "loop", "exited")
    /\ ~thread_running[r]
    /\ UNCHANGED <<main, barrier_count, thread_running, continuous_mode,
                   target_barrier_count, memVars, kernelVars, nicVars>>

MonitorSeesMode(r) ==
    /\ MonitorGo(r, "loop", "check")
    /\ thread_running[r] /\ continuous_mode[r]
    /\ UNCHANGED <<main, barrier_count, thread_running, continuous_mode,
                   target_barrier_count, memVars, kernelVars, nicVars>>

MonitorNothingDone(r) ==
    /\ MonitorGo(r, "check", "loop")
    /\ done_counter[r] <= barrier_count[r]
    /\ UNCHANGED <<main, barrier_count, thread_running, continuous_mode,
                   target_barrier_count, memVars, kernelVars, nicVars>>

MonitorResetBegin(r) ==
    /\ MonitorGo(r, "check", "reset")
    /\ done_counter[r] > barrier_count[r]
    /\ CountBarrier(r)
    /\ UNCHANGED <<main, thread_running, continuous_mode,
                   target_barrier_count, memVars, kernelVars, nicVars>>

MonitorResetEnd(r) ==
    /\ MonitorGo(r, "reset", IF barrier_count[r] < target_barrier_count[r]
                             THEN "setup" ELSE "stop")
    /\ Drained(r)
    /\ UNCHANGED <<main, barrier_count, thread_running, continuous_mode,
                   target_barrier_count, memVars, kernelVars, nicVars>>

MonitorSetup(r) ==
    /\ MonitorGo(r, "setup", "loop")
    /\ Setup(r, continuous_mode[r])
    /\ UNCHANGED <<main, barrier_count, thread_running, continuous_mode,
                   target_barrier_count, done_counter, signals, kernelVars,
                   trigger_cntr, completion_cntr, unacked, wire>>

MonitorStop(r) ==
    /\ MonitorGo(r, "stop", "loop")
    /\ continuous_mode' = [continuous_mode EXCEPT ![r] = FALSE]
    /\ UNCHANGED <<main, barrier_count, thread_running,
                   target_barrier_count, memVars, kernelVars, nicVars>>

Monitor(r) ==
    \/ MonitorExit(r) \/ MonitorSeesMode(r) \/ MonitorNothingDone(r)
    \/ MonitorResetBegin(r) \/ MonitorResetEnd(r)
    \/ MonitorSetup(r) \/ MonitorStop(r)

-----------------------------------------------------------------------------
(* The kernel: barrier() of ofi_barrier_device.cuh.                        *)

(* Wait until the host has queued this barrier's puts.                     *)
KernelReady(r) ==
    /\ kernel[r] = "ready"
    /\ ready_counter[r] >= expected_signal[r]
    /\ kernel' = [kernel EXCEPT ![r] = "trigger"]
    /\ round' = [round EXCEPT ![r] = 0]
    /\ UNCHANGED <<threadVars, memVars, left, mode, nicVars>>

(* Round k: write the trigger counter ...                                  *)
KernelTrigger(r) ==
    /\ kernel[r] = "trigger"
    /\ round[r] < NRounds
    /\ trigger_cntr' =
         [trigger_cntr EXCEPT ![<<r, round[r]>>] = expected_signal[r]]
    /\ kernel' = [kernel EXCEPT ![r] = "poll"]
    /\ UNCHANGED <<threadVars, memVars, round, left, mode, completion_cntr,
                   dwq, unacked, wire>>

(* ... and wait for the peer's signal in this barrier's slot.              *)
SignalledButLast(r) ==
    \/ round[r] = NRounds - 1
    \/ signals[<<r, round[r], SlotOf(expected_signal[r])>>] = expected_signal[r]
Signalled(r) ==
    signals[<<r, round[r], SlotOf(expected_signal[r])>>] = expected_signal[r]

KernelPoll(r) ==
    /\ kernel[r] = "poll"
    /\ Signalled(r)
    /\ kernel' = [kernel EXCEPT ![r] = "trigger"]
    /\ round' = [round EXCEPT ![r] = @ + 1]
    /\ UNCHANGED <<threadVars, memVars, left, mode, nicVars>>

(* All rounds done: tell the host, and go on with the next barrier of this *)
(* launch, if any.                                                         *)
OneMoreBarrier(r) == left[r] = 0
LastBarrier(r) == left[r] = 1

KernelDone(r) ==
    /\ kernel[r] = "trigger"
    /\ round[r] = NRounds
    /\ done_counter' = [done_counter EXCEPT ![r] = @ + 1]
    /\ expected_signal' =
         IF mode[r] = "continuous"
         THEN [expected_signal EXCEPT ![r] = @ + 1]
         ELSE expected_signal
    /\ kernel' = [kernel EXCEPT ![r] = IF LastBarrier(r) THEN "off"
                                                         ELSE "ready"]
    /\ left' = [left EXCEPT ![r] = @ - 1]
    /\ UNCHANGED <<threadVars, ready_counter, h_signal_values, signals, round,
                   mode, nicVars>>

Kernel(r) ==
    KernelReady(r) \/ KernelTrigger(r) \/ KernelPoll(r) \/ KernelDone(r)

-----------------------------------------------------------------------------
(* The NIC.                                                                *)

(* A deferred put whose trigger counter has reached its threshold leaves   *)
(* the DWQ and reads its source buffer.                                    *)
Fire(p) ==
    /\ p \in dwq
    /\ trigger_cntr[<<p.src, p.round>>] >= p.threshold
    /\ dwq' = dwq \ {p}
    /\ unacked' = unacked \cup {p}
    /\ wire' = wire \cup {[src |-> p.src, round |-> p.round,
                           threshold |-> p.threshold,
                           value |-> h_signal_values[<<p.src, p.buf>>]]}
    /\ UNCHANGED <<threadVars, memVars, kernelVars, trigger_cntr,
                   completion_cntr>>

(* A put's payload lands in the target's signal slot.                      *)
Deliver(w) ==
    /\ w \in wire
    /\ wire' = wire \ {w}
    /\ signals' = [signals EXCEPT
         ![<<Peer(w.src, w.round), w.round, SlotOf(w.threshold)>>] = w.value]
    /\ UNCHANGED <<threadVars, expected_signal, ready_counter, done_counter,
                   h_signal_values, kernelVars, trigger_cntr, completion_cntr,
                   dwq, unacked>>

(* The initiator counts a put it has sent as complete.                     *)
Complete(p) ==
    /\ p \in unacked
    /\ unacked' = unacked \ {p}
    /\ completion_cntr' =
         [completion_cntr EXCEPT ![<<p.src, p.round>>] = @ + 1]
    /\ UNCHANGED <<threadVars, memVars, kernelVars, trigger_cntr, dwq, wire>>

Nic ==
    \/ \E p \in dwq : Fire(p)
    \/ \E w \in wire : Deliver(w)
    \/ \E p \in unacked : Complete(p)

-----------------------------------------------------------------------------
Finished ==
    /\ \A r \in Rank : main[r] = "released"
    /\ UNCHANGED vars

Next ==
    \/ \E r \in Rank : Main(r) \/ Monitor(r) \/ Kernel(r)
    \/ Nic
    \/ Finished

Spec == Init /\ [][Next]_vars

(* Host threads are scheduled, a launched kernel runs, and the NIC works   *)
(* off what it was given.                                                  *)
Fairness ==
    /\ \A r \in Rank :
         /\ WF_vars(Main(r))
         /\ WF_vars(Monitor(r))
         /\ WF_vars(Kernel(r))
    /\ WF_vars(\E p \in dwq : Fire(p))
    /\ WF_vars(\E w \in wire : Deliver(w))
    /\ WF_vars(\E p \in unacked : Complete(p))

FairSpec == Spec /\ Fairness

-----------------------------------------------------------------------------
(* Properties.                                                             *)

RankTypeOK ==
    /\ main \in [Rank -> {"idle", "armed", "launched", "reset", "seed", "go",
                          "started", "waiting", "waited", "joining",
                          "released"}]
    /\ monitor \in [Rank -> {"none", "loop", "check", "reset", "setup",
                             "stop", "exited"}]
    /\ barrier_count \in [Rank -> Nat]
    /\ thread_running \in [Rank -> BOOLEAN]
    /\ continuous_mode \in [Rank -> BOOLEAN]
    /\ target_barrier_count \in [Rank -> Nat]
    /\ expected_signal \in [Rank -> Nat]
    /\ ready_counter \in [Rank -> Nat]
    /\ done_counter \in [Rank -> Nat]
    /\ kernel \in [Rank -> {"off", "ready", "trigger", "poll"}]
    /\ round \in [Rank -> 0 .. NRounds]
    /\ left \in [Rank -> Nat]
    /\ mode \in [Rank -> {"single", "continuous"}]

ArrayTypeOK ==
    /\ h_signal_values \in [Rank \X Bufs -> Nat]
    /\ signals \in [Rank \X Round \X Slots -> Nat]
    /\ trigger_cntr \in [Rank \X Round -> Nat]
    /\ completion_cntr \in [Rank \X Round -> Nat]

PutTypeOK ==
    /\ dwq \subseteq Puts
    /\ unacked \subseteq Puts
    /\ wire \subseteq [src : Rank, round : Round, threshold : Nat \ {0},
                       value : Nat]

(* The state of the whole barrier has the shape the code declares: rounds, *)
(* slots and buffers stay within their arrays and no counter is ever       *)
(* decremented below zero (gicc_barrier.hpp:302-343).                      *)
TypeOK == RankTypeOK /\ ArrayTypeOK /\ PutTypeOK

(* How many barriers rank r's kernels have gone into and come out of.      *)
Entered(r) ==
    done_counter[r] + (IF kernel[r] \in {"trigger", "poll"} THEN 1 ELSE 0)

Abstract == INSTANCE BarrierSpec WITH
    entered <- [r \in Rank |-> Entered(r)],
    left <- done_counter

(* barrier() is a barrier: a kernel returns from its t-th call only after  *)
(* the kernel of every rank has gone into its t-th call                    *)
(* (ofi_barrier_device.cuh:62-86).                                         *)
ImplementsBarrier == Abstract!Spec

(* setup() re-populates a round's DwqWorkBuilder only when libfabric has   *)
(* signalled completion of the put it described before, "so reuse across   *)
(* barriers is safe" (gicc_barrier.hpp:442-444).                           *)
BuilderReuseSafe ==
    \A r \in Rank, k \in Round :
        ready_counter[r] <= completion_cntr[<<r, k>>] + 1

(* The double-buffered source value of a put does not change from the      *)
(* moment the put is queued until its completion is counted, so what the   *)
(* NIC reads is this barrier's threshold (gicc_barrier.hpp:182-186).       *)
SourceStable ==
    \A p \in dwq \cup unacked : h_signal_values[<<p.src, p.buf>>] = p.threshold

(* Two slots per round are enough: the slot a rank's kernel polls next in  *)
(* any round never holds a later barrier's signal, however far ahead the   *)
(* sender is (ofi_barrier_device.cuh:23-24, :79).                          *)
NoSignalOverwritten ==
    \A r \in Rank, k \in Round :
        LET next == done_counter[r] + 1
        IN signals[<<r, k, SlotOf(next)>>] <= next

(* finalize() frees signals[] and the source buffers while no put can      *)
(* still read or write them, on this rank or from another one              *)
(* (gicc_barrier.hpp:112-155).                                             *)
NoPutAfterRelease ==
    \A r \in Rank : main[r] = "released" =>
        /\ \A p \in dwq \cup unacked : p.src # r
        /\ \A p \in dwq : Peer(p.src, p.round) # r
        /\ \A w \in wire : Peer(w.src, w.round) # r

(* Every rank gets through all its barriers, in either mode, and finalizes *)
(* (gicc_barrier.hpp:13-35).                                               *)
AllRanksFinish == <>(\A r \in Rank : main[r] = "released")
=============================================================================
