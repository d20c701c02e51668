--------------------------- MODULE GiccBarrierInv ---------------------------
(***************************************************************************)
(* The inductive invariant of GiccBarrier: why the barrier works as long   *)
(* as the client does not use it again after wait_continuous().            *)
(*                                                                         *)
(* HostInv is about one rank at a time: which puts the host has prepared,  *)
(* which of them are complete, and where the rank's threads can be.  The   *)
(* other three parts are about the algorithm across the ranks.             *)
(***************************************************************************)
EXTENDS GiccBarrier

-----------------------------------------------------------------------------
(* The inductive invariant.                                                *)

Bit(b) == IF b THEN 1 ELSE 0

KernelOn(r) == kernel[r] # "off"
InBarrier(r) == kernel[r] \in {"trigger", "poll"}

(* The puts of the barrier being counted are queued and not yet waited for. *)
Armed(r) ==
    \/ main[r] \in {"armed", "launched", "started"}
    \/ /\ main[r] = "waiting"
       /\ monitor[r] \in {"loop", "check"}
       /\ barrier_count[r] < target_barrier_count[r]

InReset(r) == main[r] = "reset" \/ monitor[r] = "reset"

(* How many barriers were set up.                                          *)
ReadyInv(r) == ready_counter[r] = barrier_count[r] + Bit(Armed(r))

(* At most the latest put of a round is incomplete, and only while its     *)
(* barrier is armed or reset() is waiting for it.                          *)
CompletionInv(r) ==
    \A k \in Round :
        /\ completion_cntr[<<r, k>>] <= ready_counter[r]
        /\ ready_counter[r] <= completion_cntr[<<r, k>>] + 1
        /\ \/ Armed(r) \/ InReset(r)
           \/ completion_cntr[<<r, k>>] = ready_counter[r]

(* The running kernel is in barrier done_counter + 1.                      *)
KernelInv(r) ==
    /\ KernelOn(r) => expected_signal[r] = done_counter[r] + 1
    /\ InBarrier(r) => expected_signal[r] <= ready_counter[r]
    /\ KernelOn(r) /\ mode[r] = "single" => left[r] = 1
    /\ kernel[r] = "poll" => round[r] < NRounds

(* Where the main thread, the monitor and the kernel of a rank can be      *)
(* together.                                                               *)
ThreadInv(r) ==
    /\ main[r] \in {"idle", "armed", "launched", "reset", "seed"} =>
         /\ ~continuous_mode[r]
         /\ monitor[r] \in {"none", "loop"}
         /\ monitor[r] = "loop" <=> thread_running[r]
    /\ main[r] \in {"armed", "go", "started"} =>
         /\ ~KernelOn(r)
         /\ done_counter[r] = barrier_count[r]
         /\ expected_signal[r] = barrier_count[r] + 1
    /\ main[r] \in {"seed", "go", "started"} =>
         /\ thread_running[r]
         /\ barrier_count[r] < target_barrier_count[r]
         /\ monitor[r] \in {"loop", "check"}
    /\ main[r] \in {"go", "started"} => continuous_mode[r]
    /\ main[r] = "launched" =>
         done_counter[r] = barrier_count[r] + Bit(~KernelOn(r))
    /\ main[r] \in {"idle", "reset", "seed", "joining"} =>
         done_counter[r] = barrier_count[r] - Bit(KernelOn(r))
    /\ main[r] \in {"idle", "launched", "reset", "seed", "joining"} =>
         (KernelOn(r) => mode[r] = "single")
    /\ main[r] = "waiting" =>
         /\ thread_running[r]
         /\ monitor[r] \in {"loop", "check", "reset", "setup", "stop"}
         /\ barrier_count[r] <= done_counter[r]
         /\ done_counter[r] <= target_barrier_count[r]
         /\ expected_signal[r] = done_counter[r] + 1
         /\ KernelOn(r) =>
              /\ mode[r] = "continuous"
              /\ left[r] = target_barrier_count[r] - done_counter[r]
              /\ done_counter[r] < target_barrier_count[r]
         /\ ~KernelOn(r) => done_counter[r] = target_barrier_count[r]
         /\ monitor[r] = "setup" =>
              barrier_count[r] < target_barrier_count[r]
         /\ monitor[r] = "stop" =>
              barrier_count[r] = target_barrier_count[r]
         /\ barrier_count[r] < target_barrier_count[r] =>
              continuous_mode[r]
    /\ main[r] \in {"waited", "released"} =>
         ~KernelOn(r) /\ done_counter[r] = barrier_count[r]
    /\ main[r] \in {"waited", "joining"} =>
         /\ monitor[r] # "setup"
         /\ monitor[r] \in {"reset", "stop"} =>
              barrier_count[r] = target_barrier_count[r]
    /\ main[r] = "waited" => thread_running[r]
    /\ main[r] = "released" => monitor[r] \in {"none", "exited"}

(* A put that is queued or in flight belongs to the latest barrier set up, *)
(* its completion is the one missing, and its source buffer is intact.     *)
PutInv ==
    /\ dwq \cap unacked = {}
    /\ \A p \in dwq \cup unacked :
         /\ p.threshold = ready_counter[p.src]
         /\ p.threshold = completion_cntr[<<p.src, p.round>>] + 1
         /\ p.buf = BufOf(p.threshold - 1)
         /\ h_signal_values[<<p.src, p.buf>>] = p.threshold

(* A round's trigger counter holds the last barrier that triggered it.     *)
Triggered(r, k) ==
    /\ InBarrier(r)
    /\ k < round[r] \/ (k = round[r] /\ kernel[r] = "poll")

TriggerInv ==
    \A r \in Rank, k \in Round :
        trigger_cntr[<<r, k>>] = done_counter[r] + Bit(Triggered(r, k))

(* The rank whose signal rank r waits for in round k.                      *)
From(r, k) == IF r >= Dist[k] THEN r - Dist[k] ELSE r - Dist[k] + N

(* No signal, on the wire or delivered, is ahead of its sender's trigger   *)
(* counter, and a slot holds only values that belong in it.                *)
SignalInv ==
    /\ \A w \in wire : /\ w.value = w.threshold
                       /\ w.threshold <= trigger_cntr[<<w.src, w.round>>]
    /\ \A r \in Rank, k \in Round, s \in Slots :
         /\ signals[<<r, k, s>>] <= trigger_cntr[<<From(r, k), k>>]
         /\ signals[<<r, k, s>>] = 0 \/ SlotOf(signals[<<r, k, s>>]) = s

(* How far rank j is behind rank r on the ring of ranks.                   *)
Behind(r, j) == IF j <= r THEN r - j ELSE r - j + N

(* The idea of dissemination: a rank that has finished rounds 0 .. k-1     *)
(* knows that the Dist[k] ranks up to and including itself have entered.   *)
WindowInv ==
    \A r \in Rank : \A k \in 0 .. NRounds :
        InBarrier(r) /\ k <= round[r] =>
            \A j \in Rank : Behind(r, j) < Dist[k] =>
                Entered(j) >= done_counter[r] + 1

BarrierInv == \A r, j \in Rank : done_counter[r] <= Entered(j)

RankInv(r) == ReadyInv(r) /\ CompletionInv(r) /\ KernelInv(r) /\ ThreadInv(r)

HostInv == TypeOK /\ (\A r \in Rank : RankInv(r)) /\ PutInv
IInv == HostInv /\ TriggerInv /\ SignalInv /\ WindowInv /\ BarrierInv

-----------------------------------------------------------------------------
(* What finalize() relies on besides.  At the receiver of a put: the       *)
(* barriers whose round-k signal it has consumed.                          *)
Seen(d, k) == done_counter[d] + Bit(InBarrier(d) /\ k < round[d])

(* A put still queued or on the wire is one its receiver has yet to wait   *)
(* for, nothing newer has come into its slot, and the program has such a   *)
(* barrier.                                                                *)
Ahead(src, k, threshold) ==
    /\ Seen(Peer(src, k), k) < threshold
    /\ signals[<<Peer(src, k), k, SlotOf(threshold)>>] < threshold
    /\ threshold <= MaxBarriers

AheadInv == \A m \in dwq \cup wire : Ahead(m.src, m.round, m.threshold)

(* A put on the wire is counted as complete or waits to be.                *)
WireInv ==
    \A w \in wire :
        \/ w.threshold <= completion_cntr[<<w.src, w.round>>]
        \/ \E p \in unacked : /\ p.src = w.src /\ p.round = w.round
                              /\ p.threshold = w.threshold

(* The client's program: MaxBarriers barriers, then finalize(); no kernel  *)
(* is past the barriers set up for it.                                     *)
ProgramInv(r) ==
    /\ done_counter[r] <= ready_counter[r]
    /\ main[r] \in {"seed", "go", "started", "waiting"} =>
         target_barrier_count[r] = MaxBarriers
    /\ main[r] \in {"waited", "joining", "released"} =>
         barrier_count[r] = MaxBarriers

ReleaseInv == AheadInv /\ WireInv /\ \A r \in Rank : ProgramInv(r)

(* The barrier's threads, puts and signals stay where the code's own order  *)
(* of setup(), barrier(), reset() and finalize() keeps them                *)
(* (gicc_barrier.hpp:112-343).                                             *)
FullInv == IInv /\ ReleaseInv
=============================================================================
