----------------------------- MODULE OfiBarrier -----------------------------
(***************************************************************************)
(* OfiBarrier (platform/ofi/internal/ofi_barrier.hpp), the host barrier    *)
(* behind Fabric::barrier() and Runtime::barrier(): dissemination over     *)
(* FI_MSG.  In step k a rank injects a message to the rank Dist[k] ahead   *)
(* and polls its completion queue until the message of step k has come.    *)
(* A message carries only the low bit of the barrier's number, its phase.  *)
(*                                                                         *)
(* A message takes a posted receive buffer when it arrives.  The buffers   *)
(* of messages polled while waiting are reposted at the end of the call.   *)
(***************************************************************************)
EXTENDS Integers, Sequences

CONSTANTS
    N,               \* number of ranks, size
    NSteps,          \* steps
    Dist,            \* Dist[k] = 1 << k
    RECV_POOL_SIZE,  \* receive buffers of a rank
    MaxBarriers,     \* bound: barriers each rank calls
    Ordered          \* does the fabric keep the order of two messages from
                     \* one rank to another?  (No msg_order is requested.)

ASSUME SizeAssumption ==
    /\ N \in Nat \ {0} /\ MaxBarriers \in Nat /\ RECV_POOL_SIZE \in Nat
    /\ Ordered \in BOOLEAN
ASSUME StepsAssumption ==
    /\ NSteps \in Nat
    /\ Dist \in [0 .. NSteps -> Nat \ {0}]
    /\ Dist[0] = 1
    /\ \A k \in 0 .. NSteps - 1 : Dist[k + 1] = 2 * Dist[k] /\ Dist[k] < N
    /\ N <= Dist[NSteps]

Rank == 0 .. N - 1
Step == 0 .. NSteps - 1
Phase == {0, 1}

VARIABLES
    calls,        \* calls[r]: how many times rank r has called barrier()
    pc,           \* "out", "send" (injecting step's message), "wait"
    step,         \* k in barrier()
    phase,        \* phase
    arrived,      \* arrived[r]: the pairs <<p, k>> with arrived[p][k] = 1
    num_pending,  \* buffers to repost at the end of this call
    posted,       \* receive buffers posted to the endpoint
    cq,           \* barrier_cq: messages received and not polled
    wire          \* messages injected and not received

rankVars == <<calls, pc, step, phase, arrived, num_pending>>
vars == <<rankVars, posted, cq, wire>>

-----------------------------------------------------------------------------
(* The rank that receives rank r's message of step k.                      *)
UnshiftedFwd(r, k) == (r + k) % N
Fwd(r, k) == (r + Dist[k]) % N

(* The immediate data is the phase and the step; src, dst and call are     *)
(* what the network knows and the receiver's code never sees.              *)
Message(r) ==
    [src |-> r, dst |-> Fwd(r, step[r]), step |-> step[r],
     phase |-> phase[r], call |-> calls[r]]

Init ==
    /\ calls = [r \in Rank |-> 0]
    /\ pc = [r \in Rank |-> "out"]
    /\ step = [r \in Rank |-> 0]
    /\ phase = [r \in Rank |-> 0]
    /\ arrived = [r \in Rank |-> {}]
    /\ num_pending = [r \in Rank |-> 0]
    /\ posted = [r \in Rank |-> RECV_POOL_SIZE]
    /\ cq = [r \in Rank |-> <<>>]
    /\ wire = {}

(* barrier(): toggle the phase and forget its arrivals.  With one rank it  *)
(* returns at once.                                                        *)
KeepPending(r) == UNCHANGED num_pending
ClearPending(r) == num_pending' = [num_pending EXCEPT ![r] = 0]

Enter(r) ==
    /\ pc[r] = "out"
    /\ calls[r] < MaxBarriers
    /\ N > 1
    /\ calls' = [calls EXCEPT ![r] = @ + 1]
    /\ pc' = [pc EXCEPT ![r] = "send"]
    /\ step' = [step EXCEPT ![r] = 0]
    /\ phase' = [phase EXCEPT ![r] = 1 - @]
    /\ arrived' = [arrived EXCEPT ![r] = @ \ ({1 - phase[r]} \X Step)]
    /\ ClearPending(r)
    /\ UNCHANGED <<posted, cq, wire>>

(* fi_injectdata() takes the message ...                                   *)
Inject(r) ==
    /\ pc[r] = "send"
    /\ wire' = wire \cup {Message(r)}
    /\ pc' = [pc EXCEPT ![r] = "wait"]
    /\ UNCHANGED <<calls, step, phase, arrived, num_pending, posted, cq>>

(* Read one completion: note the arrival.                                  *)
NoteArrival(r) ==
    LET m == Head(cq[r])
    IN arrived' = [arrived EXCEPT ![r] = @ \cup {<<m.phase, m.step>>}]

Poll(r) ==
    /\ cq[r] # <<>>
    /\ NoteArrival(r)
    /\ cq' = [cq EXCEPT ![r] = Tail(@)]

(* ... or refuses it with -FI_EAGAIN: poll_cq_nodefer() and try again.     *)
PollNoDefer(r) ==
    /\ pc[r] = "send"
    /\ Poll(r)
    /\ posted' = [posted EXCEPT ![r] = @ + 1]
    /\ UNCHANGED <<calls, pc, step, phase, num_pending, wire>>

(* poll_cq_defer() while this step's message is missing.                   *)
PollDefer(r) ==
    /\ pc[r] = "wait"
    /\ <<phase[r], step[r]>> \notin arrived[r]
    /\ Poll(r)
    /\ num_pending' = [num_pending EXCEPT ![r] = @ + 1]
    /\ UNCHANGED <<calls, pc, step, phase, posted, wire>>

OneMoreStep(r) == step[r] = NSteps
OneStepFewer(r) == step[r] >= NSteps - 2
LastStep(r) == step[r] = NSteps - 1

(* This step's message is here and another step follows.                   *)
NextStep(r) ==
    /\ pc[r] = "wait"
    /\ <<phase[r], step[r]>> \in arrived[r]
    /\ ~LastStep(r)
    /\ pc' = [pc EXCEPT ![r] = "send"]
    /\ step' = [step EXCEPT ![r] = @ + 1]
    /\ UNCHANGED <<calls, phase, arrived, num_pending, posted, cq, wire>>

(* The last message is here: repost the buffers and return.                *)
Repost(r) == posted' = [posted EXCEPT ![r] = @ + num_pending[r]]

Leave(r) ==
    /\ pc[r] = "wait"
    /\ <<phase[r], step[r]>> \in arrived[r]
    /\ LastStep(r)
    /\ pc' = [pc EXCEPT ![r] = "out"]
    /\ Repost(r)
    /\ UNCHANGED <<calls, step, phase, arrived, num_pending, cq, wire>>

(* The network gives a message a posted buffer and reports it.             *)
Before(m, n) ==
    /\ m.src = n.src /\ m.dst = n.dst
    /\ \/ m.call < n.call
       \/ m.call = n.call /\ m.step < n.step

Receive(m) ==
    /\ m \in wire
    /\ posted[m.dst] > 0
    /\ Ordered => \A n \in wire : ~Before(n, m)
    /\ posted' = [posted EXCEPT ![m.dst] = @ - 1]
    /\ cq' = [cq EXCEPT ![m.dst] = Append(@, m)]
    /\ wire' = wire \ {m}
    /\ UNCHANGED rankVars

Finished ==
    /\ \A r \in Rank : pc[r] = "out" /\ calls[r] = MaxBarriers
    /\ UNCHANGED vars

RankStep(r) ==
    \/ Enter(r) \/ Inject(r) \/ PollNoDefer(r) \/ PollDefer(r)
    \/ NextStep(r) \/ Leave(r)

Next ==
    \/ \E r \in Rank : RankStep(r)
    \/ \E m \in wire : Receive(m)
    \/ Finished

Spec == Init /\ [][Next]_vars

(* Each rank's process runs and an injected message is received when there *)
(* is a buffer for it.                                                     *)
Fairness ==
    /\ \A r \in Rank : WF_vars(RankStep(r))
    /\ \A r \in Rank : WF_vars(\E m \in wire : m.dst = r /\ Receive(m))

FairSpec == Spec /\ Fairness

-----------------------------------------------------------------------------
(* The barrier's state stays inside its arrays: the step below steps, the  *)
(* phases two, the receives the pool's (ofi_barrier.hpp:24-52).            *)
TypeOK ==
    /\ calls \in [Rank -> 0 .. MaxBarriers]
    /\ pc \in [Rank -> {"out", "send", "wait"}]
    /\ step \in [Rank -> Nat]
    /\ \A r \in Rank : pc[r] # "out" => step[r] \in Step
    /\ phase \in [Rank -> Phase]
    /\ arrived \in [Rank -> SUBSET (Phase \X Step)]
    /\ num_pending \in [Rank -> 0 .. RECV_POOL_SIZE]
    /\ posted \in [Rank -> 0 .. RECV_POOL_SIZE]
    /\ \A r \in Rank : \A i \in 1 .. Len(cq[r]) : cq[r][i].dst = r
    /\ wire \subseteq [src : Rank, dst : Rank, step : Step, phase : Phase,
                       call : 1 .. MaxBarriers]

Abstract == INSTANCE BarrierSpec WITH
    entered <- calls,
    left <- [r \in Rank |-> IF pc[r] = "out" THEN calls[r] ELSE calls[r] - 1]

(* A rank returns from its t-th barrier() only after every rank has called *)
(* barrier() t times: "Global barrier across all ranks" (fabric.hpp:342).  *)
ImplementsBarrier == Abstract!Spec

(* No receive buffer is lost or posted twice, on either polling path, and  *)
(* a call never has more buffers to repost than two barriers' messages:    *)
(* pending_repost has MAX_STEPS entries and no bounds check                *)
(* (ofi_barrier.hpp:52, :172).                                             *)
ReceivesAccountedFor ==
    \A r \in Rank :
        /\ posted[r] + Len(cq[r])
             + (IF pc[r] = "out" THEN 0 ELSE num_pending[r]) = RECV_POOL_SIZE
        /\ num_pending[r] <= 2 * NSteps

(* A message in flight or unpolled is of the receiver's current barrier or *)
(* the next, and only of the next once the receiver has left: one bit of   *)
(* phase tells which (ofi_barrier.hpp:124, :165).                          *)
PhaseIsEnough ==
    \A r \in Rank :
        \A m \in wire \cup {cq[r][i] : i \in 1 .. Len(cq[r])} :
            m.dst = r => /\ m.call \in {calls[r], calls[r] + 1}
                         /\ pc[r] = "out" => m.call = calls[r] + 1

(* Every rank's barriers return, if all ranks call as many of them         *)
(* (ofi_barrier.hpp:121-155).                                              *)
BarriersReturn ==
    <>(\A r \in Rank : pc[r] = "out" /\ calls[r] = MaxBarriers)
=============================================================================
