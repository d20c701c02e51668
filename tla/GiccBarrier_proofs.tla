------------------------- MODULE GiccBarrier_proofs -------------------------
(***************************************************************************)
(* Theorems about GiccBarrier, for any number of ranks, any length of the  *)
(* program and every interleaving of host threads, kernels and NICs, of a  *)
(* client that keeps to one wait_continuous() per barrier object (~Reuse). *)
(* First HostInv, what each rank's threads, kernel and queued puts keep to *)
(* whatever the other ranks do; then the algorithm between the ranks.      *)
(***************************************************************************)
EXTENDS GiccBarrierInv, TLAPS

-----------------------------------------------------------------------------
(* Facts about the constants and the addressing operators.                 *)

(* The number of rounds is a natural number.                               *)
LEMMA RoundsNat == NRounds \in Nat
  BY RoundsAssumption

(* setup()'s buffer index and put are well formed.                         *)
LEMMA BufInBufs == ASSUME NEW c \in Nat PROVE BufOf(c) \in Bufs
  BY DEF BufOf, Bufs, N_SIGNAL_BUFFERS

LEMMA PutInPuts ==
    ASSUME NEW r \in Rank, NEW k \in Round, NEW t \in Nat \ {0}
    PROVE  Put(r, k, t) \in Puts
  BY BufInBufs, t - 1 \in Nat DEF Put, Puts

(* A signal's slot is one of the slots, and consecutive barriers differ.   *)
LEMMA SlotAlternates ==
    ASSUME NEW t \in Nat
    PROVE  SlotOf(t) \in Slots /\ SlotOf(t) # SlotOf(t + 1)
  BY DEF SlotOf, Slots, BARRIER_SIGNAL_SLOTS

(* Peer without its remainder: at most one turn around the ring.          *)
LEMMA PeerOnce ==
    ASSUME NEW r \in Rank, NEW k \in Round
    PROVE  Peer(r, k) = IF r + Dist[k] < N THEN r + Dist[k]
                                           ELSE r + Dist[k] - N
<1>1. Dist[k] \in Nat /\ Dist[k] < N
  BY RoundsAssumption DEF Round
<1>2. r \in Nat /\ r < N /\ N \in Nat \ {0}
  BY SizeAssumption DEF Rank
<1>3. PICK a \in Nat : a = r + Dist[k]
  BY <1>1, <1>2
<1>4. a % N = IF a < N THEN a ELSE a - N
  <2>1. CASE a < N
    BY <2>1, <1>2
  <2>2. CASE ~(a < N)
    BY <2>2, <1>1, <1>2, <1>3
  <2> QED BY <2>1, <2>2
<1>5. Peer(r, k) = a % N
  BY <1>3 DEF Peer
<1> QED BY <1>1, <1>2, <1>3, <1>4, <1>5

(* Peer and From are inverse: the rank that r signals in round k waits for *)
(* r, and both are ranks.                                                  *)
LEMMA PeerFrom ==
    ASSUME NEW r \in Rank, NEW k \in Round
    PROVE  /\ Peer(r, k) \in Rank
           /\ From(Peer(r, k), k) = r
           /\ From(r, k) \in Rank
<1>1. Dist[k] \in Nat /\ Dist[k] < N
  BY RoundsAssumption DEF Round
<1>2. r \in Nat /\ r < N /\ N \in Nat \ {0}
  BY SizeAssumption DEF Rank
<1> QED BY <1>1, <1>2, PeerOnce DEF From, Rank

(* One round of dissemination doubles the window: a rank less than         *)
(* 2 * Dist[k] behind r is less than Dist[k] behind r or behind the rank   *)
(* r hears from in round k.                                                *)
LEMMA WindowDoubles ==
    ASSUME NEW r \in Rank, NEW k \in Round, NEW j \in Rank,
           Behind(r, j) < Dist[k + 1]
    PROVE  Behind(r, j) < Dist[k] \/ Behind(From(r, k), j) < Dist[k]
<1>1. Dist[k] \in Nat /\ Dist[k] < N /\ Dist[k + 1] = 2 * Dist[k]
  BY RoundsAssumption DEF Round
<1> QED BY <1>1, SizeAssumption DEF Behind, From, Rank

(* Every rank is in the window of all NRounds rounds.                      *)
LEMMA LastWindow ==
    ASSUME NEW r \in Rank, NEW j \in Rank
    PROVE  Behind(r, j) < Dist[NRounds]
<1>1. Behind(r, j) < N /\ Behind(r, j) \in Nat
  BY SizeAssumption DEF Behind, Rank
<1>2. Dist[NRounds] \in Nat /\ N <= Dist[NRounds] /\ N \in Nat
  BY RoundsAssumption, SizeAssumption
<1> QED BY <1>1, <1>2

-----------------------------------------------------------------------------
(* Steps of rank r's threads and kernel preserve each part of the          *)
(* invariant that is about rank r.                                         *)

(* The per-rank state keeps its types.                                     *)
LEMMA RankTypeStep ==
    ASSUME NEW r \in Rank, TypeOK, RankInv(r), ~Reuse,
           Main(r) \/ Monitor(r) \/ Kernel(r)
    PROVE  RankTypeOK'
<1> USE RoundsNat DEF TypeOK, RankInv, RankTypeOK, Go, MonitorGo,
       threadVars, memVars, kernelVars, nicVars
<1>1. CASE CallInit(r)
  BY <1>1 DEF CallInit
<1>2. CASE SingleSetup(r)
  BY <1>2 DEF SingleSetup, Setup, QueuePuts, StreamIdle
<1>3. CASE SingleLaunch(r)
  BY <1>3 DEF SingleLaunch, Launch
<1>4. CASE ResetBegin(r)
  BY <1>4 DEF ResetBegin, CountBarrier
<1>5. CASE ResetEnd(r)
  BY <1>5 DEF ResetEnd
<1>6. CASE StartContinuous(r)
  BY <1>6 DEF StartContinuous
<1>7. CASE StartContinuousSeed(r)
  BY <1>7 DEF StartContinuousSeed, StreamIdle
<1>8. CASE StartContinuousSetup(r)
  BY <1>8 DEF StartContinuousSetup, Setup, QueuePuts
<1>9. CASE ContinuousLaunch(r)
  BY <1>9 DEF ContinuousLaunch, Launch, KernelInv, KernelOn, ThreadInv
<1>10. CASE WaitContinuous(r)
  BY <1>10 DEF WaitContinuous
<1>11. CASE Finalize(r)
  BY <1>11 DEF Finalize
<1>12. CASE Release(r)
  BY <1>12 DEF Release, Joined, StreamIdle
<1>13. CASE MonitorExit(r)
  BY <1>13 DEF MonitorExit
<1>14. CASE MonitorSeesMode(r)
  BY <1>14 DEF MonitorSeesMode
<1>15. CASE MonitorNothingDone(r)
  BY <1>15 DEF MonitorNothingDone
<1>16. CASE MonitorResetBegin(r)
  BY <1>16 DEF MonitorResetBegin, CountBarrier
<1>17. CASE MonitorResetEnd(r)
  BY <1>17 DEF MonitorResetEnd
<1>18. CASE MonitorSetup(r)
  BY <1>18 DEF MonitorSetup, Setup, QueuePuts
<1>19. CASE MonitorStop(r)
  BY <1>19 DEF MonitorStop
<1>20. CASE KernelReady(r)
  BY <1>20 DEF KernelReady
<1>21. CASE KernelTrigger(r)
  BY <1>21 DEF KernelTrigger
<1>22. CASE KernelPoll(r)
  <2>1. round[r] \in 0 .. NRounds /\ round[r] < NRounds
    BY <1>22 DEF KernelPoll, KernelInv
  <2>2. round[r] + 1 \in 0 .. NRounds
    BY <2>1
  <2> QED BY <1>22, <2>2 DEF KernelPoll
<1>23. CASE KernelDone(r)
  BY <1>23 DEF KernelDone, LastBarrier, KernelInv, KernelOn, ThreadInv
<1> QED
  BY <1>1, <1>2, <1>3, <1>4, <1>5, <1>6, <1>7, <1>8, <1>9, <1>10, <1>11, <1>12,
     <1>13, <1>14, <1>15, <1>16, <1>17, <1>18, <1>19, <1>20, <1>21, <1>22, <1>23
     DEF Main, Monitor, Kernel

(* The counters, buffers and signal slots keep their types.                *)
LEMMA ArrayTypeStep ==
    ASSUME NEW r \in Rank, TypeOK, RankInv(r), ~Reuse,
           Main(r) \/ Monitor(r) \/ Kernel(r)
    PROVE  ArrayTypeOK'
<1> USE RoundsNat, BufInBufs DEF TypeOK, RankInv, ArrayTypeOK, RankTypeOK, Go, MonitorGo,
       threadVars, memVars, kernelVars, nicVars
<1>1. CASE CallInit(r)
  BY <1>1 DEF CallInit
<1>2. CASE SingleSetup(r)
  BY <1>2 DEF SingleSetup, Setup, QueuePuts, StreamIdle
<1>3. CASE SingleLaunch(r)
  BY <1>3 DEF SingleLaunch, Launch
<1>4. CASE ResetBegin(r)
  BY <1>4 DEF ResetBegin, CountBarrier
<1>5. CASE ResetEnd(r)
  BY <1>5 DEF ResetEnd
<1>6. CASE StartContinuous(r)
  BY <1>6 DEF StartContinuous
<1>7. CASE StartContinuousSeed(r)
  BY <1>7 DEF StartContinuousSeed, StreamIdle
<1>8. CASE StartContinuousSetup(r)
  BY <1>8 DEF StartContinuousSetup, Setup, QueuePuts
<1>9. CASE ContinuousLaunch(r)
  BY <1>9 DEF ContinuousLaunch, Launch
<1>10. CASE WaitContinuous(r)
  BY <1>10 DEF WaitContinuous
<1>11. CASE Finalize(r)
  BY <1>11 DEF Finalize
<1>12. CASE Release(r)
  BY <1>12 DEF Release, Joined, StreamIdle
<1>13. CASE MonitorExit(r)
  BY <1>13 DEF MonitorExit
<1>14. CASE MonitorSeesMode(r)
  BY <1>14 DEF MonitorSeesMode
<1>15. CASE MonitorNothingDone(r)
  BY <1>15 DEF MonitorNothingDone
<1>16. CASE MonitorResetBegin(r)
  BY <1>16 DEF MonitorResetBegin, CountBarrier
<1>17. CASE MonitorResetEnd(r)
  BY <1>17 DEF MonitorResetEnd
<1>18. CASE MonitorSetup(r)
  BY <1>18 DEF MonitorSetup, Setup, QueuePuts
<1>19. CASE MonitorStop(r)
  BY <1>19 DEF MonitorStop
<1>20. CASE KernelReady(r)
  BY <1>20 DEF KernelReady, Round
<1>21. CASE KernelTrigger(r)
  BY <1>21 DEF KernelTrigger, Round
<1>22. CASE KernelPoll(r)
  BY <1>22 DEF KernelPoll, Round
<1>23. CASE KernelDone(r)
  BY <1>23 DEF KernelDone, LastBarrier, Round
<1> QED
  BY <1>1, <1>2, <1>3, <1>4, <1>5, <1>6, <1>7, <1>8, <1>9, <1>10, <1>11, <1>12,
     <1>13, <1>14, <1>15, <1>16, <1>17, <1>18, <1>19, <1>20, <1>21, <1>22, <1>23
     DEF Main, Monitor, Kernel

(* What is queued on the NIC or in flight keeps its type.                  *)
LEMMA PutTypeStep ==
    ASSUME NEW r \in Rank, TypeOK, RankInv(r), ~Reuse,
           Main(r) \/ Monitor(r) \/ Kernel(r)
    PROVE  PutTypeOK'
<1> USE PutInPuts DEF TypeOK, RankInv, PutTypeOK, RankTypeOK, Go, MonitorGo,
       threadVars, memVars, kernelVars, nicVars
<1>1. CASE CallInit(r)
  BY <1>1 DEF CallInit
<1>2. CASE SingleSetup(r)
  <2>1. dwq' = dwq \cup {Put(r, k, barrier_count[r] + 1) : k \in Round}
    BY <1>2 DEF SingleSetup, Setup, QueuePuts
  <2>2. barrier_count[r] + 1 \in Nat \ {0}
    OBVIOUS
  <2>3. UNCHANGED <<unacked, wire>>
    BY <1>2 DEF SingleSetup
  <2> QED BY <2>1, <2>2, <2>3
<1>3. CASE SingleLaunch(r)
  BY <1>3 DEF SingleLaunch, Launch
<1>4. CASE ResetBegin(r)
  BY <1>4 DEF ResetBegin, CountBarrier
<1>5. CASE ResetEnd(r)
  BY <1>5 DEF ResetEnd
<1>6. CASE StartContinuous(r)
  BY <1>6 DEF StartContinuous
<1>7. CASE StartContinuousSeed(r)
  BY <1>7 DEF StartContinuousSeed, StreamIdle
<1>8. CASE StartContinuousSetup(r)
  BY <1>8 DEF StartContinuousSetup, Setup, QueuePuts
<1>9. CASE ContinuousLaunch(r)
  BY <1>9 DEF ContinuousLaunch, Launch
<1>10. CASE WaitContinuous(r)
  BY <1>10 DEF WaitContinuous
<1>11. CASE Finalize(r)
  BY <1>11 DEF Finalize
<1>12. CASE Release(r)
  BY <1>12 DEF Release, Joined, StreamIdle
<1>13. CASE MonitorExit(r)
  BY <1>13 DEF MonitorExit
<1>14. CASE MonitorSeesMode(r)
  BY <1>14 DEF MonitorSeesMode
<1>15. CASE MonitorNothingDone(r)
  BY <1>15 DEF MonitorNothingDone
<1>16. CASE MonitorResetBegin(r)
  BY <1>16 DEF MonitorResetBegin, CountBarrier
<1>17. CASE MonitorResetEnd(r)
  BY <1>17 DEF MonitorResetEnd
<1>18. CASE MonitorSetup(r)
  BY <1>18 DEF MonitorSetup, Setup, QueuePuts
<1>19. CASE MonitorStop(r)
  BY <1>19 DEF MonitorStop
<1>20. CASE KernelReady(r)
  BY <1>20 DEF KernelReady
<1>21. CASE KernelTrigger(r)
  BY <1>21 DEF KernelTrigger
<1>22. CASE KernelPoll(r)
  BY <1>22 DEF KernelPoll
<1>23. CASE KernelDone(r)
  BY <1>23 DEF KernelDone, LastBarrier
<1> QED
  BY <1>1, <1>2, <1>3, <1>4, <1>5, <1>6, <1>7, <1>8, <1>9, <1>10, <1>11, <1>12,
     <1>13, <1>14, <1>15, <1>16, <1>17, <1>18, <1>19, <1>20, <1>21, <1>22, <1>23
     DEF Main, Monitor, Kernel

(* The ready counter counts the barriers set up.                           *)
LEMMA ReadyStep ==
    ASSUME NEW r \in Rank, TypeOK, RankInv(r), ~Reuse,
           Main(r) \/ Monitor(r) \/ Kernel(r)
    PROVE  ReadyInv(r)'
<1> USE DEF TypeOK, RankInv, RankTypeOK, ReadyInv, ThreadInv, Armed, Bit, Go, MonitorGo,
       threadVars, memVars, kernelVars, nicVars
<1>1. CASE CallInit(r)
  BY <1>1 DEF CallInit
<1>2. CASE SingleSetup(r)
  BY <1>2 DEF SingleSetup, Setup, QueuePuts, StreamIdle
<1>3. CASE SingleLaunch(r)
  BY <1>3 DEF SingleLaunch, Launch
<1>4. CASE ResetBegin(r)
  BY <1>4 DEF ResetBegin, CountBarrier
<1>5. CASE ResetEnd(r)
  BY <1>5 DEF ResetEnd
<1>6. CASE StartContinuous(r)
  BY <1>6 DEF StartContinuous
<1>7. CASE StartContinuousSeed(r)
  BY <1>7 DEF StartContinuousSeed, StreamIdle
<1>8. CASE StartContinuousSetup(r)
  BY <1>8 DEF StartContinuousSetup, Setup, QueuePuts
<1>9. CASE ContinuousLaunch(r)
  BY <1>9 DEF ContinuousLaunch, Launch
<1>10. CASE WaitContinuous(r)
  BY <1>10 DEF WaitContinuous
<1>11. CASE Finalize(r)
  BY <1>11 DEF Finalize
<1>12. CASE Release(r)
  BY <1>12 DEF Release, Joined, StreamIdle
<1>13. CASE MonitorExit(r)
  BY <1>13 DEF MonitorExit
<1>14. CASE MonitorSeesMode(r)
  BY <1>14 DEF MonitorSeesMode
<1>15. CASE MonitorNothingDone(r)
  BY <1>15 DEF MonitorNothingDone
<1>16. CASE MonitorResetBegin(r)
  BY <1>16 DEF MonitorResetBegin, CountBarrier
<1>17. CASE MonitorResetEnd(r)
  BY <1>17 DEF MonitorResetEnd
<1>18. CASE MonitorSetup(r)
  BY <1>18 DEF MonitorSetup, Setup, QueuePuts
<1>19. CASE MonitorStop(r)
  BY <1>19 DEF MonitorStop
<1>20. CASE KernelReady(r)
  BY <1>20 DEF KernelReady
<1>21. CASE KernelTrigger(r)
  BY <1>21 DEF KernelTrigger
<1>22. CASE KernelPoll(r)
  BY <1>22 DEF KernelPoll
<1>23. CASE KernelDone(r)
  BY <1>23 DEF KernelDone, LastBarrier
<1> QED
  BY <1>1, <1>2, <1>3, <1>4, <1>5, <1>6, <1>7, <1>8, <1>9, <1>10, <1>11, <1>12,
     <1>13, <1>14, <1>15, <1>16, <1>17, <1>18, <1>19, <1>20, <1>21, <1>22, <1>23
     DEF Main, Monitor, Kernel

(* setup() runs only when every earlier put is complete.                   *)
LEMMA CompletionStep ==
    ASSUME NEW r \in Rank, TypeOK, RankInv(r), ~Reuse,
           Main(r) \/ Monitor(r) \/ Kernel(r)
    PROVE  CompletionInv(r)'
<1> USE DEF TypeOK, RankInv, Go, MonitorGo,
       threadVars, memVars, kernelVars, nicVars
<1>1. CASE CallInit(r)
  BY <1>1 DEF CallInit,
       RankTypeOK, ArrayTypeOK, CompletionInv, ThreadInv, Armed, InReset
<1>2. CASE SingleSetup(r)
  <2>1. ~Armed(r) /\ ~InReset(r) /\ Armed(r)'
    BY <1>2 DEF SingleSetup, ThreadInv, Armed, InReset, RankTypeOK
  <2>2. /\ ready_counter'[r] = ready_counter[r] + 1
        /\ UNCHANGED completion_cntr
    BY <1>2 DEF SingleSetup, Setup, RankTypeOK
  <2>3. ready_counter[r] \in Nat /\ \A k \in Round : completion_cntr[<<r, k>>] \in Nat
    BY DEF RankTypeOK, ArrayTypeOK
  <2> QED BY <2>1, <2>2, <2>3 DEF CompletionInv
<1>3. CASE SingleLaunch(r)
  BY <1>3 DEF SingleLaunch, Launch,
       RankTypeOK, ArrayTypeOK, CompletionInv, ThreadInv, Armed, InReset
<1>4. CASE ResetBegin(r)
  BY <1>4 DEF ResetBegin, CountBarrier,
       RankTypeOK, ArrayTypeOK, CompletionInv, ThreadInv, Armed, InReset
<1>5. CASE ResetEnd(r)
  <2>1. ready_counter[r] = barrier_count[r]
    <3>1. ~Armed(r)
      BY <1>5 DEF ResetEnd, ThreadInv, Armed
    <3> QED BY <3>1 DEF ReadyInv, Bit, RankTypeOK
  <2>2. ~Armed(r)' /\ ~InReset(r)'
    BY <1>5 DEF ResetEnd, ThreadInv, Armed, InReset, RankTypeOK
  <2>3. UNCHANGED <<ready_counter, completion_cntr>>
    BY <1>5 DEF ResetEnd
  <2>4. \A k \in Round : completion_cntr[<<r, k>>] >= barrier_count[r]
    BY <1>5 DEF ResetEnd, Drained
  <2>5. ready_counter[r] \in Nat /\ \A k \in Round : completion_cntr[<<r, k>>] \in Nat
    BY DEF RankTypeOK, ArrayTypeOK
  <2> QED BY <2>1, <2>2, <2>3, <2>4, <2>5 DEF CompletionInv
<1>6. CASE StartContinuous(r)
  BY <1>6 DEF StartContinuous,
       RankTypeOK, ArrayTypeOK, CompletionInv, ThreadInv, Armed, InReset
<1>7. CASE StartContinuousSeed(r)
  BY <1>7 DEF StartContinuousSeed, StreamIdle,
       RankTypeOK, ArrayTypeOK, CompletionInv, ThreadInv, Armed, InReset
<1>8. CASE StartContinuousSetup(r)
  <2>1. ~Armed(r) /\ ~InReset(r) /\ Armed(r)'
    BY <1>8 DEF StartContinuousSetup, ThreadInv, Armed, InReset, RankTypeOK
  <2>2. /\ ready_counter'[r] = ready_counter[r] + 1
        /\ UNCHANGED completion_cntr
    BY <1>8 DEF StartContinuousSetup, Setup, RankTypeOK
  <2>3. ready_counter[r] \in Nat /\ \A k \in Round : completion_cntr[<<r, k>>] \in Nat
    BY DEF RankTypeOK, ArrayTypeOK
  <2> QED BY <2>1, <2>2, <2>3 DEF CompletionInv
<1>9. CASE ContinuousLaunch(r)
  BY <1>9 DEF ContinuousLaunch, Launch,
       RankTypeOK, ArrayTypeOK, CompletionInv, ThreadInv, Armed, InReset
<1>10. CASE WaitContinuous(r)
  <2>1. ~Armed(r) /\ (InReset(r) <=> InReset(r)')
    BY <1>10 DEF WaitContinuous, Armed, InReset, RankTypeOK
  <2>2. UNCHANGED <<ready_counter, completion_cntr>>
    BY <1>10 DEF WaitContinuous
  <2> QED BY <2>1, <2>2 DEF CompletionInv
<1>11. CASE Finalize(r)
  BY <1>11 DEF Finalize,
       RankTypeOK, ArrayTypeOK, CompletionInv, ThreadInv, Armed, InReset
<1>12. CASE Release(r)
  BY <1>12 DEF Release, Joined, StreamIdle,
       RankTypeOK, ArrayTypeOK, CompletionInv, ThreadInv, Armed, InReset
<1>13. CASE MonitorExit(r)
  BY <1>13 DEF MonitorExit,
       RankTypeOK, ArrayTypeOK, CompletionInv, ThreadInv, Armed, InReset
<1>14. CASE MonitorSeesMode(r)
  BY <1>14 DEF MonitorSeesMode,
       RankTypeOK, ArrayTypeOK, CompletionInv, ThreadInv, Armed, InReset
<1>15. CASE MonitorNothingDone(r)
  BY <1>15 DEF MonitorNothingDone,
       RankTypeOK, ArrayTypeOK, CompletionInv, ThreadInv, Armed, InReset
<1>16. CASE MonitorResetBegin(r)
  BY <1>16 DEF MonitorResetBegin, CountBarrier,
       RankTypeOK, ArrayTypeOK, CompletionInv, ThreadInv, Armed, InReset
<1>17. CASE MonitorResetEnd(r)
  <2>1. ready_counter[r] = barrier_count[r]
    <3>1. ~Armed(r)
      BY <1>17 DEF MonitorResetEnd, ThreadInv, Armed
    <3> QED BY <3>1 DEF ReadyInv, Bit, RankTypeOK
  <2>2. ~Armed(r)' /\ ~InReset(r)'
    BY <1>17 DEF MonitorResetEnd, ThreadInv, Armed, InReset, RankTypeOK
  <2>3. UNCHANGED <<ready_counter, completion_cntr>>
    BY <1>17 DEF MonitorResetEnd
  <2>4. \A k \in Round : completion_cntr[<<r, k>>] >= barrier_count[r]
    BY <1>17 DEF MonitorResetEnd, Drained
  <2>5. ready_counter[r] \in Nat /\ \A k \in Round : completion_cntr[<<r, k>>] \in Nat
    BY DEF RankTypeOK, ArrayTypeOK
  <2> QED BY <2>1, <2>2, <2>3, <2>4, <2>5 DEF CompletionInv
<1>18. CASE MonitorSetup(r)
  <2>1. ~Armed(r) /\ ~InReset(r) /\ Armed(r)'
    BY <1>18 DEF MonitorSetup, ThreadInv, Armed, InReset, RankTypeOK
  <2>2. /\ ready_counter'[r] = ready_counter[r] + 1
        /\ UNCHANGED completion_cntr
    BY <1>18 DEF MonitorSetup, Setup, RankTypeOK
  <2>3. ready_counter[r] \in Nat /\ \A k \in Round : completion_cntr[<<r, k>>] \in Nat
    BY DEF RankTypeOK, ArrayTypeOK
  <2> QED BY <2>1, <2>2, <2>3 DEF CompletionInv
<1>19. CASE MonitorStop(r)
  BY <1>19 DEF MonitorStop,
       RankTypeOK, ArrayTypeOK, CompletionInv, ThreadInv, Armed, InReset
<1>20. CASE KernelReady(r)
  BY <1>20 DEF KernelReady,
       RankTypeOK, ArrayTypeOK, CompletionInv, ThreadInv, Armed, InReset
<1>21. CASE KernelTrigger(r)
  BY <1>21 DEF KernelTrigger,
       RankTypeOK, ArrayTypeOK, CompletionInv, ThreadInv, Armed, InReset
<1>22. CASE KernelPoll(r)
  BY <1>22 DEF KernelPoll,
       RankTypeOK, ArrayTypeOK, CompletionInv, ThreadInv, Armed, InReset
<1>23. CASE KernelDone(r)
  BY <1>23 DEF KernelDone, LastBarrier,
       RankTypeOK, ArrayTypeOK, CompletionInv, ThreadInv, Armed, InReset
<1> QED
  BY <1>1, <1>2, <1>3, <1>4, <1>5, <1>6, <1>7, <1>8, <1>9, <1>10, <1>11, <1>12,
     <1>13, <1>14, <1>15, <1>16, <1>17, <1>18, <1>19, <1>20, <1>21, <1>22, <1>23
     DEF Main, Monitor, Kernel

(* The kernel works on the barrier the host expects it to.                 *)
LEMMA KernelStep ==
    ASSUME NEW r \in Rank, TypeOK, RankInv(r), ~Reuse,
           Main(r) \/ Monitor(r) \/ Kernel(r)
    PROVE  KernelInv(r)'
<1> USE DEF TypeOK, RankInv, RankTypeOK, KernelInv, ThreadInv, KernelOn, InBarrier, Bit, Go, MonitorGo,
       threadVars, memVars, kernelVars, nicVars
<1>1. CASE CallInit(r)
  BY <1>1 DEF CallInit
<1>2. CASE SingleSetup(r)
  BY <1>2 DEF SingleSetup, Setup, QueuePuts, StreamIdle
<1>3. CASE SingleLaunch(r)
  BY <1>3 DEF SingleLaunch, Launch
<1>4. CASE ResetBegin(r)
  BY <1>4 DEF ResetBegin, CountBarrier
<1>5. CASE ResetEnd(r)
  BY <1>5 DEF ResetEnd
<1>6. CASE StartContinuous(r)
  BY <1>6 DEF StartContinuous
<1>7. CASE StartContinuousSeed(r)
  BY <1>7 DEF StartContinuousSeed, StreamIdle
<1>8. CASE StartContinuousSetup(r)
  BY <1>8 DEF StartContinuousSetup, Setup, QueuePuts
<1>9. CASE ContinuousLaunch(r)
  BY <1>9 DEF ContinuousLaunch, Launch
<1>10. CASE WaitContinuous(r)
  BY <1>10 DEF WaitContinuous
<1>11. CASE Finalize(r)
  BY <1>11 DEF Finalize
<1>12. CASE Release(r)
  BY <1>12 DEF Release, Joined, StreamIdle
<1>13. CASE MonitorExit(r)
  BY <1>13 DEF MonitorExit
<1>14. CASE MonitorSeesMode(r)
  BY <1>14 DEF MonitorSeesMode
<1>15. CASE MonitorNothingDone(r)
  BY <1>15 DEF MonitorNothingDone
<1>16. CASE MonitorResetBegin(r)
  BY <1>16 DEF MonitorResetBegin, CountBarrier
<1>17. CASE MonitorResetEnd(r)
  BY <1>17 DEF MonitorResetEnd
<1>18. CASE MonitorSetup(r)
  BY <1>18 DEF MonitorSetup, Setup, QueuePuts
<1>19. CASE MonitorStop(r)
  BY <1>19 DEF MonitorStop
<1>20. CASE KernelReady(r)
  BY <1>20 DEF KernelReady
<1>21. CASE KernelTrigger(r)
  BY <1>21 DEF KernelTrigger
<1>22. CASE KernelPoll(r)
  BY <1>22 DEF KernelPoll
<1>23. CASE KernelDone(r)
  BY <1>23 DEF KernelDone, LastBarrier
<1> QED
  BY <1>1, <1>2, <1>3, <1>4, <1>5, <1>6, <1>7, <1>8, <1>9, <1>10, <1>11, <1>12,
     <1>13, <1>14, <1>15, <1>16, <1>17, <1>18, <1>19, <1>20, <1>21, <1>22, <1>23
     DEF Main, Monitor, Kernel

(* The main thread, the monitor and the kernel stay together.              *)
LEMMA ThreadStep ==
    ASSUME NEW r \in Rank, TypeOK, RankInv(r), ~Reuse,
           Main(r) \/ Monitor(r) \/ Kernel(r)
    PROVE  ThreadInv(r)'
<1> USE DEF TypeOK, RankInv, RankTypeOK, ThreadInv, KernelOn, Bit, Go, MonitorGo,
       threadVars, memVars, kernelVars, nicVars
<1>1. CASE CallInit(r)
  BY <1>1 DEF CallInit
<1>2. CASE SingleSetup(r)
  BY <1>2 DEF SingleSetup, Setup, QueuePuts, StreamIdle
<1>3. CASE SingleLaunch(r)
  BY <1>3 DEF SingleLaunch, Launch
<1>4. CASE ResetBegin(r)
  BY <1>4 DEF ResetBegin, CountBarrier
<1>5. CASE ResetEnd(r)
  BY <1>5 DEF ResetEnd
<1>6. CASE StartContinuous(r)
  <2>1. barrier_count[r] < target_barrier_count'[r]
    BY <1>6, SizeAssumption DEF StartContinuous, RankTypeOK
  <2> QED BY <1>6, <2>1 DEF StartContinuous
<1>7. CASE StartContinuousSeed(r)
  BY <1>7 DEF StartContinuousSeed, StreamIdle
<1>8. CASE StartContinuousSetup(r)
  BY <1>8 DEF StartContinuousSetup, Setup, QueuePuts
<1>9. CASE ContinuousLaunch(r)
  BY <1>9 DEF ContinuousLaunch, Launch
<1>10. CASE WaitContinuous(r)
  BY <1>10 DEF WaitContinuous
<1>11. CASE Finalize(r)
  BY <1>11 DEF Finalize
<1>12. CASE Release(r)
  BY <1>12 DEF Release, Joined, StreamIdle
<1>13. CASE MonitorExit(r)
  BY <1>13 DEF MonitorExit
<1>14. CASE MonitorSeesMode(r)
  BY <1>14 DEF MonitorSeesMode
<1>15. CASE MonitorNothingDone(r)
  BY <1>15 DEF MonitorNothingDone
<1>16. CASE MonitorResetBegin(r)
  BY <1>16 DEF MonitorResetBegin, CountBarrier
<1>17. CASE MonitorResetEnd(r)
  BY <1>17 DEF MonitorResetEnd
<1>18. CASE MonitorSetup(r)
  BY <1>18 DEF MonitorSetup, Setup, QueuePuts
<1>19. CASE MonitorStop(r)
  BY <1>19 DEF MonitorStop
<1>20. CASE KernelReady(r)
  BY <1>20 DEF KernelReady
<1>21. CASE KernelTrigger(r)
  BY <1>21 DEF KernelTrigger
<1>22. CASE KernelPoll(r)
  BY <1>22 DEF KernelPoll
<1>23. CASE KernelDone(r)
  BY <1>23 DEF KernelDone, LastBarrier, KernelInv, InBarrier
<1> QED
  BY <1>1, <1>2, <1>3, <1>4, <1>5, <1>6, <1>7, <1>8, <1>9, <1>10, <1>11, <1>12,
     <1>13, <1>14, <1>15, <1>16, <1>17, <1>18, <1>19, <1>20, <1>21, <1>22, <1>23
     DEF Main, Monitor, Kernel

-----------------------------------------------------------------------------
(* Steps of one rank leave the others' state alone.                        *)

(* Everything RankInv(q) speaks of is unchanged.                           *)
SameRank(q) ==
    /\ main'[q] = main[q] /\ monitor'[q] = monitor[q]
    /\ barrier_count'[q] = barrier_count[q]
    /\ thread_running'[q] = thread_running[q]
    /\ continuous_mode'[q] = continuous_mode[q]
    /\ target_barrier_count'[q] = target_barrier_count[q]
    /\ expected_signal'[q] = expected_signal[q]
    /\ ready_counter'[q] = ready_counter[q]
    /\ done_counter'[q] = done_counter[q]
    /\ kernel'[q] = kernel[q] /\ round'[q] = round[q]
    /\ left'[q] = left[q] /\ mode'[q] = mode[q]
    /\ \A k \in Round : completion_cntr'[<<q, k>>] = completion_cntr[<<q, k>>]

(* RankInv(q) depends on nothing else.                                     *)
LEMMA SameRankInv ==
    ASSUME NEW q \in Rank, RankInv(q), SameRank(q)
    PROVE  RankInv(q)'
<1> USE DEF RankInv, SameRank
<1>1. /\ Armed(q)' <=> Armed(q)
      /\ InReset(q)' <=> InReset(q)
      /\ KernelOn(q)' <=> KernelOn(q)
      /\ InBarrier(q)' <=> InBarrier(q)
  BY DEF Armed, InReset, KernelOn, InBarrier
<1>2. ReadyInv(q)'
  BY <1>1 DEF ReadyInv, Bit
<1>3. CompletionInv(q)'
  BY <1>1 DEF CompletionInv
<1>4. KernelInv(q)'
  BY <1>1 DEF KernelInv
<1>5. ThreadInv(q)'
  BY <1>1 DEF ThreadInv, Bit
<1> QED BY <1>2, <1>3, <1>4, <1>5

(* No step of rank r's threads or kernel touches another rank's state.     *)
LEMMA OtherRank ==
    ASSUME NEW r \in Rank, NEW q \in Rank, q # r, TypeOK,
           Main(r) \/ Monitor(r) \/ Kernel(r)
    PROVE  SameRank(q)
<1> USE DEF TypeOK, RankTypeOK, SameRank, Go, MonitorGo,
       threadVars, memVars, kernelVars, nicVars
<1>1. CASE CallInit(r)
  BY <1>1 DEF CallInit
<1>2. CASE SingleSetup(r)
  BY <1>2 DEF SingleSetup, Setup, QueuePuts, StreamIdle
<1>3. CASE SingleLaunch(r)
  BY <1>3 DEF SingleLaunch, Launch
<1>4. CASE ResetBegin(r)
  BY <1>4 DEF ResetBegin, CountBarrier
<1>5. CASE ResetEnd(r)
  BY <1>5 DEF ResetEnd
<1>6. CASE StartContinuous(r)
  BY <1>6 DEF StartContinuous
<1>7. CASE StartContinuousSeed(r)
  BY <1>7 DEF StartContinuousSeed, StreamIdle
<1>8. CASE StartContinuousSetup(r)
  BY <1>8 DEF StartContinuousSetup, Setup, QueuePuts
<1>9. CASE ContinuousLaunch(r)
  BY <1>9 DEF ContinuousLaunch, Launch
<1>10. CASE WaitContinuous(r)
  BY <1>10 DEF WaitContinuous
<1>11. CASE Finalize(r)
  BY <1>11 DEF Finalize
<1>12. CASE Release(r)
  BY <1>12 DEF Release, Joined, StreamIdle
<1>13. CASE MonitorExit(r)
  BY <1>13 DEF MonitorExit
<1>14. CASE MonitorSeesMode(r)
  BY <1>14 DEF MonitorSeesMode
<1>15. CASE MonitorNothingDone(r)
  BY <1>15 DEF MonitorNothingDone
<1>16. CASE MonitorResetBegin(r)
  BY <1>16 DEF MonitorResetBegin, CountBarrier
<1>17. CASE MonitorResetEnd(r)
  BY <1>17 DEF MonitorResetEnd
<1>18. CASE MonitorSetup(r)
  BY <1>18 DEF MonitorSetup, Setup, QueuePuts
<1>19. CASE MonitorStop(r)
  BY <1>19 DEF MonitorStop
<1>20. CASE KernelReady(r)
  BY <1>20 DEF KernelReady
<1>21. CASE KernelTrigger(r)
  BY <1>21 DEF KernelTrigger
<1>22. CASE KernelPoll(r)
  BY <1>22 DEF KernelPoll
<1>23. CASE KernelDone(r)
  BY <1>23 DEF KernelDone, LastBarrier
<1> QED
  BY <1>1, <1>2, <1>3, <1>4, <1>5, <1>6, <1>7, <1>8, <1>9, <1>10, <1>11, <1>12,
     <1>13, <1>14, <1>15, <1>16, <1>17, <1>18, <1>19, <1>20, <1>21, <1>22, <1>23
     DEF Main, Monitor, Kernel

(* setup() runs only after every earlier put of the rank is complete: none *)
(* is queued or in flight.                                                 *)
LEMMA QuietBeforeSetup ==
    ASSUME NEW r \in Rank, TypeOK, RankInv(r), PutInv,
           ~Armed(r), ~InReset(r)
    PROVE  \A p \in dwq \cup unacked : p.src # r
<1> SUFFICES ASSUME NEW p \in dwq \cup unacked, p.src = r
             PROVE  FALSE
  OBVIOUS
<1>1. p.round \in Round
  BY DEF TypeOK, PutTypeOK, Puts
<1>2. /\ ready_counter[r] = completion_cntr[<<r, p.round>>] + 1
  BY DEF PutInv
<1>3. completion_cntr[<<r, p.round>>] = ready_counter[r]
  BY <1>1 DEF RankInv, CompletionInv
<1>4. completion_cntr[<<r, p.round>>] \in Nat
  BY <1>1 DEF TypeOK, ArrayTypeOK
<1> QED BY <1>2, <1>3, <1>4

(* setup() queues puts of the next barrier on intact source buffers.       *)
LEMMA SetupPuts ==
    ASSUME NEW r \in Rank, NEW c, TypeOK, RankInv(r), PutInv,
           ~Armed(r), ~InReset(r), Setup(r, c),
           UNCHANGED <<completion_cntr, unacked>>
    PROVE  PutInv'
<1> DEFINE t == barrier_count[r] + 1
<1>1. /\ barrier_count[r] \in Nat /\ ready_counter[r] = barrier_count[r]
      /\ ready_counter'[r] = t
      /\ \A q \in Rank : q # r => ready_counter'[q] = ready_counter[q]
  BY DEF RankInv, ReadyInv, Bit, TypeOK, RankTypeOK, Setup
<1>2. \A p \in dwq \cup unacked : p.src \in Rank /\ p.src # r
  BY QuietBeforeSetup DEF TypeOK, PutTypeOK, Puts
<1>3. dwq' = dwq \cup {Put(r, k, t) : k \in Round}
  BY DEF Setup, QueuePuts
<1>4. \A k \in Round : completion_cntr[<<r, k>>] + 1 = t
  BY <1>1 DEF RankInv, CompletionInv
<1>5. ASSUME NEW p \in dwq \cup unacked
      PROVE  /\ p.threshold = ready_counter'[p.src]
             /\ p.threshold = completion_cntr[<<p.src, p.round>>] + 1
             /\ p.buf = BufOf(p.threshold - 1)
             /\ h_signal_values'[<<p.src, p.buf>>] = p.threshold
  <2>1. /\ p.src \in Rank /\ p.src # r
    BY <1>2
  <2>2. h_signal_values'[<<p.src, p.buf>>] = h_signal_values[<<p.src, p.buf>>]
    <3>1. <<p.src, p.buf>> \in Rank \X Bufs
      BY DEF TypeOK, PutTypeOK, Puts
    <3> QED BY <3>1, <2>1 DEF Setup, QueuePuts, TypeOK, ArrayTypeOK
  <2> QED BY <1>1, <2>1, <2>2 DEF PutInv
<1>6. ASSUME NEW k \in Round
      PROVE  LET p == Put(r, k, t) IN
             /\ p.src = r /\ p.round = k /\ p.threshold = t
             /\ p.buf = BufOf(t - 1)
             /\ h_signal_values'[<<p.src, p.buf>>] = t
  <2>1. h_signal_values'[<<r, BufOf(barrier_count[r])>>] = t
    <3>1. NRounds # 0
      BY RoundsNat DEF Round
    <3>2. <<r, BufOf(barrier_count[r])>> \in Rank \X Bufs
      BY <1>1, BufInBufs
    <3> QED BY <3>1, <3>2 DEF Setup, QueuePuts, TypeOK, ArrayTypeOK
  <2>2. t - 1 = barrier_count[r]
    BY <1>1
  <2> QED BY <2>1, <2>2 DEF Put
<1>7. dwq' \cap unacked = {}
  <2>1. \A k \in Round : Put(r, k, t) \notin unacked
    BY <1>2, <1>6
  <2> QED BY <1>3, <2>1 DEF PutInv
<1> QED BY <1>1, <1>3, <1>4, <1>5, <1>6, <1>7 DEF PutInv

(* Steps of a rank's threads and kernel keep its puts intact.              *)
LEMMA PutStep ==
    ASSUME NEW r \in Rank, TypeOK, RankInv(r), PutInv, ~Reuse,
           Main(r) \/ Monitor(r) \/ Kernel(r)
    PROVE  PutInv'
<1> USE DEF threadVars, memVars, kernelVars, nicVars
<1>1. CASE CallInit(r)
  BY <1>1 DEF CallInit, PutInv
<1>2. CASE SingleSetup(r)
  <2>1. ~Armed(r) /\ ~InReset(r)
    BY <1>2 DEF SingleSetup, Go, MonitorGo, RankInv, ThreadInv, Armed, InReset
  <2>2. Setup(r, continuous_mode[r]) /\ UNCHANGED <<completion_cntr, unacked>>
    BY <1>2 DEF SingleSetup
  <2> QED BY <2>1, <2>2, SetupPuts
<1>3. CASE SingleLaunch(r)
  BY <1>3 DEF SingleLaunch, PutInv
<1>4. CASE ResetBegin(r)
  BY <1>4 DEF ResetBegin, PutInv
<1>5. CASE ResetEnd(r)
  BY <1>5 DEF ResetEnd, PutInv
<1>6. CASE StartContinuous(r)
  BY <1>6 DEF StartContinuous, PutInv
<1>7. CASE StartContinuousSeed(r)
  BY <1>7 DEF StartContinuousSeed, PutInv
<1>8. CASE StartContinuousSetup(r)
  <2>1. ~Armed(r) /\ ~InReset(r)
    BY <1>8 DEF StartContinuousSetup, Go, MonitorGo, RankInv, ThreadInv, Armed, InReset
  <2>2. Setup(r, continuous_mode[r]) /\ UNCHANGED <<completion_cntr, unacked>>
    BY <1>8 DEF StartContinuousSetup
  <2> QED BY <2>1, <2>2, SetupPuts
<1>9. CASE ContinuousLaunch(r)
  BY <1>9 DEF ContinuousLaunch, PutInv
<1>10. CASE WaitContinuous(r)
  BY <1>10 DEF WaitContinuous, PutInv
<1>11. CASE Finalize(r)
  BY <1>11 DEF Finalize, PutInv
<1>12. CASE Release(r)
  BY <1>12 DEF Release, PutInv
<1>13. CASE MonitorExit(r)
  BY <1>13 DEF MonitorExit, PutInv
<1>14. CASE MonitorSeesMode(r)
  BY <1>14 DEF MonitorSeesMode, PutInv
<1>15. CASE MonitorNothingDone(r)
  BY <1>15 DEF MonitorNothingDone, PutInv
<1>16. CASE MonitorResetBegin(r)
  BY <1>16 DEF MonitorResetBegin, PutInv
<1>17. CASE MonitorResetEnd(r)
  BY <1>17 DEF MonitorResetEnd, PutInv
<1>18. CASE MonitorSetup(r)
  <2>1. ~Armed(r) /\ ~InReset(r)
    BY <1>18 DEF MonitorSetup, Go, MonitorGo, RankInv, ThreadInv, Armed, InReset
  <2>2. Setup(r, continuous_mode[r]) /\ UNCHANGED <<completion_cntr, unacked>>
    BY <1>18 DEF MonitorSetup
  <2> QED BY <2>1, <2>2, SetupPuts
<1>19. CASE MonitorStop(r)
  BY <1>19 DEF MonitorStop, PutInv
<1>20. CASE KernelReady(r)
  BY <1>20 DEF KernelReady, PutInv
<1>21. CASE KernelTrigger(r)
  BY <1>21 DEF KernelTrigger, PutInv
<1>22. CASE KernelPoll(r)
  BY <1>22 DEF KernelPoll, PutInv
<1>23. CASE KernelDone(r)
  BY <1>23 DEF KernelDone, PutInv
<1> QED
  BY <1>1, <1>2, <1>3, <1>4, <1>5, <1>6, <1>7, <1>8, <1>9, <1>10, <1>11, <1>12,
     <1>13, <1>14, <1>15, <1>16, <1>17, <1>18, <1>19, <1>20, <1>21, <1>22, <1>23
     DEF Main, Monitor, Kernel

-----------------------------------------------------------------------------
(* Steps of the NIC.                                                       *)

(* Firing, delivering and completing puts keeps the types.                 *)
LEMMA NicTypeStep ==
    ASSUME TypeOK, Nic
    PROVE  TypeOK'
<1> USE DEF TypeOK, threadVars, memVars, kernelVars
<1>1. ASSUME NEW p \in dwq, Fire(p)
      PROVE  TypeOK'
  <2>1. RankTypeOK' /\ ArrayTypeOK'
    BY <1>1 DEF Fire, RankTypeOK, ArrayTypeOK
  <2>2. PutTypeOK'
    <3>1. p \in Puts /\ <<p.src, p.buf>> \in Rank \X Bufs
      BY DEF PutTypeOK, Puts
    <3>2. h_signal_values[<<p.src, p.buf>>] \in Nat
      BY <3>1 DEF ArrayTypeOK
    <3> QED BY <1>1, <3>1, <3>2 DEF Fire, PutTypeOK, Puts
  <2> QED BY <2>1, <2>2
<1>2. ASSUME NEW w \in wire, Deliver(w)
      PROVE  TypeOK'
  <2>1. RankTypeOK' /\ PutTypeOK'
    BY <1>2 DEF Deliver, RankTypeOK, PutTypeOK
  <2>2. ArrayTypeOK'
    <3>1. w.src \in Rank /\ w.round \in Round /\ w.threshold \in Nat /\ w.value \in Nat
      BY DEF PutTypeOK
    <3>2. Peer(w.src, w.round) \in Rank /\ SlotOf(w.threshold) \in Slots
      BY <3>1, PeerFrom, SlotAlternates
    <3> QED BY <1>2, <3>1, <3>2 DEF Deliver, ArrayTypeOK
  <2> QED BY <2>1, <2>2
<1>3. ASSUME NEW p \in unacked, Complete(p)
      PROVE  TypeOK'
  <2>1. RankTypeOK' /\ PutTypeOK'
    BY <1>3 DEF Complete, RankTypeOK, PutTypeOK
  <2>2. ArrayTypeOK'
    <3>1. <<p.src, p.round>> \in Rank \X Round
      BY DEF PutTypeOK, Puts
    <3> QED BY <1>3, <3>1 DEF Complete, ArrayTypeOK
  <2> QED BY <2>1, <2>2
<1> QED BY <1>1, <1>2, <1>3 DEF Nic

(* Only a completion concerns RankInv: it is the one that was missing.     *)
LEMMA NicRankStep ==
    ASSUME TypeOK, PutInv, Nic, NEW q \in Rank, RankInv(q)
    PROVE  RankInv(q)'
<1> USE DEF threadVars, memVars, kernelVars
<1>1. ASSUME NEW p \in dwq, Fire(p)
      PROVE  RankInv(q)'
  <2>1. SameRank(q)
    BY <1>1 DEF Fire, SameRank
  <2> QED BY <2>1, SameRankInv
<1>2. ASSUME NEW w \in wire, Deliver(w)
      PROVE  RankInv(q)'
  <2>1. SameRank(q)
    BY <1>2 DEF Deliver, SameRank
  <2> QED BY <2>1, SameRankInv
<1>3. ASSUME NEW p \in unacked, Complete(p)
      PROVE  RankInv(q)'
  <2>1. /\ Armed(q)' <=> Armed(q)
        /\ InReset(q)' <=> InReset(q)
        /\ KernelOn(q)' <=> KernelOn(q)
        /\ InBarrier(q)' <=> InBarrier(q)
    BY <1>3 DEF Complete, Armed, InReset, KernelOn, InBarrier
  <2>2. ReadyInv(q)'
    BY <1>3, <2>1 DEF RankInv, ReadyInv, Bit, Complete
  <2>3. KernelInv(q)'
    BY <1>3, <2>1 DEF RankInv, KernelInv, Complete
  <2>4. ThreadInv(q)'
    BY <1>3, <2>1 DEF RankInv, ThreadInv, Bit, Complete
  <2>5. CompletionInv(q)'
    <3> SUFFICES ASSUME NEW k \in Round
                 PROVE  (/\ completion_cntr[<<q, k>>] <= ready_counter[q]
                         /\ ready_counter[q] <= completion_cntr[<<q, k>>] + 1
                         /\ \/ Armed(q) \/ InReset(q)
                            \/ completion_cntr[<<q, k>>] = ready_counter[q])'
      BY DEF CompletionInv
    <3>1. UNCHANGED ready_counter /\ ready_counter[q] \in Nat
      BY <1>3 DEF Complete, TypeOK, RankTypeOK
    <3>2. /\ <<p.src, p.round>> \in Rank \X Round
          /\ p.threshold = ready_counter[p.src]
          /\ p.threshold = completion_cntr[<<p.src, p.round>>] + 1
      BY DEF TypeOK, PutTypeOK, Puts, PutInv
    <3>3. /\ <<q, k>> \in Rank \X Round
          /\ completion_cntr[<<q, k>>] \in Nat
      BY DEF TypeOK, ArrayTypeOK
    <3>4. CASE q = p.src /\ k = p.round
      <4>1. completion_cntr'[<<q, k>>] = ready_counter[q]
        BY <1>3, <3>2, <3>3, <3>4 DEF Complete, TypeOK, ArrayTypeOK
      <4> QED BY <4>1, <3>1
    <3>5. CASE ~(q = p.src /\ k = p.round)
      <4>1. completion_cntr'[<<q, k>>] = completion_cntr[<<q, k>>]
        BY <1>3, <3>2, <3>3, <3>5 DEF Complete, TypeOK, ArrayTypeOK
      <4> QED BY <4>1, <3>1, <2>1 DEF RankInv, CompletionInv
    <3> QED BY <3>4, <3>5
  <2> QED BY <2>2, <2>3, <2>4, <2>5 DEF RankInv
<1> QED BY <1>1, <1>2, <1>3 DEF Nic

(* A put leaves the queue for the wire, or is complete and forgotten.      *)
LEMMA NicPutStep ==
    ASSUME TypeOK, PutInv, Nic
    PROVE  PutInv'
<1> USE DEF memVars
<1>1. ASSUME NEW p \in dwq, Fire(p)
      PROVE  PutInv'
  BY <1>1 DEF Fire, PutInv
<1>2. ASSUME NEW w \in wire, Deliver(w)
      PROVE  PutInv'
  BY <1>2 DEF Deliver, PutInv
<1>3. ASSUME NEW p \in unacked, Complete(p)
      PROVE  PutInv'
  <2>1. UNCHANGED <<ready_counter, h_signal_values, dwq>>
    BY <1>3 DEF Complete
  <2>2. unacked' = unacked \ {p} /\ p \notin dwq
    BY <1>3 DEF Complete, PutInv
  <2>3. ASSUME NEW o \in dwq \cup unacked, o # p
        PROVE  completion_cntr'[<<o.src, o.round>>]
                 = completion_cntr[<<o.src, o.round>>]
    <3>1. o \in Puts /\ p \in Puts
      BY DEF TypeOK, PutTypeOK
    <3>2. ~(o.src = p.src /\ o.round = p.round)
      <4>1. SUFFICES ASSUME o.src = p.src, o.round = p.round
                     PROVE  o = p
        BY <2>3
      <4>2. o.threshold = p.threshold /\ o.buf = p.buf
        BY <4>1 DEF PutInv
      <4> QED BY <3>1, <4>1, <4>2 DEF Puts
    <3>3. <<o.src, o.round>> # <<p.src, p.round>>
      BY <3>2
    <3>4. <<o.src, o.round>> \in Rank \X Round
      BY <3>1 DEF Puts
    <3> QED BY <1>3, <3>3, <3>4 DEF Complete, TypeOK, ArrayTypeOK
  <2> QED BY <2>1, <2>2, <2>3 DEF PutInv
<1> QED BY <1>1, <1>2, <1>3 DEF Nic

-----------------------------------------------------------------------------
(* HostInv is inductive while the client keeps to the documented use.      *)
LEMMA HostInit == Init => HostInv
<1> SUFFICES ASSUME Init PROVE HostInv
  OBVIOUS
<1>1. TypeOK
  BY SizeAssumption, RoundsAssumption, ClientAssumption
     DEF Init, TypeOK, RankTypeOK, ArrayTypeOK, PutTypeOK, Bufs, Slots,
         BARRIER_SIGNAL_SLOTS, N_SIGNAL_BUFFERS, Rank, Round, Puts
<1>2. ASSUME NEW r \in Rank PROVE RankInv(r)
  <2>1. ReadyInv(r)
    BY DEF Init, ReadyInv, Armed, Bit
  <2>2. CompletionInv(r)
    BY DEF Init, CompletionInv, Armed, InReset
  <2>3. KernelInv(r)
    BY DEF Init, KernelInv, KernelOn, InBarrier
  <2>4. ThreadInv(r)
    BY DEF Init, ThreadInv, KernelOn, Bit
  <2> QED BY <2>1, <2>2, <2>3, <2>4 DEF RankInv
<1>3. PutInv
  BY DEF Init, PutInv
<1> QED BY <1>1, <1>2, <1>3 DEF HostInv

LEMMA HostStep ==
    ASSUME HostInv, ~Reuse, [Next]_vars
    PROVE  HostInv'
<1> USE DEF HostInv
<1>1. ASSUME NEW r \in Rank, Main(r) \/ Monitor(r) \/ Kernel(r)
      PROVE  HostInv'
  <2>1. TypeOK'
    BY <1>1, RankTypeStep, ArrayTypeStep, PutTypeStep DEF TypeOK
  <2>2. RankInv(r)'
    BY <1>1, ReadyStep, CompletionStep, KernelStep, ThreadStep DEF RankInv
  <2>3. ASSUME NEW q \in Rank, q # r PROVE RankInv(q)'
    BY <1>1, <2>3, OtherRank, SameRankInv
  <2>4. PutInv'
    BY <1>1, PutStep
  <2> QED BY <2>1, <2>2, <2>3, <2>4
<1>2. CASE Nic
  BY <1>2, NicTypeStep, NicRankStep, NicPutStep
<1>3. CASE UNCHANGED vars
  <2> USE <1>3 DEF vars, threadVars, memVars, kernelVars, nicVars
  <2>1. TypeOK'
    BY DEF TypeOK, RankTypeOK, ArrayTypeOK, PutTypeOK
  <2>2. ASSUME NEW q \in Rank PROVE RankInv(q)'
    <3>1. SameRank(q)
      BY DEF SameRank
    <3> QED BY <3>1, SameRankInv
  <2>3. PutInv'
    BY DEF PutInv
  <2> QED BY <2>1, <2>2, <2>3
<1> QED BY <1>1, <1>2, <1>3 DEF Next, Finished

-----------------------------------------------------------------------------
(* What the parts of the invariant about the algorithm depend on.          *)

(* Entered, its range and the shape of a kernel in a barrier.              *)
LEMMA EnteredFacts ==
    ASSUME TypeOK, NEW r \in Rank
    PROVE  /\ done_counter[r] \in Nat /\ round[r] \in 0 .. NRounds
           /\ Entered(r) = done_counter[r] + Bit(InBarrier(r))
           /\ Entered(r) \in Nat
  BY DEF TypeOK, RankTypeOK, Entered, Bit, InBarrier

(* The main thread and the monitor start a kernel at most, and touch       *)
(* nothing else that the algorithm works on.                               *)
LEMMA HostKeepsNet ==
    ASSUME HostInv, NEW r \in Rank, Main(r) \/ Monitor(r)
    PROVE  /\ UNCHANGED <<done_counter, trigger_cntr, signals, wire, round>>
           /\ \A q \in Rank : \/ kernel'[q] = kernel[q]
                              \/ kernel[q] = "off" /\ kernel'[q] = "ready"
<1> USE DEF threadVars, memVars, kernelVars, nicVars
<1>1. CASE SingleLaunch(r) \/ ContinuousLaunch(r)
  <2>1. kernel[r] = "off"
    BY <1>1 DEF HostInv, RankInv, ThreadInv, KernelOn, SingleLaunch,
                ContinuousLaunch, Go
  <2>2. kernel \in [Rank -> {"off", "ready", "trigger", "poll"}]
    BY DEF HostInv, TypeOK, RankTypeOK
  <2> QED BY <1>1, <2>1, <2>2 DEF SingleLaunch, ContinuousLaunch, Launch
<1>2. CASE \/ CallInit(r) \/ ResetBegin(r) \/ ResetEnd(r)
           \/ StartContinuous(r) \/ StartContinuousSeed(r)
           \/ WaitContinuous(r) \/ Finalize(r) \/ Release(r)
  BY <1>2 DEF CallInit, ResetBegin, ResetEnd, StartContinuous,
              StartContinuousSeed, WaitContinuous, Finalize, Release
<1>3. CASE \/ SingleSetup(r) \/ StartContinuousSetup(r) \/ MonitorSetup(r)
  BY <1>3 DEF SingleSetup, StartContinuousSetup, MonitorSetup
<1>4. CASE \/ MonitorExit(r) \/ MonitorSeesMode(r) \/ MonitorNothingDone(r)
           \/ MonitorResetBegin(r) \/ MonitorResetEnd(r) \/ MonitorStop(r)
  BY <1>4 DEF MonitorExit, MonitorSeesMode, MonitorNothingDone,
              MonitorResetBegin, MonitorResetEnd, MonitorStop
<1> QED BY <1>1, <1>2, <1>3, <1>4 DEF Main, Monitor

(* Steps after which every rank is where it was in its barriers.           *)
SameNet ==
    /\ UNCHANGED <<done_counter, round>>
    /\ \A q \in Rank : \/ kernel'[q] = kernel[q]
                       \/ kernel[q] = "off" /\ kernel'[q] = "ready"

(* All steps but those of the kernels are such steps.                      *)
LEMMA MostStepsSameNet ==
    ASSUME HostInv, [Next]_vars
    PROVE  \/ SameNet
           \/ \E r \in Rank : Kernel(r)
<1>1. ASSUME NEW r \in Rank, Main(r) \/ Monitor(r)
      PROVE  SameNet
  BY <1>1, HostKeepsNet DEF SameNet
<1>2. CASE Nic
  BY <1>2 DEF Nic, Fire, Deliver, Complete, SameNet, memVars, kernelVars
<1>3. CASE UNCHANGED vars
  BY <1>3 DEF vars, SameNet, memVars, kernelVars
<1> QED BY <1>1, <1>2, <1>3 DEF Next, Finished

(* In those steps Entered and InBarrier are as they were.                  *)
LEMMA SameNetEntered ==
    ASSUME SameNet, NEW q \in Rank
    PROVE  /\ done_counter'[q] = done_counter[q] /\ round'[q] = round[q]
           /\ InBarrier(q)' <=> InBarrier(q)
           /\ Entered(q)' = Entered(q)
           /\ \A k \in Round : Triggered(q, k)' <=> Triggered(q, k)
<1>1. /\ done_counter'[q] = done_counter[q] /\ round'[q] = round[q]
      /\ \/ kernel'[q] = kernel[q]
         \/ kernel[q] = "off" /\ kernel'[q] = "ready"
  BY DEF SameNet
<1>2. InBarrier(q)' <=> InBarrier(q)
  BY <1>1 DEF InBarrier
<1>3. Entered(q)' = Entered(q)
  BY <1>1 DEF Entered
<1>4. kernel'[q] = "poll" <=> kernel[q] = "poll"
  BY <1>1
<1> QED BY <1>1, <1>2, <1>3, <1>4 DEF Triggered

-----------------------------------------------------------------------------
(* A kernel step moves its own rank only, and never back.                  *)
LEMMA KernelMoves ==
    ASSUME HostInv, NEW r \in Rank, Kernel(r), NEW q \in Rank
    PROVE  /\ Entered(q) <= Entered(q)'
           /\ done_counter[q] <= done_counter'[q]
           /\ q # r => /\ done_counter'[q] = done_counter[q]
                       /\ round'[q] = round[q] /\ kernel'[q] = kernel[q]
<1> USE DEF HostInv, TypeOK, RankTypeOK, Entered, memVars, threadVars
<1>1. CASE KernelReady(r)
  BY <1>1 DEF KernelReady
<1>2. CASE KernelTrigger(r)
  BY <1>2 DEF KernelTrigger
<1>3. CASE KernelPoll(r)
  BY <1>3 DEF KernelPoll
<1>4. CASE KernelDone(r)
  BY <1>4 DEF KernelDone
<1> QED BY <1>1, <1>2, <1>3, <1>4 DEF Kernel

-----------------------------------------------------------------------------
(* The trigger counter of a round is written once per barrier.             *)
LEMMA TriggerStep ==
    ASSUME HostInv, TriggerInv, [Next]_vars
    PROVE  TriggerInv'
<1> USE DEF HostInv, TypeOK
<1>1. ASSUME SameNet, UNCHANGED trigger_cntr
      PROVE  TriggerInv'
  BY <1>1, SameNetEntered DEF TriggerInv, Bit
<1>2. ASSUME NEW r \in Rank, Main(r) \/ Monitor(r)
      PROVE  TriggerInv'
  BY <1>1, <1>2, HostKeepsNet DEF SameNet
<1>3. ASSUME NEW r \in Rank, Kernel(r)
      PROVE  TriggerInv'
  <2> SUFFICES ASSUME NEW q \in Rank, NEW k \in Round
               PROVE  trigger_cntr'[<<q, k>>]
                        = done_counter'[q] + Bit(Triggered(q, k)')
    BY DEF TriggerInv, Bit
  <2>1. /\ trigger_cntr[<<q, k>>] = done_counter[q] + Bit(Triggered(q, k))
        /\ done_counter[q] \in Nat
        /\ k \in Nat /\ k < NRounds
        /\ round[q] \in 0 .. NRounds
    BY RoundsNat DEF TriggerInv, RankTypeOK, Round
  <2>2. CASE q # r
    <3>1. Triggered(q, k)' <=> Triggered(q, k)
      BY <1>3, <2>2, KernelMoves DEF Triggered, InBarrier
    <3>2. trigger_cntr'[<<q, k>>] = trigger_cntr[<<q, k>>]
      BY <1>3, <2>2 DEF Kernel, KernelReady, KernelTrigger, KernelPoll,
                        KernelDone, nicVars, ArrayTypeOK
    <3> QED BY <1>3, <2>1, <2>2, <3>1, <3>2, KernelMoves DEF Bit
  <2>3. CASE q = r
    <3> USE <2>1, <2>3 DEF RankTypeOK, Bit
    <3>1. CASE KernelReady(r)
      <4>1. ~Triggered(r, k) /\ ~Triggered(r, k)'
        BY <3>1 DEF KernelReady, Triggered, InBarrier
      <4> QED BY <3>1, <4>1 DEF KernelReady, memVars, nicVars
    <3>2. CASE KernelTrigger(r)
      <4>1. CASE k = round[r]
        <5>1. Triggered(r, k)'
          BY <3>2, <4>1 DEF KernelTrigger, Triggered, InBarrier
        <5>2. expected_signal[r] = done_counter[r] + 1
          BY <3>2 DEF KernelTrigger, RankInv, KernelInv, KernelOn
        <5>3. trigger_cntr'[<<r, k>>] = expected_signal[r]
          BY <3>2, <4>1 DEF KernelTrigger, ArrayTypeOK
        <5> QED BY <3>2, <5>1, <5>2, <5>3 DEF KernelTrigger, memVars
      <4>2. CASE k # round[r]
        <5>1. Triggered(r, k)' <=> Triggered(r, k)
          BY <3>2, <4>2 DEF KernelTrigger, Triggered, InBarrier
        <5>2. trigger_cntr'[<<r, k>>] = trigger_cntr[<<r, k>>]
          BY <3>2, <4>2 DEF KernelTrigger, ArrayTypeOK
        <5> QED BY <3>2, <5>1, <5>2 DEF KernelTrigger, memVars
      <4> QED BY <4>1, <4>2
    <3>3. CASE KernelPoll(r)
      <4>1. Triggered(r, k)' <=> Triggered(r, k)
        BY <3>3 DEF KernelPoll, Triggered, InBarrier
      <4> QED BY <3>3, <4>1 DEF KernelPoll, memVars, nicVars
    <3>4. CASE KernelDone(r)
      <4>1. Triggered(r, k) /\ ~Triggered(r, k)'
        BY <3>4 DEF KernelDone, Triggered, InBarrier
      <4> QED BY <3>4, <4>1 DEF KernelDone, nicVars
    <3> QED BY <1>3, <3>1, <3>2, <3>3, <3>4 DEF Kernel
  <2> QED BY <2>2, <2>3
<1>4. CASE Nic
  BY <1>1, <1>4 DEF Nic, Fire, Deliver, Complete, SameNet, memVars, kernelVars
<1>5. CASE UNCHANGED vars
  BY <1>1, <1>5 DEF vars, SameNet, memVars, kernelVars, nicVars
<1> QED BY <1>2, <1>3, <1>4, <1>5 DEF Next, Finished

(* Trigger counters never go back.                                         *)
LEMMA TriggerMonotone ==
    ASSUME HostInv, TriggerInv, [Next]_vars, NEW q \in Rank, NEW k \in Round
    PROVE  /\ trigger_cntr[<<q, k>>] \in Nat
           /\ trigger_cntr[<<q, k>>] <= trigger_cntr'[<<q, k>>]
<1> USE DEF HostInv, TypeOK
<1>1. trigger_cntr[<<q, k>>] \in Nat
  BY DEF ArrayTypeOK
<1>2. ASSUME UNCHANGED trigger_cntr
      PROVE  trigger_cntr[<<q, k>>] <= trigger_cntr'[<<q, k>>]
  BY <1>1, <1>2
<1>3. ASSUME NEW r \in Rank, Main(r) \/ Monitor(r)
      PROVE  UNCHANGED trigger_cntr
  BY <1>3, HostKeepsNet
<1>4. ASSUME NEW r \in Rank, KernelTrigger(r)
      PROVE  trigger_cntr[<<q, k>>] <= trigger_cntr'[<<q, k>>]
  <2>1. CASE q = r /\ k = round[r]
    <3>1. expected_signal[r] = done_counter[r] + 1 /\ done_counter[r] \in Nat
      BY <1>4 DEF KernelTrigger, RankInv, KernelInv, KernelOn, RankTypeOK
    <3>2. trigger_cntr'[<<q, k>>] = expected_signal[r]
      BY <1>4, <2>1 DEF KernelTrigger, ArrayTypeOK
    <3>3. trigger_cntr[<<q, k>>] = done_counter[r] + Bit(Triggered(r, k))
      BY <2>1 DEF TriggerInv
    <3> QED BY <3>1, <3>2, <3>3 DEF Bit
  <2>2. CASE ~(q = r /\ k = round[r])
    <3>1. trigger_cntr'[<<q, k>>] = trigger_cntr[<<q, k>>]
      BY <1>4, <2>2 DEF KernelTrigger, ArrayTypeOK
    <3> QED BY <1>1, <3>1
  <2> QED BY <2>1, <2>2
<1>5. ASSUME NEW r \in Rank, KernelReady(r) \/ KernelPoll(r) \/ KernelDone(r)
      PROVE  UNCHANGED trigger_cntr
  BY <1>5 DEF KernelReady, KernelPoll, KernelDone, nicVars
<1>6. ASSUME Nic
      PROVE  UNCHANGED trigger_cntr
  BY <1>6 DEF Nic, Fire, Deliver, Complete
<1>7. ASSUME UNCHANGED vars
      PROVE  UNCHANGED trigger_cntr
  BY <1>7 DEF vars, nicVars
<1> QED
  BY <1>1, <1>2, <1>3, <1>4, <1>5, <1>6, <1>7 DEF Next, Finished, Kernel

(* A signal carries its barrier's number, its sender has triggered that    *)
(* barrier, and it lands in its own slot.                                  *)
LEMMA SignalStep ==
    ASSUME HostInv, HostInv', TriggerInv, SignalInv, [Next]_vars
    PROVE  SignalInv'
<1> USE DEF HostInv, TypeOK
<1>1. \A w \in wire : /\ w.src \in Rank /\ w.round \in Round
                      /\ w.threshold \in Nat /\ w.value \in Nat
  BY DEF PutTypeOK
<1>2. \A r \in Rank, k \in Round, s \in Slots :
         signals[<<r, k, s>>] \in Nat /\ From(r, k) \in Rank
  BY PeerFrom DEF ArrayTypeOK
<1>3. \A q \in Rank, k \in Round :
         /\ trigger_cntr[<<q, k>>] \in Nat /\ trigger_cntr'[<<q, k>>] \in Nat
         /\ trigger_cntr[<<q, k>>] <= trigger_cntr'[<<q, k>>]
  BY TriggerMonotone DEF ArrayTypeOK
<1>4. ASSUME UNCHANGED <<wire, signals>>
      PROVE  SignalInv'
  <2>1. ASSUME NEW w \in wire
        PROVE  w.value = w.threshold
               /\ w.threshold <= trigger_cntr'[<<w.src, w.round>>]
    BY <1>1, <1>3 DEF SignalInv
  <2>2. ASSUME NEW r \in Rank, NEW k \in Round, NEW s \in Slots
        PROVE  /\ signals[<<r, k, s>>] <= trigger_cntr'[<<From(r, k), k>>]
               /\ signals[<<r, k, s>>] = 0 \/ SlotOf(signals[<<r, k, s>>]) = s
    BY <1>2, <1>3 DEF SignalInv
  <2> QED BY <1>4, <2>1, <2>2 DEF SignalInv
<1>5. ASSUME NEW r \in Rank, Main(r) \/ Monitor(r)
      PROVE  SignalInv'
  BY <1>4, <1>5, HostKeepsNet
<1>6. ASSUME NEW r \in Rank, Kernel(r)
      PROVE  SignalInv'
  BY <1>4, <1>6 DEF Kernel, KernelReady, KernelTrigger, KernelPoll,
     KernelDone, memVars, nicVars
<1>7. ASSUME NEW p \in dwq, Fire(p)
      PROVE  SignalInv'
  <2>1. h_signal_values[<<p.src, p.buf>>] = p.threshold
    BY DEF PutInv
  <2>2. UNCHANGED <<trigger_cntr, signals>>
    BY <1>7 DEF Fire, memVars
  <2>3. ASSUME NEW w \in wire'
        PROVE  w.value = w.threshold
               /\ w.threshold <= trigger_cntr[<<w.src, w.round>>]
    <3>1. CASE w \in wire
      BY <3>1 DEF SignalInv
    <3>2. CASE w = [src |-> p.src, round |-> p.round,
                    threshold |-> p.threshold,
                    value |-> h_signal_values[<<p.src, p.buf>>]]
      <4>1. p.threshold <= trigger_cntr[<<p.src, p.round>>]
        <5>1. /\ p.threshold \in Nat
              /\ trigger_cntr[<<p.src, p.round>>] \in Nat
          BY <1>3 DEF PutTypeOK, Puts
        <5>2. trigger_cntr[<<p.src, p.round>>] >= p.threshold
          BY <1>7 DEF Fire
        <5> QED BY <5>1, <5>2
      <4> QED BY <2>1, <3>2, <4>1
    <3> QED BY <1>7, <3>1, <3>2 DEF Fire
  <2> QED BY <2>2, <2>3 DEF SignalInv
<1>8. ASSUME NEW w \in wire, Deliver(w)
      PROVE  SignalInv'
  <2> DEFINE cell == <<Peer(w.src, w.round), w.round, SlotOf(w.threshold)>>
  <2>1. /\ w.value = w.threshold
        /\ w.threshold <= trigger_cntr[<<w.src, w.round>>]
    BY DEF SignalInv
  <2>2. /\ UNCHANGED trigger_cntr
        /\ wire' \subseteq wire
    BY <1>8 DEF Deliver
  <2>3. signals' = [signals EXCEPT ![cell] = w.value]
    BY <1>8 DEF Deliver
  <2>4. From(Peer(w.src, w.round), w.round) = w.src
    BY <1>1, PeerFrom
  <2>5. ASSUME NEW r \in Rank, NEW k \in Round, NEW s \in Slots
        PROVE  /\ signals'[<<r, k, s>>] <= trigger_cntr[<<From(r, k), k>>]
               /\ \/ signals'[<<r, k, s>>] = 0
                  \/ SlotOf(signals'[<<r, k, s>>]) = s
    <3>1. CASE <<r, k, s>> = cell
      <4>1. signals'[<<r, k, s>>] = w.value
        BY <2>3, <3>1 DEF ArrayTypeOK
      <4>2. r = Peer(w.src, w.round) /\ k = w.round /\ s = SlotOf(w.threshold)
        BY <3>1
      <4> QED BY <2>1, <2>4, <4>1, <4>2
    <3>2. CASE <<r, k, s>> # cell
      <4>1. signals'[<<r, k, s>>] = signals[<<r, k, s>>]
        BY <2>3, <3>2 DEF ArrayTypeOK
      <4> QED BY <4>1 DEF SignalInv
    <3> QED BY <3>1, <3>2
  <2> QED BY <2>1, <2>2, <2>5 DEF SignalInv
<1>9. ASSUME NEW p \in unacked, Complete(p)
      PROVE  SignalInv'
  BY <1>4, <1>9 DEF Complete, memVars
<1>10. CASE UNCHANGED vars
  BY <1>4, <1>10 DEF vars, memVars, nicVars
<1> QED
  BY <1>5, <1>6, <1>7, <1>8, <1>9, <1>10 DEF Next, Finished, Nic

-----------------------------------------------------------------------------
(* Dissemination: finishing a round doubles what a rank knows.             *)

(* The signal a kernel waits for shows that its sender has gone into the   *)
(* same barrier and finished the same rounds, or a later one.              *)
LEMMA SignalMeans ==
    ASSUME HostInv, TriggerInv, SignalInv, NEW r \in Rank, KernelPoll(r)
    PROVE  LET f == From(r, round[r]) IN
           /\ f \in Rank /\ round[r] \in Round
           /\ \/ done_counter[f] >= done_counter[r] + 1
              \/ /\ done_counter[f] = done_counter[r]
                 /\ InBarrier(f) /\ round[r] <= round[f]
<1> DEFINE f == From(r, round[r])
           slot == SlotOf(expected_signal[r])
<1> USE DEF HostInv, TypeOK
<1>1. /\ round[r] \in Round
      /\ expected_signal[r] = done_counter[r] + 1
      /\ done_counter[r] \in Nat
  BY RoundsNat DEF KernelPoll, RankInv, KernelInv, KernelOn, RankTypeOK, Round
<1>2. f \in Rank
  BY <1>1, PeerFrom
<1>3. slot \in Slots
  BY <1>1, SlotAlternates
<1>4. signals[<<r, round[r], slot>>] = done_counter[r] + 1
  BY <1>1 DEF KernelPoll, Signalled
<1>5. signals[<<r, round[r], slot>>] <= trigger_cntr[<<f, round[r]>>]
  BY <1>1, <1>3 DEF SignalInv
<1>6. trigger_cntr[<<f, round[r]>>]
        = done_counter[f] + Bit(Triggered(f, round[r]))
  BY <1>1, <1>2 DEF TriggerInv
<1>7. done_counter[f] \in Nat /\ round[f] \in 0 .. NRounds
  BY <1>2 DEF RankTypeOK
<1>8. CASE Triggered(f, round[r])
  <2>1. InBarrier(f) /\ round[r] <= round[f]
    BY <1>1, <1>7, <1>8 DEF Triggered, Round
  <2>2. done_counter[f] + 1 >= done_counter[r] + 1
    BY <1>4, <1>5, <1>6, <1>8 DEF Bit
  <2> QED BY <1>1, <1>2, <1>7, <2>1, <2>2
<1>9. CASE ~Triggered(f, round[r])
  <2>1. done_counter[f] >= done_counter[r] + 1
    BY <1>1, <1>4, <1>5, <1>6, <1>7, <1>9 DEF Bit
  <2> QED BY <1>1, <1>2, <2>1
<1> QED BY <1>8, <1>9

LEMMA WindowStep ==
    ASSUME HostInv, HostInv', TriggerInv, SignalInv, WindowInv, BarrierInv,
           [Next]_vars
    PROVE  WindowInv'
<1>1. CASE SameNet
  BY <1>1, SameNetEntered DEF WindowInv
<1>2. ASSUME NEW r \in Rank, Kernel(r)
      PROVE  WindowInv'
  <2> SUFFICES ASSUME NEW q \in Rank, NEW k \in 0 .. NRounds,
                      InBarrier(q)', k <= round'[q],
                      NEW j \in Rank, Behind(q, j) < Dist[k]
               PROVE  Entered(j)' >= done_counter'[q] + 1
    BY DEF WindowInv, Behind
  <2> USE DEF HostInv, TypeOK
  <2>1. /\ Entered(j) \in Nat /\ Entered(j)' \in Nat
        /\ Entered(j) <= Entered(j)'
        /\ done_counter[q] \in Nat
    <3>1. /\ done_counter \in [Rank -> Nat] /\ done_counter' \in [Rank -> Nat]
      BY DEF RankTypeOK
    <3> QED BY <1>2, <3>1, KernelMoves DEF Entered
  <2>2. CASE /\ InBarrier(q) /\ k <= round[q]
             /\ done_counter'[q] = done_counter[q]
    BY <2>1, <2>2 DEF WindowInv
  <2>3. CASE q # r
    BY <1>2, <2>2, <2>3, KernelMoves DEF InBarrier
  <2>4. CASE q = r /\ KernelReady(r)
    <3>1. /\ round'[r] = 0 /\ kernel'[r] = "trigger"
          /\ done_counter' = done_counter
      BY <2>4 DEF KernelReady, RankTypeOK, memVars
    <3>2. j = r
      <4>1. k = 0 /\ Dist[0] = 1
        BY <2>4, <3>1, RoundsAssumption
      <4> QED BY <2>4, <4>1, SizeAssumption DEF Behind, Rank
    <3> QED BY <2>1, <2>4, <3>1, <3>2 DEF Entered
  <2>5. CASE q = r /\ KernelTrigger(r)
    BY <2>2, <2>5 DEF KernelTrigger, InBarrier, memVars
  <2>6. CASE q = r /\ KernelPoll(r)
    <3>1. /\ InBarrier(r) /\ done_counter' = done_counter
          /\ round'[r] = round[r] + 1 /\ round[r] \in 0 .. NRounds
      BY <2>6 DEF KernelPoll, InBarrier, RankTypeOK, memVars
    <3>2. CASE k <= round[r]
      BY <2>2, <2>6, <3>1, <3>2
    <3>3. CASE k = round[r] + 1
      <4> DEFINE f == From(r, round[r])
      <4>1. /\ f \in Rank /\ round[r] \in Round
            /\ \/ done_counter[f] >= done_counter[r] + 1
               \/ /\ done_counter[f] = done_counter[r]
                  /\ InBarrier(f) /\ round[r] <= round[f]
        BY <2>6, SignalMeans
      <4>2. Behind(r, j) < Dist[round[r]] \/ Behind(f, j) < Dist[round[r]]
        BY <2>6, <3>3, <4>1, WindowDoubles
      <4> HIDE DEF f
      <4>3. CASE Behind(r, j) < Dist[round[r]]
        BY <2>1, <2>6, <3>1, <4>3 DEF WindowInv
      <4>4. CASE Behind(f, j) < Dist[round[r]] /\ InBarrier(f)
                 /\ round[r] <= round[f] /\ done_counter[f] = done_counter[r]
        BY <2>1, <2>6, <3>1, <4>1, <4>4 DEF WindowInv
      <4>5. CASE done_counter[f] >= done_counter[r] + 1
        <5>1. done_counter[f] \in Nat /\ done_counter[f] <= Entered(j)
          BY <4>1 DEF BarrierInv, RankTypeOK
        <5> QED BY <2>1, <2>6, <3>1, <4>5, <5>1
      <4> QED BY <4>1, <4>2, <4>3, <4>4, <4>5
    <3> QED
      <4>1. k <= round[r] + 1 /\ k \in Nat /\ round[r] \in Nat
        BY <2>6, <3>1, RoundsNat
      <4> QED BY <3>2, <3>3, <4>1
  <2>7. CASE q = r /\ KernelDone(r)
    BY <2>7 DEF KernelDone, InBarrier, RankTypeOK
  <2> QED BY <1>2, <2>3, <2>4, <2>5, <2>6, <2>7 DEF Kernel
<1> QED BY <1>1, <1>2, MostStepsSameNet

(* A kernel that has finished all the rounds knows that every rank has     *)
(* gone into its barrier.                                                  *)
LEMMA AllEntered ==
    ASSUME HostInv, WindowInv, NEW r \in Rank, KernelDone(r), NEW j \in Rank
    PROVE  Entered(j) >= done_counter[r] + 1
<1>1. InBarrier(r) /\ round[r] = NRounds /\ NRounds \in 0 .. NRounds
  BY RoundsNat DEF KernelDone, InBarrier
<1> QED BY <1>1, LastWindow DEF WindowInv

LEMMA BarrierStep ==
    ASSUME HostInv, HostInv', WindowInv, BarrierInv, [Next]_vars
    PROVE  BarrierInv'
<1>1. CASE SameNet
  BY <1>1, SameNetEntered DEF BarrierInv
<1>2. ASSUME NEW r \in Rank, Kernel(r)
      PROVE  BarrierInv'
  <2> SUFFICES ASSUME NEW q \in Rank, NEW j \in Rank
               PROVE  done_counter'[q] <= Entered(j)'
    BY DEF BarrierInv
  <2>1. /\ done_counter[q] \in Nat /\ done_counter'[q] \in Nat
        /\ Entered(j) \in Nat /\ Entered(j)' \in Nat
        /\ Entered(j) <= Entered(j)' /\ done_counter[q] <= Entered(j)
    <3>1. /\ done_counter \in [Rank -> Nat] /\ done_counter' \in [Rank -> Nat]
      BY DEF HostInv, TypeOK, RankTypeOK
    <3> QED BY <1>2, <3>1, KernelMoves DEF Entered, BarrierInv
  <2>2. CASE done_counter'[q] = done_counter[q]
    BY <2>1, <2>2
  <2>3. CASE q = r /\ KernelDone(r)
    <3>1. done_counter'[q] = done_counter[q] + 1
      BY <2>3 DEF KernelDone, HostInv, TypeOK, RankTypeOK
    <3> QED BY <2>1, <2>3, <3>1, AllEntered
  <2>4. CASE KernelReady(r) \/ KernelTrigger(r) \/ KernelPoll(r)
    BY <2>2, <2>4 DEF KernelReady, KernelTrigger, KernelPoll, memVars
  <2>5. CASE q # r
    BY <1>2, <2>2, <2>5, KernelMoves
  <2> QED BY <1>2, <2>3, <2>4, <2>5 DEF Kernel
<1> QED BY <1>1, <1>2, MostStepsSameNet

-----------------------------------------------------------------------------
(* The invariant is inductive.                                             *)

LEMMA InvInit == Init => IInv
<1> SUFFICES ASSUME Init PROVE IInv
  OBVIOUS
<1>1. HostInv
  BY HostInit
<1>2. \A r \in Rank : ~InBarrier(r) /\ Entered(r) = 0
  BY DEF Init, InBarrier, Entered
<1>3. TriggerInv
  BY <1>2 DEF Init, TriggerInv, Triggered, Bit
<1>4. SignalInv
  <2>1. \A r \in Rank, k \in Round : From(r, k) \in Rank
    BY PeerFrom
  <2> QED BY <2>1 DEF Init, SignalInv
<1>5. WindowInv /\ BarrierInv
  BY <1>2 DEF Init, WindowInv, BarrierInv
<1> QED BY <1>1, <1>3, <1>4, <1>5 DEF IInv

LEMMA InvStep == IInv /\ ~Reuse /\ [Next]_vars => IInv'
  BY HostStep, TriggerStep, SignalStep, WindowStep, BarrierStep DEF IInv

(* Used as documented, the barrier keeps its inductive invariant           *)
(* (gicc_barrier.hpp, ofi_barrier_device.cuh).                             *)
THEOREM Invariance == ASSUME ~Reuse PROVE Spec => []IInv
  BY InvInit, InvStep, PTL DEF Spec

(* The counters, arrays and queues of the barrier keep their types: rounds *)
(* and slots stay inside their arrays (gicc_barrier.hpp:302-343).          *)
THEOREM TypeCorrect == ASSUME ~Reuse PROVE Spec => []TypeOK
<1>1. IInv => TypeOK
  BY DEF IInv, HostInv
<1> QED BY <1>1, Invariance, PTL

(* setup() re-populates a round's builder only after the completion of the *)
(* put it held (gicc_barrier.hpp:442-444).                                 *)
THEOREM BuilderReuse == ASSUME ~Reuse PROVE Spec => []BuilderReuseSafe
<1>1. IInv => BuilderReuseSafe
  BY DEF IInv, HostInv, RankInv, CompletionInv, BuilderReuseSafe
<1> QED BY <1>1, Invariance, PTL

(* A put reads the value it was queued with (gicc_barrier.hpp:182-186).    *)
THEOREM SourceStability == ASSUME ~Reuse PROVE Spec => []SourceStable
<1>1. IInv => SourceStable
  BY DEF IInv, HostInv, PutInv, SourceStable
<1> QED BY <1>1, Invariance, PTL

(* Two signal slots per round are enough (ofi_barrier_device.cuh:23-24).   *)
THEOREM SlotsSuffice == ASSUME ~Reuse PROVE Spec => []NoSignalOverwritten
<1>1. IInv => NoSignalOverwritten
  <2> SUFFICES ASSUME IInv, NEW r \in Rank, NEW k \in Round
               PROVE  LET next == done_counter[r] + 1
                      IN  signals[<<r, k, SlotOf(next)>>] <= next
    BY DEF NoSignalOverwritten
  <2> DEFINE next == done_counter[r] + 1
             v == signals[<<r, k, SlotOf(next)>>]
             f == From(r, k)
  <2> USE DEF IInv, HostInv, TypeOK
  <2>1. done_counter[r] \in Nat /\ next \in Nat
    BY DEF RankTypeOK
  <2>2. SlotOf(next) \in Slots /\ SlotOf(next) # SlotOf(next + 1)
    BY <2>1, SlotAlternates
  <2>3. f \in Rank
    BY PeerFrom
  <2>4. v \in Nat
    BY <2>2 DEF ArrayTypeOK
  <2>5. v <= trigger_cntr[<<f, k>>] /\ (v = 0 \/ SlotOf(v) = SlotOf(next))
    BY <2>2 DEF SignalInv
  <2>6. /\ done_counter[f] \in Nat
        /\ trigger_cntr[<<f, k>>] = done_counter[f] + Bit(Triggered(f, k))
    BY <2>3 DEF TriggerInv, RankTypeOK
  <2>7. done_counter[f] <= done_counter[r] + 1
    <3>1. done_counter[f] <= Entered(r)
      BY <2>3 DEF BarrierInv
    <3>2. Entered(r) = done_counter[r] \/ Entered(r) = done_counter[r] + 1
      BY <2>1 DEF Entered
    <3> QED BY <2>1, <2>6, <3>1, <3>2
  <2> HIDE DEF v, f
  <2>8. v <= next + 1
    BY <2>1, <2>4, <2>5, <2>6, <2>7 DEF Bit
  <2>9. v # next + 1
    BY <2>1, <2>2, <2>5
  <2> QED BY <2>1, <2>4, <2>8, <2>9 DEF v
<1> QED BY <1>1, Invariance, PTL

-----------------------------------------------------------------------------
(* GiccBarrier implements BarrierSpec: a kernel enters a barrier when it   *)
(* has seen the ready counter and leaves it when it bumps the done counter *)
(* (ofi_barrier_device.cuh:62-86).                                         *)
LEMMA RefinementStep ==
    ASSUME IInv, ~Reuse, [Next]_vars
    PROVE  [Abstract!Next]_(Abstract!vars)
<1> USE DEF IInv, HostInv, TypeOK
<1>1. CASE SameNet
  BY <1>1, SameNetEntered DEF Abstract!vars, SameNet
<1>2. ASSUME NEW r \in Rank, Kernel(r)
      PROVE  [Abstract!Next]_(Abstract!vars)
  <2>1. \A q \in Rank : q # r => Entered(q)' = Entered(q)
    BY <1>2, KernelMoves DEF Entered
  <2>2. CASE KernelReady(r)
    <3>1. /\ Entered(r) = done_counter[r] /\ Entered(r)' = Entered(r) + 1
          /\ done_counter' = done_counter
      BY <2>2 DEF KernelReady, Entered, RankTypeOK, memVars
    <3>2. Abstract!Enter(r)
      BY <2>1, <3>1 DEF Abstract!Enter
    <3> QED BY <3>2 DEF Abstract!Next
  <2>3. CASE KernelDone(r)
    <3>1. /\ Entered(r) = done_counter[r] + 1 /\ Entered(r)' = Entered(r)
          /\ done_counter' = [done_counter EXCEPT ![r] = @ + 1]
          /\ done_counter[r] \in Nat
      BY <2>3 DEF KernelDone, Entered, RankTypeOK
    <3>2. \A q \in Rank : Entered(q) > done_counter[r]
      <4>1. \A q \in Rank : Entered(q) \in Nat
        BY DEF Entered, RankTypeOK
      <4> QED BY <2>3, <3>1, <4>1, AllEntered
    <3>3. Abstract!Leave(r)
      BY <2>1, <3>1, <3>2 DEF Abstract!Leave
    <3> QED BY <3>3 DEF Abstract!Next
  <2>4. CASE KernelTrigger(r) \/ KernelPoll(r)
    <3>1. Entered(r)' = Entered(r) /\ done_counter' = done_counter
      BY <2>4 DEF KernelTrigger, KernelPoll, Entered, RankTypeOK, memVars
    <3> QED BY <2>1, <3>1 DEF Abstract!vars
  <2> QED BY <1>2, <2>2, <2>3, <2>4 DEF Kernel
<1> QED BY <1>1, <1>2, MostStepsSameNet

THEOREM Refinement == ASSUME ~Reuse PROVE Spec => ImplementsBarrier
<1>1. Init => Abstract!Init
  BY DEF Init, Abstract!Init, Entered
<1>2. IInv /\ [Next]_vars => [Abstract!Next]_(Abstract!vars)
  BY RefinementStep
<1> QED
  BY <1>1, <1>2, Invariance, PTL DEF Spec, ImplementsBarrier, Abstract!Spec

-----------------------------------------------------------------------------
(* finalize() is safe: when a rank releases its signals and its source     *)
(* buffers, no put of its own and no put of another rank can still use     *)
(* them.  A rank releases after its last barrier, so the argument is about *)
(* the puts still under way: each is one its receiver has yet to wait for. *)

(* The ring, once more: r is Dist[k] behind the rank it signals.           *)
LEMMA BehindPeer ==
    ASSUME NEW r \in Rank, NEW k \in Round
    PROVE  /\ k + 1 \in 0 .. NRounds
           /\ Behind(Peer(r, k), r) < Dist[k + 1]
<1>1. /\ Dist[k] \in Nat \ {0} /\ Dist[k] < N /\ Dist[k + 1] = 2 * Dist[k]
      /\ k + 1 \in 0 .. NRounds
  BY RoundsAssumption DEF Round
<1>2. r \in Nat /\ r < N /\ N \in Nat \ {0}
  BY SizeAssumption DEF Rank
<1>3. Behind(Peer(r, k), r) = Dist[k]
  BY <1>1, <1>2, PeerOnce DEF Behind
<1> QED BY <1>1, <1>3

(* The fields of a put that is queued or on the wire, and the slot it is   *)
(* meant for.                                                              *)
LEMMA PutFields ==
    ASSUME TypeOK, NEW m \in dwq \cup wire
    PROVE  /\ m.src \in Rank /\ m.round \in Round
           /\ m.threshold \in Nat \ {0}
           /\ Peer(m.src, m.round) \in Rank
           /\ From(Peer(m.src, m.round), m.round) = m.src
           /\ SlotOf(m.threshold) \in Slots
           /\ signals[<<Peer(m.src, m.round), m.round,
                        SlotOf(m.threshold)>>] \in Nat
<1>1. m.src \in Rank /\ m.round \in Round /\ m.threshold \in Nat \ {0}
  BY DEF TypeOK, PutTypeOK, Puts
<1>2. SlotOf(m.threshold) \in Slots
  BY <1>1, SlotAlternates
<1>3. /\ Peer(m.src, m.round) \in Rank
      /\ From(Peer(m.src, m.round), m.round) = m.src
  BY <1>1, PeerFrom
<1> QED BY <1>1, <1>2, <1>3 DEF TypeOK, ArrayTypeOK

(* Seen counts barriers.                                                   *)
LEMMA SeenFacts ==
    ASSUME TypeOK, NEW d \in Rank, NEW k \in Round
    PROVE  /\ done_counter[d] \in Nat /\ Seen(d, k) \in Nat
           /\ done_counter[d] <= Seen(d, k)
           /\ Seen(d, k) <= done_counter[d] + 1
<1>1. done_counter[d] \in Nat
  BY DEF TypeOK, RankTypeOK
<1> QED BY <1>1 DEF Seen, Bit

(* No kernel is in a barrier that is not set up.                           *)
LEMMA EnteredReady ==
    ASSUME HostInv, NEW r \in Rank, ProgramInv(r)
    PROVE  Entered(r) \in Nat /\ Entered(r) <= ready_counter[r]
<1>1. done_counter[r] \in Nat /\ ready_counter[r] \in Nat
  BY DEF HostInv, TypeOK, RankTypeOK
<1>2. InBarrier(r) => done_counter[r] + 1 <= ready_counter[r]
  <2>1. InBarrier(r) => KernelOn(r)
    BY DEF InBarrier, KernelOn
  <2> QED BY <2>1 DEF HostInv, RankInv, KernelInv
<1>3. Entered(r) = done_counter[r] + Bit(InBarrier(r))
  BY DEF Entered, Bit, InBarrier
<1> QED BY <1>1, <1>2, <1>3 DEF ProgramInv, Bit

(* A trigger counter is never ahead of the barrier its kernel is in.       *)
LEMMA TriggerEntered ==
    ASSUME HostInv, TriggerInv, NEW r \in Rank, NEW k \in Round
    PROVE  /\ trigger_cntr[<<r, k>>] \in Nat
           /\ trigger_cntr[<<r, k>>] <= Entered(r)
<1>1. done_counter[r] \in Nat
  BY DEF HostInv, TypeOK, RankTypeOK
<1>2. trigger_cntr[<<r, k>>] = done_counter[r] + Bit(Triggered(r, k))
  BY DEF TriggerInv
<1>3. Triggered(r, k) => InBarrier(r)
  BY DEF Triggered
<1>4. Entered(r) = done_counter[r] + Bit(InBarrier(r))
  BY DEF Entered, Bit, InBarrier
<1> QED BY <1>1, <1>2, <1>3, <1>4 DEF Bit

-----------------------------------------------------------------------------
(* setup() queues puts that are ahead of their receivers: whatever a       *)
(* receiver has consumed, this rank has entered, and it has entered        *)
(* nothing that is not set up.                                             *)
LEMMA SetupAhead ==
    ASSUME IInv, NEW r \in Rank, ProgramInv(r), NEW k \in Round,
           ~Armed(r), barrier_count[r] < MaxBarriers
    PROVE  Ahead(r, k, barrier_count[r] + 1)
<1> DEFINE d == Peer(r, k)
           t == barrier_count[r] + 1
<1> USE DEF IInv, HostInv
<1>1. /\ d \in Rank /\ From(d, k) = r
  BY PeerFrom
<1>2. /\ barrier_count[r] \in Nat /\ MaxBarriers \in Nat
      /\ ready_counter[r] = barrier_count[r]
  BY SizeAssumption DEF TypeOK, RankTypeOK, RankInv, ReadyInv, Bit
<1>3. Entered(r) \in Nat /\ Entered(r) <= barrier_count[r]
  BY <1>2, EnteredReady
<1>4. t <= MaxBarriers
  BY <1>2
<1>5. Seen(d, k) <= Entered(r)
  <2>1. /\ done_counter[d] \in Nat /\ done_counter[d] <= Entered(r)
    BY <1>1 DEF BarrierInv, TypeOK, RankTypeOK
  <2>2. ASSUME InBarrier(d), k < round[d]
        PROVE  done_counter[d] + 1 <= Entered(r)
    <3>1. round[d] \in 0 .. NRounds /\ k \in Nat
      BY <1>1, RoundsNat DEF TypeOK, RankTypeOK, Round
    <3>2. k + 1 \in 0 .. NRounds /\ k + 1 <= round[d]
      BY <2>2, <3>1, BehindPeer
    <3>3. Behind(d, r) < Dist[k + 1]
      BY BehindPeer
    <3>4. Entered(r) >= done_counter[d] + 1
      BY <1>1, <2>2, <3>2, <3>3 DEF WindowInv
    <3> QED BY <1>3, <2>1, <3>4
  <2> QED BY <1>3, <2>1, <2>2 DEF Seen, Bit
<1>6. Seen(d, k) < t
  BY <1>1, <1>2, <1>3, <1>5, SeenFacts
<1>7. signals[<<d, k, SlotOf(t)>>] < t
  <2>1. SlotOf(t) \in Slots
    BY <1>2, SlotAlternates
  <2>2. /\ signals[<<d, k, SlotOf(t)>>] \in Nat
        /\ signals[<<d, k, SlotOf(t)>>] <= trigger_cntr[<<r, k>>]
    BY <1>1, <2>1 DEF TypeOK, ArrayTypeOK, SignalInv
  <2>3. trigger_cntr[<<r, k>>] \in Nat /\ trigger_cntr[<<r, k>>] <= Entered(r)
    BY TriggerEntered
  <2> HIDE DEF d
  <2> QED BY <1>2, <1>3, <2>2, <2>3
<1> QED BY <1>4, <1>6, <1>7 DEF Ahead

-----------------------------------------------------------------------------
(* Ahead is about the receiver's position and its signals only.            *)
LEMMA AheadSame ==
    ASSUME SameNet, UNCHANGED signals, NEW src \in Rank, NEW k \in Round,
           NEW t, Ahead(src, k, t)
    PROVE  Ahead(src, k, t)'
<1>1. Peer(src, k) \in Rank
  BY PeerFrom
<1>2. Seen(Peer(src, k), k)' = Seen(Peer(src, k), k)
  BY <1>1, SameNetEntered DEF Seen, Bit
<1> QED BY <1>2 DEF Ahead

(* The host queues no put but those of setup().                            *)
LEMMA HostQueues ==
    ASSUME IInv, ~Reuse, NEW r \in Rank, Main(r) \/ Monitor(r),
           \A q \in Rank : ProgramInv(q)
    PROVE  /\ UNCHANGED <<unacked, wire, completion_cntr>>
           /\ \/ UNCHANGED dwq
              \/ /\ ~Armed(r) /\ barrier_count[r] < MaxBarriers
                 /\ dwq' = dwq \cup
                      {Put(r, k, barrier_count[r] + 1) : k \in Round}
<1> USE DEF threadVars, memVars, kernelVars, nicVars, Go, MonitorGo
<1>0. RankInv(r) /\ ProgramInv(r)
  BY DEF IInv, HostInv
<1>1. CASE SingleSetup(r)
  BY <1>0, <1>1 DEF SingleSetup, MayUse, Setup, QueuePuts, RankInv, ThreadInv,
                    Armed
<1>2. CASE StartContinuousSetup(r)
  BY <1>0, <1>2 DEF StartContinuousSetup, Setup, QueuePuts, RankInv,
                    ThreadInv, Armed, ProgramInv
<1>3. CASE MonitorSetup(r)
  <2>1. main[r] = "waiting"
    <3>1. main[r] \in {"idle", "armed", "launched", "reset", "seed", "go",
                       "started", "waiting", "waited", "joining", "released"}
      BY DEF IInv, HostInv, TypeOK, RankTypeOK
    <3>2. monitor[r] = "setup"
      BY <1>3 DEF MonitorSetup
    <3> QED BY <1>0, <3>1, <3>2 DEF RankInv, ThreadInv
  <2>2. ~Armed(r) /\ barrier_count[r] < MaxBarriers
    BY <1>0, <1>3, <2>1 DEF MonitorSetup, RankInv, ThreadInv, Armed,
                            ProgramInv
  <2> QED BY <1>3, <2>2 DEF MonitorSetup, Setup, QueuePuts
<1>4. CASE \/ CallInit(r) \/ SingleLaunch(r) \/ ResetBegin(r) \/ ResetEnd(r)
           \/ StartContinuous(r) \/ StartContinuousSeed(r)
           \/ ContinuousLaunch(r) \/ WaitContinuous(r) \/ Finalize(r)
           \/ Release(r)
  BY <1>4 DEF CallInit, SingleLaunch, ResetBegin, ResetEnd, StartContinuous,
     StartContinuousSeed, ContinuousLaunch, WaitContinuous, Finalize, Release
<1>5. CASE \/ MonitorExit(r) \/ MonitorSeesMode(r) \/ MonitorNothingDone(r)
           \/ MonitorResetBegin(r) \/ MonitorResetEnd(r) \/ MonitorStop(r)
  BY <1>5 DEF MonitorExit, MonitorSeesMode, MonitorNothingDone,
              MonitorResetBegin, MonitorResetEnd, MonitorStop
<1> QED BY <1>1, <1>2, <1>3, <1>4, <1>5 DEF Main, Monitor

LEMMA HostAhead ==
    ASSUME IInv, ~Reuse, ReleaseInv, NEW r \in Rank, Main(r) \/ Monitor(r)
    PROVE  AheadInv'
<1>1. SameNet /\ UNCHANGED <<signals, wire>>
  BY HostKeepsNet DEF IInv, SameNet
<1>2. SUFFICES ASSUME NEW m \in dwq' \cup wire'
               PROVE  Ahead(m.src, m.round, m.threshold)'
  BY DEF AheadInv
<1>3. /\ m.src \in Rank /\ m.round \in Round
      /\ Ahead(m.src, m.round, m.threshold)
  <2>1. CASE m \in dwq \cup wire
    BY <2>1, PutFields DEF IInv, HostInv, ReleaseInv, AheadInv
  <2>2. CASE m \notin dwq \cup wire
    <3>1. /\ ~Armed(r) /\ barrier_count[r] < MaxBarriers
          /\ m \in {Put(r, k, barrier_count[r] + 1) : k \in Round}
      BY <1>1, <2>2, HostQueues DEF ReleaseInv
    <3>2. PICK k \in Round : m = Put(r, k, barrier_count[r] + 1)
      BY <3>1
    <3>3. m.src = r /\ m.round = k /\ m.threshold = barrier_count[r] + 1
      BY <3>2 DEF Put
    <3> QED BY <3>1, <3>3, SetupAhead DEF ReleaseInv
  <2> QED BY <2>1, <2>2
<1> QED BY <1>1, <1>3, AheadSame

(* A kernel moves on in a round only on the signal of its barrier: the     *)
(* puts that are still under way to it are for later barriers.             *)
LEMMA KernelSeen ==
    ASSUME HostInv, NEW r \in Rank, Kernel(r),
           NEW d \in Rank, NEW k \in Round, NEW t \in Nat,
           Seen(d, k) < t, signals[<<d, k, SlotOf(t)>>] < t
    PROVE  Seen(d, k)' < t
<1> USE DEF HostInv, TypeOK
<1>1. /\ done_counter[d] \in Nat /\ Seen(d, k) \in Nat
      /\ round[d] \in 0 .. NRounds /\ k \in Nat /\ k < NRounds
  BY SeenFacts, RoundsNat DEF RankTypeOK, Round
<1>2. CASE d # r
  <2>1. /\ done_counter'[d] = done_counter[d] /\ round'[d] = round[d]
        /\ InBarrier(d)' = InBarrier(d)
    BY <1>2, KernelMoves DEF InBarrier
  <2> QED BY <2>1 DEF Seen, Bit
<1>3. CASE d = r /\ KernelReady(r)
  <2>1. /\ ~InBarrier(r) /\ round'[r] = 0
        /\ done_counter'[r] = done_counter[r]
    BY <1>3 DEF KernelReady, InBarrier, RankTypeOK, memVars
  <2>2. Seen(d, k)' = Seen(d, k)
    BY <1>1, <1>3, <2>1 DEF Seen, Bit
  <2> QED BY <2>2
<1>4. CASE d = r /\ KernelTrigger(r)
  <2>1. /\ InBarrier(r) /\ InBarrier(r)' /\ round'[r] = round[r]
        /\ done_counter'[r] = done_counter[r]
    BY <1>4 DEF KernelTrigger, InBarrier, RankTypeOK, memVars
  <2> QED BY <1>4, <2>1 DEF Seen, Bit
<1>5. CASE d = r /\ KernelPoll(r)
  <2>1. /\ InBarrier(r) /\ InBarrier(r)' /\ round'[r] = round[r] + 1
        /\ done_counter'[r] = done_counter[r]
    BY <1>5 DEF KernelPoll, InBarrier, RankTypeOK, memVars
  <2>2. CASE k = round[r]
    <3>1. signals[<<d, k, SlotOf(done_counter[d] + 1)>>] = done_counter[d] + 1
      BY <1>5, <2>2 DEF KernelPoll, Signalled, RankInv, KernelInv, KernelOn
    <3>2. Seen(d, k) = done_counter[d]
      BY <1>1, <1>5, <2>1, <2>2 DEF Seen, Bit
    <3>3. t # done_counter[d] + 1
      BY <1>1, <3>1
    <3>4. done_counter[d] + 1 < t
      BY <1>1, <3>2, <3>3
    <3>5. Seen(d, k)' = done_counter[d] + 1
      BY <1>1, <1>5, <2>1, <2>2 DEF Seen, Bit
    <3> QED BY <3>4, <3>5
  <2>3. CASE k # round[r]
    <3>1. k < round'[r] <=> k < round[r]
      BY <1>1, <1>5, <2>1, <2>3
    <3> QED BY <1>5, <2>1, <3>1 DEF Seen, Bit
  <2> QED BY <2>2, <2>3
<1>6. CASE d = r /\ KernelDone(r)
  <2>1. /\ InBarrier(r) /\ ~InBarrier(r)' /\ round[r] = NRounds
        /\ done_counter'[r] = done_counter[r] + 1
    BY <1>6 DEF KernelDone, InBarrier, RankTypeOK
  <2>2. Seen(d, k)' = Seen(d, k)
    BY <1>1, <1>6, <2>1 DEF Seen, Bit
  <2> QED BY <2>2
<1> QED BY <1>2, <1>3, <1>4, <1>5, <1>6 DEF Kernel

LEMMA KernelAhead ==
    ASSUME IInv, ReleaseInv, NEW r \in Rank, Kernel(r)
    PROVE  AheadInv'
<1>1. UNCHANGED <<signals, dwq, wire>>
  BY DEF Kernel, KernelReady, KernelTrigger, KernelPoll, KernelDone, memVars,
         nicVars
<1>2. SUFFICES ASSUME NEW m \in dwq \cup wire
               PROVE  Seen(Peer(m.src, m.round), m.round)' < m.threshold
  BY <1>1 DEF AheadInv, Ahead, ReleaseInv
<1>3. /\ Peer(m.src, m.round) \in Rank /\ m.round \in Round
      /\ m.threshold \in Nat
  BY PutFields DEF IInv, HostInv
<1>4. Ahead(m.src, m.round, m.threshold)
  BY DEF ReleaseInv, AheadInv
<1> QED BY <1>3, <1>4, KernelSeen DEF IInv, Ahead

-----------------------------------------------------------------------------
(* Two puts on their way to one slot: the one that lands is the older.     *)
LEMMA Overtaken ==
    ASSUME IInv, ReleaseInv, NEW w \in wire, NEW v \in dwq \cup wire, v # w,
           v.src = w.src, v.round = w.round,
           SlotOf(v.threshold) = SlotOf(w.threshold)
    PROVE  w.threshold < v.threshold
<1> DEFINE d == Peer(v.src, v.round)
<1> USE DEF IInv, HostInv, TypeOK
<1>1. /\ w.threshold \in Nat /\ v.threshold \in Nat
      /\ v.src \in Rank /\ v.round \in Round /\ d \in Rank
  BY PutFields
<1>2. CASE v \in dwq
  <2>1. v \in Puts /\ v \notin unacked
    BY <1>2 DEF PutInv, PutTypeOK
  <2>2. /\ v.threshold = completion_cntr[<<v.src, v.round>>] + 1
        /\ v.buf = BufOf(v.threshold - 1)
        /\ completion_cntr[<<v.src, v.round>>] \in Nat
    BY <1>1, <1>2 DEF PutInv, ArrayTypeOK
  <2>3. CASE w.threshold <= completion_cntr[<<w.src, w.round>>]
    BY <1>1, <2>2, <2>3
  <2>4. ASSUME NEW p \in unacked, p.src = w.src, p.round = w.round,
               p.threshold = w.threshold
        PROVE  w.threshold < v.threshold
    <3>1. p \in Puts /\ p.buf = BufOf(p.threshold - 1)
      BY DEF PutInv, PutTypeOK
    <3>2. p.threshold = completion_cntr[<<p.src, p.round>>] + 1
      BY DEF PutInv
    <3>3. p.threshold = v.threshold /\ p.buf = v.buf
      BY <2>2, <2>4, <3>1, <3>2
    <3>4. p = v
      BY <2>1, <2>4, <3>1, <3>3 DEF Puts
    <3> QED BY <2>1, <3>4
  <2> QED BY <2>3, <2>4 DEF ReleaseInv, WireInv
<1>3. CASE v \in wire
  <2>1. w.threshold # v.threshold
    <3>1. /\ v.value = v.threshold /\ w.value = w.threshold
      BY <1>3 DEF SignalInv
    <3> QED BY <1>3, <3>1 DEF PutTypeOK
  <2>2. /\ done_counter[d] \in Nat /\ done_counter[d] < v.threshold
    <3>1. Seen(d, v.round) < v.threshold
      BY DEF ReleaseInv, AheadInv, Ahead
    <3>2. done_counter[d] <= Seen(d, v.round) /\ Seen(d, v.round) \in Nat
          /\ done_counter[d] \in Nat
      BY <1>1, SeenFacts
    <3> HIDE DEF d
    <3> QED BY <1>1, <3>1, <3>2
  <2>3. w.threshold <= done_counter[d] + 2
    <3>1. w.threshold <= trigger_cntr[<<v.src, v.round>>]
      BY DEF SignalInv
    <3>2. /\ trigger_cntr[<<v.src, v.round>>] \in Nat
          /\ trigger_cntr[<<v.src, v.round>>] <= Entered(v.src)
      BY <1>1, TriggerEntered
    <3>3. /\ Entered(v.src) \in Nat /\ done_counter[v.src] \in Nat
          /\ Entered(v.src) <= done_counter[v.src] + 1
      BY <1>1 DEF Entered, RankTypeOK
    <3>4. done_counter[v.src] <= done_counter[d] + 1
      <4>1. done_counter[v.src] <= Entered(d)
        BY <1>1 DEF BarrierInv
      <4>2. /\ Entered(d) \in Nat /\ Entered(d) <= done_counter[d] + 1
        BY <1>1 DEF Entered, RankTypeOK
      <4> HIDE DEF d
      <4> QED BY <2>2, <3>3, <4>1, <4>2
    <3> HIDE DEF d
    <3> QED BY <1>1, <2>2, <3>1, <3>2, <3>3, <3>4
  <2> HIDE DEF d
  <2>4. ~(/\ w.threshold = done_counter[d] + 2
          /\ v.threshold = done_counter[d] + 1)
    <3>1. SlotOf(done_counter[d] + 1) # SlotOf((done_counter[d] + 1) + 1)
      BY <2>2, SlotAlternates
    <3>2. (done_counter[d] + 1) + 1 = done_counter[d] + 2
      BY <2>2
    <3> QED BY <3>1, <3>2
  <2> QED BY <1>1, <2>1, <2>2, <2>3, <2>4
<1> QED BY <1>2, <1>3

LEMMA NicAhead ==
    ASSUME IInv, ReleaseInv, Nic
    PROVE  AheadInv'
<1> USE DEF memVars, kernelVars
<1>1. SameNet
  BY DEF Nic, Fire, Deliver, Complete, SameNet
<1>2. \A m \in dwq \cup wire : /\ m.src \in Rank /\ m.round \in Round
                               /\ Ahead(m.src, m.round, m.threshold)
  BY PutFields DEF IInv, HostInv, ReleaseInv, AheadInv
<1>3. ASSUME NEW p \in dwq, Fire(p)
      PROVE  AheadInv'
  <2>1. UNCHANGED signals
    BY <1>3 DEF Fire
  <2>2. ASSUME NEW m \in dwq' \cup wire'
        PROVE  \E o \in dwq \cup wire : /\ o.src = m.src /\ o.round = m.round
                                        /\ o.threshold = m.threshold
    <3>1. CASE m \in dwq \cup wire
      BY <3>1
    <3>2. CASE m \notin dwq \cup wire
      <4>1. m.src = p.src /\ m.round = p.round /\ m.threshold = p.threshold
        BY <1>3, <3>2 DEF Fire
      <4> QED BY <4>1
    <3> QED BY <3>1, <3>2
  <2>3. ASSUME NEW m \in dwq' \cup wire'
        PROVE  Ahead(m.src, m.round, m.threshold)'
    <3>1. /\ m.src \in Rank /\ m.round \in Round
          /\ Ahead(m.src, m.round, m.threshold)
      BY <1>2, <2>2
    <3> QED BY <1>1, <2>1, <3>1, AheadSame
  <2> QED BY <2>3 DEF AheadInv
<1>4. ASSUME NEW p \in unacked, Complete(p)
      PROVE  AheadInv'
  <2>1. UNCHANGED <<signals, dwq, wire>>
    BY <1>4 DEF Complete
  <2>2. ASSUME NEW m \in dwq \cup wire
        PROVE  Ahead(m.src, m.round, m.threshold)'
    BY <1>1, <1>2, <2>1, AheadSame
  <2> QED BY <2>1, <2>2 DEF AheadInv
<1>5. ASSUME NEW w \in wire, Deliver(w)
      PROVE  AheadInv'
  <2> DEFINE cell == <<Peer(w.src, w.round), w.round, SlotOf(w.threshold)>>
  <2>1. /\ signals' = [signals EXCEPT ![cell] = w.value]
        /\ dwq' = dwq /\ wire' = wire \ {w} /\ w.value = w.threshold
    BY <1>5 DEF Deliver, IInv, SignalInv
  <2>2. ASSUME NEW m \in dwq \cup wire, m # w
        PROVE  Ahead(m.src, m.round, m.threshold)'
    <3> DEFINE d == Peer(m.src, m.round)
               slot == SlotOf(m.threshold)
    <3>1. /\ d \in Rank /\ m.round \in Round /\ slot \in Slots
          /\ From(d, m.round) = m.src
          /\ From(Peer(w.src, w.round), w.round) = w.src
      BY PutFields DEF IInv, HostInv
    <3>2. Ahead(m.src, m.round, m.threshold)
      BY <1>2
    <3>3. Seen(d, m.round)' = Seen(d, m.round)
      BY <1>1, <3>1, SameNetEntered DEF Seen, Bit
    <3>4. signals'[<<d, m.round, slot>>] < m.threshold
      <4>1. CASE <<d, m.round, slot>> = cell
        <5>1. m.round = w.round /\ d = Peer(w.src, w.round)
              /\ slot = SlotOf(w.threshold)
          BY <4>1
        <5>2. m.src = w.src
          BY <3>1, <5>1
        <5>3. w.threshold < m.threshold
          BY <2>2, <5>1, <5>2, Overtaken
        <5>4. <<d, m.round, slot>> \in Rank \X Round \X Slots
          BY <3>1
        <5>5. signals'[<<d, m.round, slot>>] = w.value
          BY <2>1, <4>1, <5>4 DEF IInv, HostInv, TypeOK, ArrayTypeOK
        <5> QED BY <2>1, <5>3, <5>5
      <4>2. CASE <<d, m.round, slot>> # cell
        <5>1. signals'[<<d, m.round, slot>>] = signals[<<d, m.round, slot>>]
          BY <2>1, <3>1, <4>2 DEF IInv, HostInv, TypeOK, ArrayTypeOK
        <5> QED BY <3>2, <5>1 DEF Ahead
      <4> QED BY <4>1, <4>2
    <3> QED BY <3>2, <3>3, <3>4 DEF Ahead
  <2>3. \A m \in dwq' \cup wire' : m \in dwq \cup wire /\ m # w
    <3>1. ASSUME w \in dwq PROVE FALSE
      <4>1. /\ w \in Puts
            /\ w \in [src : Rank, round : Round, threshold : Nat \ {0},
                      value : Nat]
        BY <3>1 DEF IInv, HostInv, TypeOK, PutTypeOK
      <4>2. DOMAIN w = {"src", "round", "threshold", "buf"}
        BY <4>1 DEF Puts
      <4>3. DOMAIN w = {"src", "round", "threshold", "value"}
        BY <4>1
      <4> QED BY <4>2, <4>3
    <3> QED BY <2>1, <3>1
  <2> HIDE DEF cell
  <2> QED BY <2>2, <2>3 DEF AheadInv
<1> QED BY <1>3, <1>4, <1>5 DEF Nic

-----------------------------------------------------------------------------
(* Every put on the wire has its completion counted or still to come.      *)
LEMMA WireStep ==
    ASSUME IInv, ~Reuse, ReleaseInv, [Next]_vars
    PROVE  WireInv'
<1>1. ASSUME UNCHANGED <<unacked, wire, completion_cntr>>
      PROVE  WireInv'
  BY <1>1 DEF ReleaseInv, WireInv
<1>2. ASSUME NEW r \in Rank, Main(r) \/ Monitor(r)
      PROVE  WireInv'
  BY <1>1, <1>2, HostQueues DEF ReleaseInv
<1>3. ASSUME NEW r \in Rank, Kernel(r)
      PROVE  WireInv'
  BY <1>1, <1>3 DEF Kernel, KernelReady, KernelTrigger, KernelPoll,
     KernelDone, nicVars
<1>4. ASSUME NEW p \in dwq, Fire(p)
      PROVE  WireInv'
  <2>1. /\ unacked' = unacked \cup {p} /\ completion_cntr' = completion_cntr
        /\ \A w \in wire' : \/ w \in wire
                            \/ /\ w.src = p.src /\ w.round = p.round
                               /\ w.threshold = p.threshold
    BY <1>4 DEF Fire
  <2> QED BY <2>1 DEF ReleaseInv, WireInv
<1>5. ASSUME NEW w \in wire, Deliver(w)
      PROVE  WireInv'
  BY <1>5 DEF Deliver, ReleaseInv, WireInv
<1>6. ASSUME NEW p \in unacked, Complete(p)
      PROVE  WireInv'
  <2>1. /\ wire' = wire /\ unacked' = unacked \ {p}
        /\ completion_cntr' =
             [completion_cntr EXCEPT ![<<p.src, p.round>>] = @ + 1]
    BY <1>6 DEF Complete
  <2>2. /\ p.threshold = completion_cntr[<<p.src, p.round>>] + 1
        /\ <<p.src, p.round>> \in Rank \X Round
    BY DEF IInv, HostInv, TypeOK, PutTypeOK, Puts, PutInv
  <2>3. completion_cntr \in [Rank \X Round -> Nat]
    BY DEF IInv, HostInv, TypeOK, ArrayTypeOK
  <2>4. ASSUME NEW w \in wire
        PROVE  \/ w.threshold <= completion_cntr'[<<w.src, w.round>>]
               \/ \E o \in unacked' : /\ o.src = w.src /\ o.round = w.round
                                      /\ o.threshold = w.threshold
    <3>1. /\ w.threshold \in Nat /\ <<w.src, w.round>> \in Rank \X Round
      BY PutFields DEF IInv, HostInv
    <3>2. CASE w.threshold <= completion_cntr[<<w.src, w.round>>]
      <4>1. completion_cntr[<<w.src, w.round>>]
              <= completion_cntr'[<<w.src, w.round>>]
        BY <2>1, <2>3, <3>1
      <4>2. /\ completion_cntr[<<w.src, w.round>>] \in Nat
            /\ completion_cntr'[<<w.src, w.round>>] \in Nat
        BY <2>1, <2>3, <3>1
      <4> QED BY <3>1, <3>2, <4>1, <4>2
    <3>3. ASSUME NEW o \in unacked, o.src = w.src, o.round = w.round,
                 o.threshold = w.threshold
          PROVE  \/ w.threshold <= completion_cntr'[<<w.src, w.round>>]
                 \/ o \in unacked'
      <4>1. CASE o = p
        <5>1. completion_cntr'[<<w.src, w.round>>] = w.threshold
          BY <2>1, <2>2, <2>3, <3>1, <3>3, <4>1
        <5> QED BY <3>1, <5>1
      <4> QED BY <2>1, <4>1
    <3> QED BY <3>2, <3>3 DEF ReleaseInv, WireInv
  <2> QED BY <2>1, <2>4 DEF WireInv
<1>7. CASE UNCHANGED vars
  BY <1>1, <1>7 DEF vars, nicVars
<1> QED
  BY <1>2, <1>3, <1>4, <1>5, <1>6, <1>7 DEF Next, Finished, Nic

-----------------------------------------------------------------------------
(* Rank r's own steps keep it to the client's program.                     *)
LEMMA ProgramStep ==
    ASSUME NEW r \in Rank, TypeOK, RankInv(r), ProgramInv(r), ~Reuse,
           Main(r) \/ Monitor(r) \/ Kernel(r)
    PROVE  ProgramInv(r)'
<1> USE SizeAssumption DEF TypeOK, RankTypeOK, RankInv, ProgramInv, Go,
        MonitorGo, threadVars, memVars, kernelVars, nicVars
<1>1. CASE \/ CallInit(r) \/ SingleLaunch(r) \/ ResetEnd(r)
           \/ StartContinuousSeed(r) \/ ContinuousLaunch(r) \/ Release(r)
           \/ Finalize(r)
  BY <1>1 DEF CallInit, SingleLaunch, ResetEnd, StartContinuousSeed,
              ContinuousLaunch, Release, Finalize
<1>2. CASE SingleSetup(r)
  BY <1>2 DEF SingleSetup, Setup
<1>3. CASE ResetBegin(r)
  BY <1>3 DEF ResetBegin, CountBarrier
<1>4. CASE StartContinuous(r)
  BY <1>4 DEF StartContinuous
<1>5. CASE StartContinuousSetup(r)
  BY <1>5 DEF StartContinuousSetup, Setup
<1>6. CASE WaitContinuous(r)
  BY <1>6 DEF WaitContinuous, ThreadInv
<1>7. CASE MonitorResetBegin(r)
  <2>1. main[r] \notin {"waited", "joining", "released"}
    BY <1>7 DEF MonitorResetBegin, ThreadInv, Bit
  <2> QED BY <1>7, <2>1 DEF MonitorResetBegin, CountBarrier
<1>8. CASE MonitorSetup(r)
  BY <1>8 DEF MonitorSetup, Setup
<1>9. CASE \/ MonitorExit(r) \/ MonitorSeesMode(r) \/ MonitorNothingDone(r)
           \/ MonitorResetEnd(r) \/ MonitorStop(r)
  BY <1>9 DEF MonitorExit, MonitorSeesMode, MonitorNothingDone,
              MonitorResetEnd, MonitorStop
<1>10. CASE KernelReady(r) \/ KernelTrigger(r) \/ KernelPoll(r)
  BY <1>10 DEF KernelReady, KernelTrigger, KernelPoll
<1>11. CASE KernelDone(r)
  <2>1. done_counter[r] + 1 <= ready_counter[r]
    BY <1>11 DEF KernelDone, KernelInv, KernelOn, InBarrier
  <2> QED BY <1>11, <2>1 DEF KernelDone
<1> QED
  BY <1>1, <1>2, <1>3, <1>4, <1>5, <1>6, <1>7, <1>8, <1>9, <1>10, <1>11
     DEF Main, Monitor, Kernel

LEMMA ReleaseInit == Init => ReleaseInv
  BY DEF Init, ReleaseInv, AheadInv, WireInv, ProgramInv

LEMMA ReleaseStep ==
    ASSUME IInv, ~Reuse, ReleaseInv, [Next]_vars
    PROVE  ReleaseInv'
<1>1. WireInv'
  BY WireStep
<1>2. AheadInv'
  <2>1. CASE UNCHANGED vars
    BY <2>1 DEF vars, threadVars, memVars, kernelVars, nicVars, ReleaseInv,
       AheadInv, Ahead, Seen, InBarrier, Bit
  <2> QED BY <2>1, HostAhead, KernelAhead, NicAhead DEF Next, Finished
<1>3. ASSUME NEW q \in Rank
      PROVE  ProgramInv(q)'
  <2>1. ProgramInv(q) /\ TypeOK /\ RankInv(q)
    BY DEF ReleaseInv, IInv, HostInv
  <2>2. ASSUME UNCHANGED <<done_counter, ready_counter, main,
                           target_barrier_count, barrier_count>>
        PROVE  ProgramInv(q)'
    BY <2>1, <2>2 DEF ProgramInv
  <2>3. CASE Nic \/ UNCHANGED vars
    BY <2>2, <2>3 DEF Nic, Fire, Deliver, Complete, vars, threadVars, memVars
  <2>4. ASSUME NEW r \in Rank, Main(r) \/ Monitor(r) \/ Kernel(r)
        PROVE  ProgramInv(q)'
    <3>1. CASE q = r
      BY <2>1, <2>4, <3>1, ProgramStep
    <3>2. CASE q # r
      BY <2>1, <2>4, <3>2, OtherRank DEF SameRank, ProgramInv
    <3> QED BY <3>1, <3>2
  <2> QED BY <2>3, <2>4 DEF Next, Finished
<1> QED BY <1>1, <1>2, <1>3 DEF ReleaseInv

(* The barrier's inductive invariant together with what finalize() needs:  *)
(* which puts are still under way (gicc_barrier.hpp:112-155).              *)
THEOREM FullInvariance == ASSUME ~Reuse PROVE Spec => []FullInv
<1>1. Init => FullInv
  BY InvInit, ReleaseInit DEF FullInv
<1>2. FullInv /\ [Next]_vars => FullInv'
  BY InvStep, ReleaseStep DEF FullInv
<1> QED BY <1>1, <1>2, PTL DEF Spec

(* finalize() frees memory that no put can use any more, on its own rank   *)
(* or on another one (gicc_barrier.hpp:112-155).                           *)
THEOREM ReleaseSafe == ASSUME ~Reuse PROVE Spec => []NoPutAfterRelease
<1>1. FullInv => NoPutAfterRelease
  <2> SUFFICES ASSUME FullInv, NEW r \in Rank, main[r] = "released"
               PROVE  /\ \A p \in dwq \cup unacked : p.src # r
                      /\ \A m \in dwq \cup wire : Peer(m.src, m.round) # r
    BY DEF NoPutAfterRelease
  <2> USE DEF FullInv, IInv, HostInv
  <2>1. RankInv(r) /\ ProgramInv(r)
    BY DEF ReleaseInv
  <2>2. ~Armed(r) /\ ~InReset(r)
    BY <2>1 DEF RankInv, ThreadInv, Armed, InReset
  <2>3. \A p \in dwq \cup unacked : p.src # r
    BY <2>1, <2>2, QuietBeforeSetup
  <2>4. done_counter[r] = MaxBarriers
    BY <2>1 DEF RankInv, ThreadInv, ProgramInv
  <2>5. ASSUME NEW m \in dwq \cup wire, Peer(m.src, m.round) = r
        PROVE  FALSE
    <3>1. m.round \in Round /\ m.threshold \in Nat
      BY PutFields
    <3>2. Seen(r, m.round) < m.threshold /\ m.threshold <= MaxBarriers
      BY <2>5 DEF ReleaseInv, AheadInv, Ahead
    <3>3. done_counter[r] <= Seen(r, m.round) /\ Seen(r, m.round) \in Nat
      BY <3>1, SeenFacts
    <3> QED BY <2>4, <3>1, <3>2, <3>3, SizeAssumption
  <2> QED BY <2>3, <2>5
<1> QED BY <1>1, FullInvariance, PTL

=============================================================================
