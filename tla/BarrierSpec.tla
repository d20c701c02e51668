----------------------------- MODULE BarrierSpec -----------------------------
(***************************************************************************)
(* What a barrier promises, whatever carries its signals.                  *)
(*                                                                         *)
(* gicc has three of them: the GPU-triggered dissemination barrier         *)
(* (gicc_barrier.hpp with ofi_barrier_device.cuh), the host one over       *)
(* FI_MSG (ofi_barrier.hpp, "Global barrier across all ranks",             *)
(* fabric.hpp:342) and the fence of the bootstrap.  This module says what  *)
(* a rank may rely on when a barrier call returns, and nothing about how.  *)
(***************************************************************************)
EXTENDS Naturals

CONSTANT Rank        \* the participating ranks

VARIABLES
    entered,         \* entered[r]: how many barriers rank r has gone into
    left             \* left[r]: how many barriers rank r has come out of

vars == <<entered, left>>

Init ==
    /\ entered = [r \in Rank |-> 0]
    /\ left = [r \in Rank |-> 0]

(* A rank outside the barrier goes into its next one. *)
Enter(r) ==
    /\ entered[r] = left[r]
    /\ entered' = [entered EXCEPT ![r] = @ + 1]
    /\ UNCHANGED left

(* A rank comes out of barrier number left[r] + 1 only when every rank has *)
(* gone into that barrier.                                                 *)
Leave(r) ==
    /\ entered[r] = left[r] + 1
    /\ \A q \in Rank : entered[q] > left[r]
    /\ left' = [left EXCEPT ![r] = @ + 1]
    /\ UNCHANGED entered

Next == \E r \in Rank : Enter(r) \/ Leave(r)

Spec == Init /\ [][Next]_vars
=============================================================================
