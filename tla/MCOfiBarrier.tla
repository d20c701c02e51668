---------------------------- MODULE MCOfiBarrier ----------------------------
(* OfiBarrier with the powers of two that 1 << k yields.                   *)
EXTENDS OfiBarrier

MCDist == [k \in 0 .. NSteps |-> 2 ^ k]
=============================================================================
