--------------------------- MODULE MCGiccBarrier ---------------------------
(* GiccBarrier with the powers of two that 1 << k yields, and the clients  *)
(* of its two runs.                                                        *)
EXTENDS GiccBarrierInv

MCDist == [k \in 0 .. NRounds |-> 2 ^ k]

(* Rank 1 ends in continuous mode, which it enters at its first or at its  *)
(* second barrier; the other ranks stay in single mode.                    *)
MCMixed ==
    [r \in Rank |-> [b \in 1 .. MaxBarriers |->
        CASE r # 1 -> {"single"}
          [] b = 1 -> {"single", "continuous"}
          [] OTHER -> {"continuous"}]]

MCContinuous == [r \in Rank |-> [b \in 1 .. MaxBarriers |-> {"continuous"}]]
=============================================================================
