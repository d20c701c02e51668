--------------------------- MODULE SendQueueSpec ---------------------------
(***************************************************************************)
(* What a send queue shared by several threads promises: a thread claims a *)
(* run of consecutive entries, fills them, and the NIC executes the        *)
(* entries one by one, in the order in which they were claimed and none    *)
(* before it is filled.  How claims, doorbells and the ring are made does  *)
(* not show here (device_nvshmem.cuh:6-11 names its means: three indices,  *)
(* batched doorbells, "Lock-free FIFO").                                   *)
(***************************************************************************)
EXTENDS Naturals, Sequences

CONSTANTS
    Thread,
    Sizes           \* how many entries a claim may take

VARIABLES
    claims,         \* claims[i]: the thread that claimed entry i - 1
    filled,         \* the entries that are filled
    log             \* the threads whose entries were executed, in order

vars == <<claims, filled, log>>

Init == claims = <<>> /\ filled = {} /\ log = <<>>

Claim(t, n) ==
    /\ claims' = claims \o [k \in 1 .. n |-> t]
    /\ UNCHANGED <<filled, log>>

Fill(i) ==
    /\ i \in 0 .. Len(claims) - 1 /\ i \notin filled
    /\ filled' = filled \cup {i}
    /\ UNCHANGED <<claims, log>>

(* The next entry, with what its claimer wrote; all before it are filled.  *)
Execute ==
    /\ Len(log) \in filled
    /\ log' = Append(log, claims[Len(log) + 1])
    /\ UNCHANGED <<claims, filled>>

Next ==
    \/ \E t \in Thread, n \in Sizes : Claim(t, n)
    \/ \E i \in 0 .. Len(claims) - 1 : Fill(i)
    \/ Execute

Spec == Init /\ [][Next]_vars
=============================================================================
