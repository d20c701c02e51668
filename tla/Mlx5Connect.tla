---------------------------- MODULE Mlx5Connect ----------------------------
(***************************************************************************)
(* Start-up of the MLX5 backend over the bootstrap: the constructor of     *)
(* Runtime with connect_peers() and exchange()                             *)
(* (platform/mlx5/mlx5_runtime.hpp), the one of Fabric with                *)
(* exchange_and_connect() (platform/mlx5/comm.hpp), with the state of each *)
(* queue pair; and the programs of the repository that call the            *)
(* bootstrap's send() and recv(): jacobi's gather and mm_minimal's ring.   *)
(***************************************************************************)
EXTENDS Bootstrap

CONSTANT Jobs   \* which of the jobs below are run: pairs of back end and program
ASSUME JobsAssumption ==
    Jobs \subseteq {"mpi", "pmi2"} \X {"runtime", "fabric", "gather", "ring"}

VARIABLES
    qp,         \* state of rank r's queue pair to p
    ready       \* ranks whose constructor has returned

vars == <<bootVars, qp, ready>>

(* The order in which connect_peers() visits peer_qps_, an unordered_map:  *)
(* with libstdc++ and up to 13 peers, the last one inserted comes first.   *)
Ascending(r) == [i \in 1 .. N - 1 |-> IF i <= r THEN i - 1 ELSE i]
Rotated(r) == [i \in 1 .. N - 1 |-> (r + i) % N]
Visited(r) == [i \in 1 .. N - 1 |-> Ascending(r)[N - i]]

Modify(p, state) == [op |-> "modify", peer |-> p, state |-> state]

(* The calls of a loop over the peers whose body makes n of them for each. *)
ForEach(peers, n, Body(_)) ==
    [k \in 1 .. n * (N - 1) |->
        Body(peers[((k - 1) \div n) + 1])[((k - 1) % n) + 1]]

Connect(p) == <<Sendrecv(p), Modify(p, "INIT"), Modify(p, "RTR"), Modify(p, "RTS")>>

SkipBarrier(r) == ForEach(Visited(r), 4, Connect)
ConnectPeers(r) == ForEach(Visited(r), 4, Connect) \o <<Barrier>>

Constructed == [op |-> "constructed", peer |-> 0]

Runtime(r) == ConnectPeers(r) \o <<Constructed, Allgather>>

(* comm.hpp's Fabric creates its queue pairs in INIT, exchanges with every *)
(* peer, and connects afterwards.                                          *)
Create(p) == <<Modify(p, "INIT")>>
Exchange(p) == <<Sendrecv(p)>>
ConnectToPeer(p) == <<Modify(p, "RTR"), Modify(p, "RTS")>>

Fabric(r) ==
    LET peers == Ascending(r) IN
    ForEach(peers, 1, Create) \o ForEach(peers, 1, Exchange) \o <<Barrier>>
        \o ForEach(peers, 2, ConnectToPeer) \o <<Barrier, Constructed, Allgather>>

(* jacobi.cu: rank 0 gathers, then broadcasts the verdict.                 *)
Gather(r) ==
    (IF r = 0 THEN [i \in 1 .. N - 1 |-> Recv(i)] ELSE <<Send(0)>>)
        \o <<Broadcast(0)>>

(* mm_minimal.cpp: send to the left, receive from the right, by parity.    *)
Left(r) == (r + N - 1) % N
Right(r) == (r + 1) % N
Ring(r) ==
    IF r % 2 = 0 THEN <<Send(Left(r)), Recv(Right(r))>>
    ELSE <<Recv(Right(r)), Send(Left(r))>>

Calls(program, r) ==
    CASE program = "runtime" -> Runtime(r)
      [] program = "fabric" -> Fabric(r)
      [] program = "gather" -> Gather(r) \o Gather(r)
      [] program = "ring" -> Ring(r) \o <<Allgather>> \o Ring(r) \o <<Broadcast(0)>>

Job(job) == [backend |-> job[1], calls |-> [r \in Rank |-> Calls(job[2], r)]]

Init ==
    /\ BootInit({Job(j) : j \in Jobs})
    /\ qp = [e \in Pair |-> "RST"]
    /\ ready = {}

(* rst2init(), init2rtr() with what sendrecv() brought, rtr2rts().         *)
Before == [INIT |-> "RST", RTR |-> "INIT", RTS |-> "RTR"]

ModifyQp(r) ==
    LET e == <<r, Peer(r)>> IN
    /\ Calling(r, {"modify"})
    /\ qp[e] = Before[Head(calls[r]).state]
    /\ qp' = [qp EXCEPT ![e] = Head(calls[r]).state]
    /\ Return(r)
    /\ UNCHANGED <<constVars, mpiVars, pmiVars, sent, received, failed, ready>>

(* The constructor returns; the client may now launch kernels that put.    *)
Construct(r) ==
    /\ Calling(r, {"constructed"})
    /\ ready' = ready \cup {r}
    /\ Return(r)
    /\ UNCHANGED <<constVars, mpiVars, pmiVars, sent, received, failed, qp>>

Step(r) == (BootStep(r) /\ UNCHANGED <<qp, ready>>) \/ ModifyQp(r) \/ Construct(r)
Together == BootTogether /\ UNCHANGED <<qp, ready>>
Finished == Returned /\ UNCHANGED vars

Next == (\E r \in Rank : Step(r)) \/ Together \/ Finished

Spec == Init /\ [][Next]_vars

(* Every rank that can go on does.                                         *)
FairSpec == Spec /\ WF_vars(Together) /\ \A r \in Rank : WF_vars(Step(r))

-----------------------------------------------------------------------------
Ops == Fencing \cup {"modify", "constructed"}

(* MPI loses nothing, and holds one message of a pair at most unless it    *)
(* buffers; the PMI2 sequence numbers of a pair count its messages         *)
(* (bootstrap_pmi2.hpp:193).                                               *)
TypeOK ==
    /\ backend \in {"mpi", "pmi2"} /\ eager \in BOOLEAN
    /\ pc \in [Rank -> {"call", "posted", "received", "fence", "fenced", "failed"}]
    /\ \A r \in Rank : \A i \in 1 .. Len(calls[r]) : calls[r][i].op \in Ops
    /\ qp \in [Pair -> {"RST", "INIT", "RTR", "RTS"}]
    /\ failed \subseteq Rank /\ ready \subseteq Rank
    /\ \A e \in Pair : backend = "mpi" =>
           /\ Len(sent[e]) = Len(received[e]) + Len(chan[e])
           /\ ~eager => Len(chan[e]) <= 1
    /\ \A r \in Rank : \A p \in Rank \ {r} : backend = "pmi2" =>
           /\ p2p_seq[r][<<r, p>>] = Len(sent[<<r, p>>])
           /\ p2p_seq[r][<<p, r>>] = Len(received[<<p, r>>])

(* When a rank's constructor has returned, every queue pair of this rank   *)
(* and every one that faces it is connected: neither its first put nor     *)
(* its peers' finds a queue pair that refuses it (mlx5_runtime.hpp:318).   *)
ConstructedMeansConnected ==
    \A r \in ready : \A p \in Rank \ {r} :
        qp[<<r, p>>] = "RTS" /\ qp[<<p, r>>] = "RTS"

(* mm_minimal's ring over PMI2, where every call is a fence of all ranks   *)
(* (bootstrap_pmi2.hpp:140-157): no rank looks for a key that its right    *)
(* neighbour has not put yet, the neighbour is never two messages ahead,   *)
(* and the end of the program finds every message received.  The other     *)
(* programs of this module do not stay in step over PMI2.                  *)
RingInStep ==
    backend = "pmi2" =>
        /\ failed = {}
        /\ \A r \in Rank :
               LET e == <<Right(r), r>> IN
               /\ Len(sent[e]) <= Len(received[e]) + 1
               /\ Returned => received[e] = sent[e]

(* Every call of every rank returns: no cycle of ranks each waiting in a   *)
(* sendrecv() or at a fence for another.                                   *)
EveryCallReturns == <>Returned
=============================================================================
