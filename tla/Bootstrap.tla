----------------------------- MODULE Bootstrap -----------------------------
(***************************************************************************)
(* gicc::Bootstrap: the point-to-point and collective calls a process uses *)
(* to set up, on either back end: MPI (detail/bootstrap_mpi.hpp) or the    *)
(* key-value space of PMI2 (detail/bootstrap_pmi2.hpp), where every call   *)
(* is a put, a fence of all ranks and a get.                               *)
(*                                                                         *)
(* A job is a back end and, for each rank, the calls it makes in order.    *)
(* The module that uses this one says which jobs there are, and may give   *)
(* calls of its own between those of the bootstrap.                        *)
(***************************************************************************)
EXTENDS Integers, Sequences, FiniteSets

CONSTANT N                     \* ranks
ASSUME RanksAssumption == N \in Nat \ {0}

Rank == 0 .. N - 1
Pair == Rank \X Rank           \* a source and a destination

Call(op, peer) == [op |-> op, peer |-> peer]
Send(p) == Call("send", p)
Recv(p) == Call("recv", p)
Sendrecv(p) == Call("sendrecv", p)
Barrier == Call("barrier", 0)
Allgather == Call("allgather", 0)
Broadcast(root) == Call("broadcast", root)

VARIABLES
    backend,        \* "mpi" or "pmi2"
    eager,          \* does MPI buffer a message that nobody receives yet?
    calls,          \* calls each rank has yet to return from
    pc,             \* where the rank is in the first of them
    chan,           \* MPI: messages sent and not received
    staged, kvs,    \* PMI2: entries put since the last fence, and visible ones
    p2p_seq,        \* p2p_seq_ of each rank
    coll_epoch,     \* coll_epoch_
    sent, received, \* what has passed between each two ranks
    failed          \* ranks whose KVS_Get failed and threw

bootVars == <<backend, eager, calls, pc, chan, staged, kvs, p2p_seq, coll_epoch,
              sent, received, failed>>
constVars == <<backend, eager>>
mpiVars == <<chan>>
pmiVars == <<staged, kvs, p2p_seq, coll_epoch>>

BootInit(jobs) ==
    /\ \E job \in jobs : backend = job.backend /\ calls = job.calls
    /\ eager \in BOOLEAN
    /\ pc = [r \in Rank |-> "call"]
    /\ chan = [e \in Pair |-> <<>>]
    /\ staged = [r \in Rank |-> {}] /\ kvs = {}
    /\ p2p_seq = [r \in Rank |-> [e \in Pair |-> 0]]
    /\ coll_epoch = [r \in Rank |-> 0]
    /\ sent = [e \in Pair |-> <<>>] /\ received = [e \in Pair |-> <<>>]
    /\ failed = {}

Calling(r, ops) == calls[r] # <<>> /\ Head(calls[r]).op \in ops
Peer(r) == Head(calls[r]).peer
At(r, label) == pc[r] = label
Goto(r, label) == pc' = [pc EXCEPT ![r] = label]
Return(r) ==
    /\ calls' = [calls EXCEPT ![r] = Tail(@)]
    /\ Goto(r, "call")

(* The messages of one rank to another are known by their number.          *)
Message(e) == Len(sent[e]) + 1
LogSent(e) == sent' = [sent EXCEPT ![e] = Append(@, Message(e))]
LogReceived(e, m) == received' = [received EXCEPT ![e] = Append(@, m)]

-----------------------------------------------------------------------------
(* MPI: send(), recv(), sendrecv().                                        *)
MpiPost(r) ==
    LET e == <<r, Peer(r)>> IN
    /\ backend = "mpi" /\ Calling(r, {"send", "sendrecv"}) /\ At(r, "call")
    /\ chan' = [chan EXCEPT ![e] = Append(@, Message(e))]
    /\ LogSent(e)
    /\ Goto(r, "posted")
    /\ UNCHANGED <<constVars, calls, pmiVars, received, failed>>

MpiReceive(r) ==
    LET e == <<Peer(r), r>> IN
    /\ backend = "mpi"
    /\ \/ Calling(r, {"recv"}) /\ At(r, "call")
       \/ Calling(r, {"sendrecv"}) /\ At(r, "posted")
    /\ chan[e] # <<>>
    /\ chan' = [chan EXCEPT ![e] = Tail(@)]
    /\ LogReceived(e, Head(chan[e]))
    /\ IF Calling(r, {"recv"}) THEN Return(r) ELSE Goto(r, "received") /\ UNCHANGED calls
    /\ UNCHANGED <<constVars, pmiVars, sent, failed>>

(* MPI_Send may return before the message is received, or may wait.        *)
MpiSent(r) ==
    /\ backend = "mpi"
    /\ \/ Calling(r, {"send"}) /\ At(r, "posted")
       \/ Calling(r, {"sendrecv"}) /\ At(r, "received")
    /\ eager \/ chan[<<r, Peer(r)>>] = <<>>
    /\ Return(r)
    /\ UNCHANGED <<constVars, mpiVars, pmiVars, sent, received, failed>>

(* MPI_Barrier, MPI_Allgather: every rank has entered the same one.        *)
MpiCollective ==
    /\ backend = "mpi"
    /\ \E op \in {"barrier", "allgather"} :
           \A r \in Rank : Calling(r, {op}) /\ At(r, "call")
    /\ calls' = [r \in Rank |-> Tail(calls[r])]
    /\ UNCHANGED <<constVars, pc, mpiVars, pmiVars, sent, received, failed>>

BroadcastKey(r) == <<"bc", coll_epoch[r]>>

(* MPI_Bcast: the root need not wait.                                      *)
MpiBroadcast(r) ==
    /\ backend = "mpi" /\ Calling(r, {"broadcast"}) /\ At(r, "call")
    /\ IF r = Peer(r) THEN kvs' = kvs \cup {[key |-> BroadcastKey(r), val |-> 0]}
       ELSE /\ \E v \in kvs : v.key = BroadcastKey(r)
            /\ UNCHANGED kvs
    /\ coll_epoch' = [coll_epoch EXCEPT ![r] = @ + 1]
    /\ Return(r)
    /\ UNCHANGED <<constVars, mpiVars, staged, p2p_seq, sent, received, failed>>

-----------------------------------------------------------------------------
(* PMI2.  Every call fences; send(), sendrecv(), allgather() and the root  *)
(* of broadcast() put before it.                                           *)
P2pKey(r, e) == <<"p2p", p2p_seq[r][e], e>>
NoNextSeq(r, e) == UNCHANGED p2p_seq
SendersSeq(r, e) == p2p_seq' = [p2p_seq EXCEPT ![r][e] = IF e[1] = r THEN @ + 1 ELSE @]
NextSeq(r, e) == p2p_seq' = [p2p_seq EXCEPT ![r][e] = @ + 1]

Put(r, key, val) ==
    staged' = [staged EXCEPT ![r] = @ \cup {[key |-> key, val |-> val]}]

SyncedByReceiver == {"recv", "sendrecv", "barrier", "allgather", "broadcast"}
Fencing == {"send", "recv", "sendrecv", "barrier", "allgather", "broadcast"}

Pmi2Begin(r) ==
    LET e == <<r, Peer(r)>> IN
    /\ backend = "pmi2" /\ Calling(r, {"send", "recv", "sendrecv", "barrier",
                                       "allgather", "broadcast"})
    /\ At(r, "call")
    /\ Goto(r, IF Calling(r, Fencing) THEN "fence" ELSE "fenced")
    /\ \/ /\ Calling(r, {"send", "sendrecv"})
          /\ Put(r, P2pKey(r, e), Message(e)) /\ NextSeq(r, e) /\ LogSent(e)
       \/ /\ Calling(r, {"allgather"})
          /\ Put(r, <<"ag", coll_epoch[r], r>>, 0) /\ UNCHANGED <<p2p_seq, sent>>
       \/ /\ Calling(r, {"broadcast"}) /\ r = Peer(r)
          /\ Put(r, BroadcastKey(r), 0) /\ UNCHANGED <<p2p_seq, sent>>
       \/ /\ \/ Calling(r, {"recv", "barrier"})
             \/ Calling(r, {"broadcast"}) /\ r # Peer(r)
          /\ UNCHANGED <<staged, p2p_seq, sent>>
    /\ UNCHANGED <<constVars, calls, mpiVars, kvs, coll_epoch, received, failed>>

(* PMI2_KVS_Fence: waits for all, then what was put before is visible.  A  *)
(* later put under the same key takes the place of the earlier one.        *)
Fence ==
    LET new == UNION {staged[r] : r \in Rank} IN
    /\ backend = "pmi2" /\ \A r \in Rank : At(r, "fence")
    /\ kvs' = {v \in kvs : \A w \in new : w.key # v.key} \cup new
    /\ staged' = [r \in Rank |-> {}]
    /\ pc' = [r \in Rank |-> "fenced"]
    /\ UNCHANGED <<constVars, calls, mpiVars, p2p_seq, coll_epoch, sent,
                   received, failed>>

(* The keys the call fetches once it is through the fence.                 *)
Fetched(r) ==
    CASE Calling(r, {"recv", "sendrecv"}) -> {P2pKey(r, <<Peer(r), r>>)}
      [] Calling(r, {"allgather"}) -> {<<"ag", coll_epoch[r], s>> : s \in Rank}
      [] Calling(r, {"broadcast"}) /\ r # Peer(r) -> {BroadcastKey(r)}
      [] OTHER -> {}

(* fetch_blob() throws when KVS_Get does not find the key, and the program *)
(* of that rank is over.                                                   *)
Pmi2End(r) ==
    LET e == <<Peer(r), r>>
        found == {v \in kvs : v.key \in Fetched(r)}
    IN
    /\ backend = "pmi2" /\ At(r, "fenced")
    /\ IF \A key \in Fetched(r) : \E v \in found : v.key = key
       THEN /\ IF Calling(r, {"recv", "sendrecv"})
               THEN NextSeq(r, e) /\ \E v \in found : LogReceived(e, v.val)
               ELSE UNCHANGED <<received, p2p_seq>>
            /\ coll_epoch' = IF Calling(r, {"allgather", "broadcast"})
                             THEN [coll_epoch EXCEPT ![r] = @ + 1] ELSE coll_epoch
            /\ Return(r)
            /\ UNCHANGED failed
       ELSE /\ failed' = failed \cup {r}
            /\ Goto(r, "failed")
            /\ UNCHANGED <<calls, p2p_seq, coll_epoch, received>>
    /\ UNCHANGED <<constVars, mpiVars, staged, kvs, sent>>

-----------------------------------------------------------------------------
BootStep(r) ==
    \/ MpiPost(r) \/ MpiReceive(r) \/ MpiSent(r) \/ MpiBroadcast(r)
    \/ Pmi2Begin(r) \/ Pmi2End(r)

BootTogether == MpiCollective \/ Fence

Returned == \A r \in Rank : calls[r] = <<>>

(* Messages between two ranks arrive in the order they were sent, each     *)
(* once, and recv() returns the one that its send() stands for.            *)
ReceivesInOrder ==
    \A e \in Pair :
        /\ Len(received[e]) <= Len(sent[e])
        /\ \A i \in 1 .. Len(received[e]) : received[e][i] = sent[e][i]
=============================================================================
