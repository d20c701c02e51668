------------------------ MODULE Mlx5Connect_proofs ------------------------
(***************************************************************************)
(* The bootstrap delivers in order, on either back end, and the start-up   *)
(* of the MLX5 backend leaves no constructor before every queue pair is    *)
(* connected, for any number of ranks.                                     *)
(***************************************************************************)
EXTENDS Mlx5Connect, TLAPS

States == {"INIT", "RTR", "RTS"}
CallSet ==
    [op : Fencing \cup {"constructed"}, peer : Rank]
        \cup [op : {"modify"}, peer : Rank, state : States]

TypeInv ==
    /\ backend \in {"mpi", "pmi2"} /\ eager \in BOOLEAN
    /\ calls \in [Rank -> Seq(CallSet)]
    /\ pc \in [Rank -> {"call", "posted", "received", "fence", "fenced", "failed"}]
    /\ chan \in [Pair -> Seq(Nat)]
    /\ sent \in [Pair -> Seq(Nat)] /\ received \in [Pair -> Seq(Nat)]
    /\ DOMAIN staged = Rank
    /\ p2p_seq \in [Rank -> [Pair -> Nat]] /\ coll_epoch \in [Rank -> Nat]
    /\ qp \in [Pair -> {"RST"} \cup States]
    /\ failed \subseteq Rank /\ ready \subseteq Rank

(* Where a rank can be in the first of its calls.                          *)
PcInv(r) ==
    /\ pc[r] = "posted" => Calling(r, {"send", "sendrecv"})
    /\ pc[r] = "received" => Calling(r, {"sendrecv"})
    /\ pc[r] \in {"fence", "fenced", "failed"} => Calling(r, Fencing)
    /\ pc[r] \in {"posted", "received"} => backend = "mpi"
    /\ pc[r] \in {"fence", "fenced", "failed"} => backend = "pmi2"

(* The messages of a pair are numbered, and those received (t) are the     *)
(* first of those sent (s); with MPI the others (c) are under way, in      *)
(* order.                                                                  *)
Counted(s, t) ==
    /\ \A i \in 1 .. Len(s) : s[i] = i
    /\ \A i \in 1 .. Len(t) : t[i] = i
    /\ Len(t) <= Len(s)
UnderWay(s, t, c) ==
    /\ Len(s) = Len(t) + Len(c)
    /\ \A i \in 1 .. Len(c) : c[i] = Len(t) + i

Numbered(a, b) == Counted(sent[<<a, b>>], received[<<a, b>>])

(* Without buffers only the message of the call the rank is in.            *)
Channel(a, b) ==
    /\ UnderWay(sent[<<a, b>>], received[<<a, b>>], chan[<<a, b>>])
    /\ ~eager /\ chan[<<a, b>>] # <<>> =>
           Len(chan[<<a, b>>]) = 1 /\ pc[a] \in {"posted", "received"} /\ Peer(a) = b

(* PMI2: the sequence numbers of both ends, and the entries of the key-    *)
(* value space, each put once under a number of its own.                   *)
SeqInv(a, b) ==
    /\ p2p_seq[a][<<a, b>>] = Len(sent[<<a, b>>])
    /\ a # b => p2p_seq[b][<<a, b>>] = Len(received[<<a, b>>])

Stored(v) == v \in kvs \/ \E r \in Rank : v \in staged[r]
EntryInv ==
    \A v : Stored(v) => \A e \in Pair, k \in Nat :
        v.key = <<"p2p", k, e>> => k < Len(sent[e]) /\ v.val = k + 1

MsgInv ==
    /\ TypeInv
    /\ \A r \in Rank : PcInv(r)
    /\ \A a, b \in Rank : Numbered(a, b)
    /\ backend = "mpi" => \A a, b \in Rank : Channel(a, b)
    /\ backend = "pmi2" => (\A a, b \in Rank : SeqInv(a, b)) /\ EntryInv

-----------------------------------------------------------------------------
(* The programs make well-formed calls.                                    *)

LEMMA RankFacts == N \in Nat \ {0} /\ 0 \in Rank /\ Rank \subseteq Nat
  BY RanksAssumption DEF Rank

LEMMA CallTypes ==
    ASSUME NEW p \in Rank
    PROVE  /\ Send(p) \in CallSet /\ Send(p).op = "send" /\ Send(p).peer = p
           /\ Recv(p) \in CallSet /\ Recv(p).op = "recv" /\ Recv(p).peer = p
           /\ Sendrecv(p) \in CallSet /\ Sendrecv(p).op = "sendrecv"
           /\ Broadcast(p) \in CallSet /\ Broadcast(p).op = "broadcast"
  BY DEF Send, Recv, Sendrecv, Broadcast, Call, CallSet, Fencing

LEMMA ModifyType ==
    ASSUME NEW p \in Rank, NEW s \in States
    PROVE  Modify(p, s) \in CallSet /\ Modify(p, s).op = "modify"
  BY DEF Modify, CallSet

LEMMA OtherCalls ==
    /\ Barrier \in CallSet /\ Barrier.op = "barrier"
    /\ Allgather \in CallSet /\ Allgather.op = "allgather"
    /\ Constructed \in CallSet /\ Constructed.op = "constructed"
  BY RankFacts DEF Barrier, Allgather, Constructed, Call, CallSet, Fencing

(* The peers of a loop are the other ranks, each once.                     *)
LEMMA Peers ==
    ASSUME NEW r \in Rank
    PROVE  /\ \A i \in 1 .. N - 1 : Ascending(r)[i] \in Rank \ {r}
           /\ \A i \in 1 .. N - 1 : Visited(r)[i] \in Rank \ {r}
           /\ \A p \in Rank \ {r} : \E i \in 1 .. N - 1 : Ascending(r)[i] = p
           /\ \A p \in Rank \ {r} : \E i \in 1 .. N - 1 : Visited(r)[i] = p
<1>1. \A i \in 1 .. N - 1 : Ascending(r)[i] \in Rank \ {r}
  BY RankFacts DEF Ascending, Rank
<1>2. ASSUME NEW p \in Rank \ {r} PROVE \E i \in 1 .. N - 1 : Ascending(r)[i] = p
  <2>1. CASE p < r
    <3>1. p + 1 \in 1 .. N - 1 /\ p + 1 <= r /\ (p + 1) - 1 = p
      BY <2>1, RankFacts DEF Rank
    <3> QED BY <3>1 DEF Ascending
  <2>2. CASE r < p
    <3>1. p \in 1 .. N - 1 /\ ~(p <= r)
      BY <2>2, RankFacts DEF Rank
    <3> QED BY <3>1 DEF Ascending
  <2> QED BY <2>1, <2>2, RankFacts DEF Rank
<1>3. \A i \in 1 .. N - 1 : N - i \in 1 .. N - 1 /\ N - (N - i) = i
  BY RankFacts
<1>4. \A i \in 1 .. N - 1 : Visited(r)[i] = Ascending(r)[N - i]
  BY DEF Visited
<1>5. \A i \in 1 .. N - 1 : Visited(r)[i] \in Rank \ {r}
  BY <1>1, <1>3, <1>4
<1>6. ASSUME NEW p \in Rank \ {r} PROVE \E i \in 1 .. N - 1 : Visited(r)[i] = p
  <2>1. PICK i \in 1 .. N - 1 : Ascending(r)[i] = p
    BY <1>2
  <2>2. Visited(r)[N - i] = p
    BY <1>3, <1>4, <2>1
  <2> QED BY <1>3, <2>2
<1> QED BY <1>1, <1>2, <1>5, <1>6

(* An index into a loop of n calls for each peer, and back.                *)
LEMMA LoopIndex ==
    ASSUME NEW n \in {1, 2, 4}, NEW k \in 1 .. n * (N - 1)
    PROVE  /\ ((k - 1) \div n) + 1 \in 1 .. N - 1
           /\ ((k - 1) % n) + 1 \in 1 .. n
  BY RankFacts

LEMMA SequenceOf ==
    ASSUME NEW S, NEW n \in Nat, NEW f \in [1 .. n -> S]
    PROVE  f \in Seq(S) /\ Len(f) = n
  OBVIOUS

LEMMA Bodies ==
    ASSUME NEW p \in Rank
    PROVE  /\ \A j \in 1 .. 4 : /\ Connect(p)[j] \in CallSet
                              /\ Connect(p)[j].op = IF j = 1 THEN "sendrecv" ELSE "modify"
           /\ \A j \in 1 .. 2 : /\ ConnectToPeer(p)[j] \in CallSet
                              /\ ConnectToPeer(p)[j].op = "modify"
           /\ Connect(p)[4] = Modify(p, "RTS") /\ ConnectToPeer(p)[2] = Modify(p, "RTS")
<1>1. /\ Connect(p)[1] = Sendrecv(p) /\ Connect(p)[2] = Modify(p, "INIT")
      /\ Connect(p)[3] = Modify(p, "RTR") /\ Connect(p)[4] = Modify(p, "RTS")
      /\ ConnectToPeer(p)[1] = Modify(p, "RTR") /\ ConnectToPeer(p)[2] = Modify(p, "RTS")
  BY DEF Connect, ConnectToPeer
<1>2. /\ Sendrecv(p) \in CallSet /\ Sendrecv(p).op = "sendrecv"
      /\ \A s \in States : Modify(p, s) \in CallSet /\ Modify(p, s).op = "modify"
      /\ {"INIT", "RTR", "RTS"} \subseteq States
  BY CallTypes, ModifyType DEF States
<1>3. ASSUME NEW j \in 1 .. 4
      PROVE  /\ Connect(p)[j] \in CallSet
             /\ Connect(p)[j].op = IF j = 1 THEN "sendrecv" ELSE "modify"
  <2>1. j = 1 \/ j = 2 \/ j = 3 \/ j = 4
    OBVIOUS
  <2> QED BY <1>1, <1>2, <2>1
<1>4. ASSUME NEW j \in 1 .. 2
      PROVE  ConnectToPeer(p)[j] \in CallSet /\ ConnectToPeer(p)[j].op = "modify"
  <2>1. j = 1 \/ j = 2
    OBVIOUS
  <2> QED BY <1>1, <1>2, <2>1
<1> QED BY <1>1, <1>3, <1>4

(* The loops of the constructors: what they call in which place.           *)
LEMMA ConnectLoop ==
    ASSUME NEW r \in Rank, NEW loop, loop = ForEach(Visited(r), 4, Connect)
    PROVE  /\ loop \in Seq(CallSet) /\ Len(loop) = 4 * (N - 1)
           /\ \A k \in 1 .. Len(loop) :
                  loop[k].op = IF (k - 1) % 4 = 0 THEN "sendrecv" ELSE "modify"
           /\ \A p \in Rank \ {r} : \E k \in 1 .. Len(loop) : loop[k] = Modify(p, "RTS")
<1>1. 4 * (N - 1) \in Nat
  BY RankFacts
<1>2. ASSUME NEW k \in 1 .. 4 * (N - 1)
      PROVE  /\ loop[k] = Connect(Visited(r)[((k - 1) \div 4) + 1])[((k - 1) % 4) + 1]
             /\ Visited(r)[((k - 1) \div 4) + 1] \in Rank
             /\ (k - 1) % 4 \in 0 .. 3
  BY <1>2, LoopIndex, Peers, RankFacts DEF ForEach
<1>3. ASSUME NEW k \in 1 .. 4 * (N - 1)
      PROVE  /\ loop[k] \in CallSet
             /\ loop[k].op = IF (k - 1) % 4 = 0 THEN "sendrecv" ELSE "modify"
  <2>1. PICK p \in Rank, j \in 1 .. 4 : loop[k] = Connect(p)[j] /\ j = ((k - 1) % 4) + 1
    <3>1. ((k - 1) % 4) + 1 \in 1 .. 4
      BY <1>2
    <3> QED BY ONLY <1>2, <3>1
  <2>2. (k - 1) % 4 = 0 <=> j = 1
    BY <2>1, <1>2
  <2>3. /\ Connect(p)[j] \in CallSet
        /\ Connect(p)[j].op = IF j = 1 THEN "sendrecv" ELSE "modify"
    BY Bodies
  <2> QED BY <2>1, <2>2, <2>3
<1>4. loop \in Seq(CallSet) /\ Len(loop) = 4 * (N - 1)
  <2>1. loop = [k \in 1 .. 4 * (N - 1) |-> loop[k]]
    BY DEF ForEach
  <2>2. loop \in [1 .. 4 * (N - 1) -> CallSet]
    BY <1>3, <2>1
  <2> QED BY <1>1, <2>2
<1>5. ASSUME NEW p \in Rank \ {r}
      PROVE  \E k \in 1 .. 4 * (N - 1) : loop[k] = Modify(p, "RTS")
  <2>1. PICK i \in 1 .. N - 1 : Visited(r)[i] = p
    BY Peers
  <2>2. /\ 4 * i \in 1 .. 4 * (N - 1) /\ (4 * i - 1) \div 4 = i - 1
        /\ (4 * i - 1) % 4 = 3 /\ (i - 1) + 1 = i
    BY RankFacts
  <2>3. loop[4 * i] = Connect(p)[4]
    <3>1. PICK k \in 1 .. 4 * (N - 1) : k = 4 * i
      BY <2>2
    <3>2. loop[k] = Connect(Visited(r)[((k - 1) \div 4) + 1])[((k - 1) % 4) + 1]
      BY <1>2
    <3>3. ((k - 1) \div 4) + 1 = i /\ ((k - 1) % 4) + 1 = 4
      BY <2>2, <3>1
    <3>4. loop[k] = Connect(p)[4]
      BY ONLY <2>1, <3>2, <3>3
    <3> QED BY <3>1, <3>4
  <2> QED BY <2>2, <2>3, Bodies
<1> QED BY <1>3, <1>4, <1>5

LEMMA FabricLoops ==
    ASSUME NEW r \in Rank,
           NEW create, create = ForEach(Ascending(r), 1, Create),
           NEW exchange, exchange = ForEach(Ascending(r), 1, Exchange),
           NEW connect, connect = ForEach(Ascending(r), 2, ConnectToPeer)
    PROVE  /\ create \in Seq(CallSet) /\ Len(create) = N - 1
           /\ exchange \in Seq(CallSet) /\ Len(exchange) = N - 1
           /\ connect \in Seq(CallSet) /\ Len(connect) = 2 * (N - 1)
           /\ \A k \in 1 .. Len(create) : create[k].op = "modify"
           /\ \A k \in 1 .. Len(exchange) : exchange[k].op = "sendrecv"
           /\ \A k \in 1 .. Len(connect) : connect[k].op = "modify"
           /\ \A p \in Rank \ {r} : \E k \in 1 .. Len(connect) : connect[k] = Modify(p, "RTS")
<1>1. N - 1 \in Nat /\ 1 * (N - 1) = N - 1 /\ 2 * (N - 1) \in Nat
  BY RankFacts
<1>2. ASSUME NEW k \in 1 .. N - 1
      PROVE  /\ create[k] = Modify(Ascending(r)[k], "INIT")
             /\ exchange[k] = Sendrecv(Ascending(r)[k])
             /\ Ascending(r)[k] \in Rank
  <2>1. ((k - 1) \div 1) + 1 = k /\ ((k - 1) % 1) + 1 = 1
    BY RankFacts
  <2>2. create[k] = Create(Ascending(r)[k])[1] /\ exchange[k] = Exchange(Ascending(r)[k])[1]
    BY <1>1, <2>1 DEF ForEach
  <2> QED BY <2>2, Peers DEF Create, Exchange
<1>3. ASSUME NEW k \in 1 .. N - 1
      PROVE  /\ create[k] \in CallSet /\ create[k].op = "modify"
             /\ exchange[k] \in CallSet /\ exchange[k].op = "sendrecv"
  BY <1>2, CallTypes, ModifyType DEF States
<1>4. ASSUME NEW k \in 1 .. 2 * (N - 1)
      PROVE  connect[k] \in CallSet /\ connect[k].op = "modify"
  <2>1. connect[k] = ConnectToPeer(Ascending(r)[((k - 1) \div 2) + 1])[((k - 1) % 2) + 1]
    BY DEF ForEach
  <2>2. ((k - 1) \div 2) + 1 \in 1 .. N - 1 /\ ((k - 1) % 2) + 1 \in 1 .. 2
    BY ONLY LoopIndex, k \in 1 .. 2 * (N - 1)
  <2>3. PICK p \in Rank, j \in 1 .. 2 : connect[k] = ConnectToPeer(p)[j]
    BY ONLY <2>1, <2>2, Peers, r \in Rank
  <2>4. ConnectToPeer(p)[j] \in CallSet /\ ConnectToPeer(p)[j].op = "modify"
    BY Bodies
  <2> QED BY ONLY <2>3, <2>4
<1>5. /\ create \in Seq(CallSet) /\ Len(create) = N - 1
      /\ exchange \in Seq(CallSet) /\ Len(exchange) = N - 1
  <2>1. /\ create = [k \in 1 .. N - 1 |-> create[k]]
        /\ exchange = [k \in 1 .. N - 1 |-> exchange[k]]
    BY <1>1 DEF ForEach
  <2>2. create \in [1 .. N - 1 -> CallSet] /\ exchange \in [1 .. N - 1 -> CallSet]
    BY <1>3, <2>1
  <2> QED BY ONLY <1>1, <2>2, SequenceOf
<1>6. connect \in Seq(CallSet) /\ Len(connect) = 2 * (N - 1)
  <2>1. connect = [k \in 1 .. 2 * (N - 1) |-> connect[k]]
    BY DEF ForEach
  <2>2. connect \in [1 .. 2 * (N - 1) -> CallSet]
    BY <1>4, <2>1
  <2> QED BY <1>1, <2>2
<1>7. ASSUME NEW p \in Rank \ {r}
      PROVE  \E k \in 1 .. 2 * (N - 1) : connect[k] = Modify(p, "RTS")
  <2>1. PICK i \in 1 .. N - 1 : Ascending(r)[i] = p
    BY Peers
  <2>2. /\ 2 * i \in 1 .. 2 * (N - 1) /\ (2 * i - 1) \div 2 = i - 1
        /\ (2 * i - 1) % 2 = 1 /\ (i - 1) + 1 = i
    BY RankFacts
  <2>3. connect[2 * i] = ConnectToPeer(p)[2]
    BY <2>1, <2>2 DEF ForEach
  <2> QED BY <2>2, <2>3, Bodies
<1> QED BY <1>3, <1>4, <1>5, <1>6, <1>7

(* c is m calls like those of a and then n like those of b.                *)
Joined(a, m, b, n, c) ==
    /\ c \in Seq(CallSet) /\ Len(c) = m + n
    /\ \A k \in 1 .. m : c[k] = a[k]
    /\ \A k \in 1 .. n : c[m + k] = b[k]

LEMMA Concatenation ==
    \A a, b \in Seq(CallSet) : Joined(a, Len(a), b, Len(b), a \o b)
<1> SUFFICES ASSUME NEW a \in Seq(CallSet), NEW b \in Seq(CallSet),
                    NEW c, c = a \o b, NEW m, m = Len(a), NEW n, n = Len(b)
             PROVE  Joined(a, m, b, n, c)
  OBVIOUS
<1>1. m \in Nat /\ n \in Nat
  OBVIOUS
<1>2. c \in Seq(CallSet) /\ Len(c) = m + n
  OBVIOUS
<1>3. \A k \in 1 .. m : c[k] = a[k]
  OBVIOUS
<1>4. ASSUME NEW k \in 1 .. n PROVE c[m + k] = b[k]
  <2>1. m + k \in 1 .. m + n /\ m + k > m /\ (m + k) - m = k
    BY <1>1
  <2> QED BY <2>1
<1> QED BY <1>2, <1>3, <1>4 DEF Joined

(* No queue pair is modified after the last but one collective call, and   *)
(* after the constructor only the last is left.                            *)
WellOrdered(c) ==
    /\ \A i \in 1 .. Len(c) : c[i].op = "modify" =>
           \E j \in i + 1 .. Len(c) - 1 : c[j].op = "barrier"
    /\ \A i \in 1 .. Len(c) : c[i].op = "constructed" => i = Len(c) - 1

(* What a start-up program calls in which place, the same for every rank.  *)
StartUp(program, op) ==
    \A r \in Rank :
        /\ Calls(program, r) \in Seq(CallSet)
        /\ Len(Calls(program, r)) = Len(op)
        /\ \A k \in 1 .. Len(op) : Calls(program, r)[k].op = op[k]
        /\ WellOrdered(Calls(program, r))
        /\ \A p \in Rank \ {r} : \E k \in 1 .. Len(op) :
               Calls(program, r)[k] = Modify(p, "RTS")

LEMMA RuntimeProgram == \E n \in Nat : \E op \in [1 .. n -> Ops] : StartUp("runtime", op)
<1> DEFINE m == 4 * (N - 1)
           op == [k \in 1 .. m + 3 |->
                     IF k <= m THEN IF (k - 1) % 4 = 0 THEN "sendrecv" ELSE "modify"
                     ELSE IF k = m + 1 THEN "barrier"
                     ELSE IF k = m + 2 THEN "constructed" ELSE "allgather"]
<1>1. m \in Nat /\ m + 3 \in Nat
  BY RankFacts
<1>2. op \in [1 .. m + 3 -> Ops] /\ Len(op) = m + 3
  <2> HIDE DEF m
  <2>1. \A k \in 1 .. m + 3 : op[k] \in Ops
    BY DEF Ops, Fencing
  <2>2. op \in [1 .. m + 3 -> Ops]
    BY <2>1
  <2> QED BY ONLY <1>1, <2>2, SequenceOf
<1>3. ASSUME NEW r \in Rank
      PROVE  LET c == Calls("runtime", r) IN
             /\ c \in Seq(CallSet) /\ Len(c) = m + 3
             /\ \A k \in 1 .. m + 3 : c[k].op = op[k]
             /\ \A p \in Rank \ {r} : \E k \in 1 .. m : c[k] = Modify(p, "RTS")
  <2>1. PICK a : a = ForEach(Visited(r), 4, Connect)
    OBVIOUS
  <2>2. PICK b : b = a \o <<Barrier>>
    OBVIOUS
  <2>3. PICK c : c = b \o <<Constructed, Allgather>>
    OBVIOUS
  <2>4. Calls("runtime", r) = c
    BY <2>1, <2>2, <2>3 DEF Calls, Runtime, ConnectPeers
  <2>5. /\ a \in Seq(CallSet) /\ Len(a) = m
        /\ \A k \in 1 .. m : a[k].op = IF (k - 1) % 4 = 0 THEN "sendrecv" ELSE "modify"
        /\ \A p \in Rank \ {r} : \E k \in 1 .. m : a[k] = Modify(p, "RTS")
    BY <2>1, ConnectLoop
  <2>6. /\ <<Barrier>> \in Seq(CallSet) /\ Len(<<Barrier>>) = 1
        /\ <<Constructed, Allgather>> \in Seq(CallSet)
        /\ Len(<<Constructed, Allgather>>) = 2
    BY OtherCalls
  <2> HIDE DEF m, op
  <2>7. /\ b \in Seq(CallSet) /\ Len(b) = m + 1
        /\ \A k \in 1 .. m : b[k] = a[k]
        /\ b[m + 1] = Barrier
    <3>1. Joined(a, Len(a), <<Barrier>>, Len(<<Barrier>>), b)
      BY ONLY <2>2, <2>5, <2>6, Concatenation, Zenon
    <3>2. Joined(a, m, <<Barrier>>, 1, b)
      BY ONLY <3>1, <2>5, <2>6, Zenon
    <3> QED BY ONLY <1>1, <3>2 DEF Joined
  <2>8. /\ c \in Seq(CallSet) /\ Len(c) = m + 3
        /\ \A k \in 1 .. m + 1 : c[k] = b[k]
        /\ c[m + 2] = Constructed /\ c[m + 3] = Allgather
    <3> DEFINE t == <<Constructed, Allgather>>
    <3>1. Joined(b, Len(b), t, Len(t), c)
      BY ONLY <2>3, <2>7, <2>6, Concatenation, Zenon
    <3>2. Joined(b, m + 1, t, 2, c)
      BY ONLY <3>1, <2>6, <2>7, Zenon
    <3> QED BY ONLY <1>1, <3>2 DEF Joined
  <2>9. ASSUME NEW k \in 1 .. m + 3 PROVE c[k].op = op[k]
    <3>1. CASE k <= m
      <4>1. k \in 1 .. m /\ k \in 1 .. m + 1
        BY <1>1, <3>1
      <4>2. c[k] = a[k]
        BY <2>7, <2>8, <4>1
      <4> QED BY <2>5, <3>1, <4>1, <4>2 DEF op
    <3>2. CASE k = m + 1
      BY <1>1, <2>7, <2>8, <3>2, OtherCalls DEF op
    <3>3. CASE k = m + 2 \/ k = m + 3
      BY <1>1, <2>8, <3>3, OtherCalls DEF op
    <3> QED BY <1>1, <3>1, <3>2, <3>3
  <2>10. \A k \in 1 .. m : c[k] = a[k]
    BY <1>1, <2>7, <2>8
  <2> QED BY <2>4, <2>5, <2>8, <2>9, <2>10
<1>4. ASSUME NEW r \in Rank PROVE WellOrdered(Calls("runtime", r))
  <2>1. PICK c : c = Calls("runtime", r)
    OBVIOUS
  <2>2. /\ Len(c) = m + 3 /\ \A k \in 1 .. m + 3 : c[k].op = op[k]
    BY <1>3, <2>1
  <2>3. /\ \A k \in 1 .. m + 3 : op[k] = "modify" => k <= m
        /\ \A k \in 1 .. m + 3 : op[k] = "constructed" => k = m + 2
        /\ op[m + 1] = "barrier"
    BY <1>1
  <2> HIDE DEF m, op
  <2>4. \A i \in 1 .. m + 3 : c[i].op = "modify" => m + 1 \in i + 1 .. (m + 3) - 1
    BY <1>1, <2>2, <2>3
  <2>5. m + 1 \in 1 .. m + 3 /\ c[m + 1].op = "barrier"
    BY <1>1, <2>2, <2>3
  <2>6. \A i \in 1 .. m + 3 : c[i].op = "constructed" => i = (m + 3) - 1
    BY <1>1, <2>2, <2>3
  <2> QED BY <2>1, <2>2, <2>4, <2>5, <2>6 DEF WellOrdered
<1>5. \A k \in 1 .. m : k \in 1 .. m + 3
  BY <1>1
<1> HIDE DEF m, op
<1>6. StartUp("runtime", op)
  BY <1>2, <1>3, <1>4, <1>5 DEF StartUp
<1> QED BY <1>1, <1>2, <1>6

LEMMA FabricProgram == \E n \in Nat : \E op \in [1 .. n -> Ops] : StartUp("fabric", op)
<1>1. PICK n \in Nat : n = N - 1
  BY RankFacts
<1> DEFINE l == 4 * n + 4
           op == [k \in 1 .. l |->
                     IF k <= n THEN "modify"
                     ELSE IF k <= n + n THEN "sendrecv"
                     ELSE IF k = n + n + 1 THEN "barrier"
                     ELSE IF k <= 4 * n + 1 THEN "modify"
                     ELSE IF k = 4 * n + 2 THEN "barrier"
                     ELSE IF k = 4 * n + 3 THEN "constructed" ELSE "allgather"]
<1>2. op \in [1 .. l -> Ops] /\ Len(op) = l /\ l \in Nat
  <2>1. \A k \in 1 .. l : op[k] \in Ops
    BY DEF Ops, Fencing
  <2>2. l \in Nat /\ op \in [1 .. l -> Ops]
    BY <2>1
  <2> QED BY ONLY <2>2, SequenceOf
<1>3. ASSUME NEW r \in Rank
      PROVE  LET c == Calls("fabric", r) IN
             /\ c \in Seq(CallSet) /\ Len(c) = l
             /\ \A k \in 1 .. l : c[k].op = op[k]
             /\ \A p \in Rank \ {r} : \E k \in 1 .. l : c[k] = Modify(p, "RTS")
  <2>1. PICK x1 : x1 = ForEach(Ascending(r), 1, Create)
    OBVIOUS
  <2>2. PICK x2 : x2 = ForEach(Ascending(r), 1, Exchange)
    OBVIOUS
  <2>3. PICK x4 : x4 = ForEach(Ascending(r), 2, ConnectToPeer)
    OBVIOUS
  <2>4. PICK x3 : x3 = <<Barrier>>
    OBVIOUS
  <2>5. PICK x5 : x5 = <<Barrier, Constructed, Allgather>>
    OBVIOUS
  <2>6. PICK y1 : y1 = x1 \o x2
    OBVIOUS
  <2>7. PICK y2 : y2 = y1 \o x3
    OBVIOUS
  <2>8. PICK y3 : y3 = y2 \o x4
    OBVIOUS
  <2>9. PICK c : c = y3 \o x5
    OBVIOUS
  <2>10. Calls("fabric", r) = c
    BY <2>1, <2>2, <2>3, <2>4, <2>5, <2>6, <2>7, <2>8, <2>9 DEF Calls, Fabric
  <2>11. /\ x1 \in Seq(CallSet) /\ Len(x1) = n
         /\ x2 \in Seq(CallSet) /\ Len(x2) = n
         /\ x4 \in Seq(CallSet) /\ Len(x4) = 2 * n
         /\ \A k \in 1 .. n : x1[k].op = "modify"
         /\ \A k \in 1 .. n : x2[k].op = "sendrecv"
         /\ \A k \in 1 .. 2 * n : x4[k].op = "modify"
         /\ \A p \in Rank \ {r} : \E k \in 1 .. 2 * n : x4[k] = Modify(p, "RTS")
    <3>1. /\ x1 \in Seq(CallSet) /\ Len(x1) = N - 1
          /\ x2 \in Seq(CallSet) /\ Len(x2) = N - 1
          /\ x4 \in Seq(CallSet) /\ Len(x4) = 2 * (N - 1)
          /\ \A k \in 1 .. Len(x1) : x1[k].op = "modify"
          /\ \A k \in 1 .. Len(x2) : x2[k].op = "sendrecv"
          /\ \A k \in 1 .. Len(x4) : x4[k].op = "modify"
          /\ \A p \in Rank \ {r} : \E k \in 1 .. Len(x4) : x4[k] = Modify(p, "RTS")
      BY ONLY <2>1, <2>2, <2>3, FabricLoops, r \in Rank
    <3> QED BY ONLY <1>1, <3>1
  <2>12. /\ x3 \in Seq(CallSet) /\ Len(x3) = 1 /\ x3[1] = Barrier
         /\ x5 \in Seq(CallSet) /\ Len(x5) = 3
         /\ x5[1] = Barrier /\ x5[2] = Constructed /\ x5[3] = Allgather
    BY <2>4, <2>5, OtherCalls
  <2>13. Joined(x1, n, x2, n, y1)
    <3>1. Joined(x1, Len(x1), x2, Len(x2), y1)
      BY ONLY <2>6, <2>11, Concatenation, Zenon
    <3> QED BY ONLY <3>1, <2>11, Zenon
  <2>14. Joined(y1, n + n, x3, 1, y2)
    <3>1. y1 \in Seq(CallSet) /\ Len(y1) = n + n
      BY ONLY <2>13 DEF Joined
    <3>2. Joined(y1, Len(y1), x3, Len(x3), y2)
      BY ONLY <2>7, <2>12, <3>1, Concatenation, Zenon
    <3> QED BY ONLY <3>1, <3>2, <2>12, Zenon
  <2>15. Joined(y2, n + n + 1, x4, 2 * n, y3)
    <3>1. y2 \in Seq(CallSet) /\ Len(y2) = n + n + 1
      BY ONLY <2>14 DEF Joined
    <3>2. Joined(y2, Len(y2), x4, Len(x4), y3)
      BY ONLY <2>8, <2>11, <3>1, Concatenation, Zenon
    <3> QED BY ONLY <3>1, <3>2, <2>11, Zenon
  <2>16. Joined(y3, 4 * n + 1, x5, 3, c)
    <3>1. y3 \in Seq(CallSet) /\ Len(y3) = 4 * n + 1
      BY ONLY <1>1, <2>15 DEF Joined
    <3>2. Joined(y3, Len(y3), x5, Len(x5), c)
      BY ONLY <2>9, <2>12, <3>1, Concatenation, Zenon
    <3> QED BY ONLY <3>1, <3>2, <2>12, Zenon
  <2>17. /\ c \in Seq(CallSet) /\ Len(c) = l
         /\ \A k \in 1 .. n : c[k] = x1[k]
         /\ \A k \in 1 .. n : c[n + k] = x2[k]
         /\ c[n + n + 1] = Barrier
         /\ \A k \in 1 .. 2 * n : c[(n + n + 1) + k] = x4[k]
         /\ c[4 * n + 2] = Barrier /\ c[4 * n + 3] = Constructed
         /\ c[4 * n + 4] = Allgather
    <3>1. /\ c \in Seq(CallSet) /\ Len(c) = (4 * n + 1) + 3
          /\ \A k \in 1 .. 4 * n + 1 : c[k] = y3[k]
          /\ c[(4 * n + 1) + 1] = Barrier /\ c[(4 * n + 1) + 2] = Constructed
          /\ c[(4 * n + 1) + 3] = Allgather
      BY ONLY <2>16, <2>12 DEF Joined
    <3>2. /\ \A k \in 1 .. n + n + 1 : y3[k] = y2[k]
          /\ \A k \in 1 .. 2 * n : y3[(n + n + 1) + k] = x4[k]
      BY ONLY <2>15 DEF Joined
    <3>3. (\A k \in 1 .. n + n : y2[k] = y1[k]) /\ y2[n + n + 1] = Barrier
      BY ONLY <2>14, <2>12 DEF Joined
    <3>4. /\ \A k \in 1 .. n : y1[k] = x1[k]
          /\ \A k \in 1 .. n : y1[n + k] = x2[k]
      BY ONLY <2>13 DEF Joined
    <3>5. /\ \A k \in 1 .. n : c[k] = x1[k]
          /\ \A k \in 1 .. n : c[n + k] = x2[k]
          /\ c[n + n + 1] = Barrier
      <4>1. \A k \in 1 .. n + n : c[k] = y1[k]
        <5>1. \A k \in 1 .. n + n : k \in 1 .. n + n + 1 /\ k \in 1 .. 4 * n + 1
          BY <1>1
        <5> QED BY ONLY <5>1, <3>1, <3>2, <3>3
      <4>2. \A k \in 1 .. n : k \in 1 .. n + n /\ n + k \in 1 .. n + n
        BY <1>1
      <4>3. n + n + 1 \in 1 .. n + n + 1 /\ n + n + 1 \in 1 .. 4 * n + 1
        BY <1>1
      <4> QED BY ONLY <4>1, <4>2, <4>3, <3>1, <3>2, <3>3, <3>4
    <3>6. \A k \in 1 .. 2 * n : c[(n + n + 1) + k] = x4[k]
      <4> SUFFICES ASSUME NEW k \in 1 .. 2 * n PROVE c[(n + n + 1) + k] = x4[k]
        OBVIOUS
      <4>1. (n + n + 1) + k \in 1 .. 4 * n + 1
        BY ONLY <1>1, k \in 1 .. 2 * n
      <4> QED BY ONLY <4>1, <3>1, <3>2, k \in 1 .. 2 * n, Zenon
    <3>7. (4 * n + 1) + 1 = 4 * n + 2 /\ (4 * n + 1) + 2 = 4 * n + 3 /\ (4 * n + 1) + 3 = 4 * n + 4
      BY <1>1
    <3> QED BY ONLY <3>1, <3>5, <3>6, <3>7
  <2>18. ASSUME NEW k \in 1 .. l PROVE c[k].op = op[k]
    <3>1. CASE k <= n
      BY <1>1, <2>11, <2>17, <3>1, SMTT(20)
    <3>2. CASE n < k /\ k <= n + n
      <4>1. PICK j \in 1 .. n : k = n + j
        <5>1. k - n \in 1 .. n /\ n + (k - n) = k
          BY <1>1, <3>2
        <5> QED BY <5>1
      <4>2. c[k].op = "sendrecv"
        <5>1. c[n + j] = x2[j] /\ x2[j].op = "sendrecv"
          BY ONLY <2>17, <2>11, j \in 1 .. n
        <5> QED BY ONLY <4>1, <5>1
      <4> QED BY <4>2, <3>2, <1>1
    <3>3. CASE k = n + n + 1
      BY <1>1, <2>17, <3>3, OtherCalls
    <3>4. CASE n + n + 1 < k /\ k <= 4 * n + 1
      <4>1. PICK j \in 1 .. 2 * n : k = (n + n + 1) + j
        <5>1. k - (n + n + 1) \in 1 .. 2 * n /\ (n + n + 1) + (k - (n + n + 1)) = k
          BY <1>1, <3>4
        <5> QED BY <5>1
      <4>2. c[k].op = "modify"
        <5>1. c[(n + n + 1) + j] = x4[j] /\ x4[j].op = "modify"
          BY ONLY <2>17, <2>11, j \in 1 .. 2 * n
        <5> QED BY ONLY <4>1, <5>1
      <4> QED BY <4>2, <3>4, <1>1
    <3>5. CASE k = 4 * n + 2 \/ k = 4 * n + 3 \/ k = 4 * n + 4
      BY <1>1, <2>17, <3>5, OtherCalls, SMTT(20)
    <3> QED BY <1>1, <3>1, <3>2, <3>3, <3>4, <3>5
  <2>19. ASSUME NEW p \in Rank \ {r} PROVE \E k \in 1 .. l : c[k] = Modify(p, "RTS")
    <3>1. PICK k \in 1 .. 2 * n : x4[k] = Modify(p, "RTS")
      BY <2>11
    <3>2. (n + n + 1) + k \in 1 .. l
      BY <1>1
    <3> QED BY ONLY <2>17, <3>1, <3>2
  <2> QED BY <2>10, <2>17, <2>18, <2>19
<1>4. ASSUME NEW r \in Rank PROVE WellOrdered(Calls("fabric", r))
  <2>1. PICK c : c = Calls("fabric", r)
    OBVIOUS
  <2>2. /\ Len(c) = l /\ \A k \in 1 .. l : c[k].op = op[k]
    BY <1>3, <2>1
  <2>3. /\ \A k \in 1 .. l : op[k] = "modify" => k <= 4 * n + 1
        /\ \A k \in 1 .. l : op[k] = "constructed" => k = l - 1
        /\ op[4 * n + 2] = "barrier"
    BY <1>1
  <2>4. 4 * n + 2 \in 1 .. l /\ 4 * n + 2 = l - 2
    BY <1>1
  <2> HIDE DEF op
  <2>5. \A i \in 1 .. l : c[i].op = "modify" => 4 * n + 2 \in i + 1 .. l - 1
    BY <1>1, <2>2, <2>3
  <2>6. c[4 * n + 2].op = "barrier"
    BY ONLY <2>2, <2>3, <2>4
  <2>7. \A i \in 1 .. l : c[i].op = "constructed" => i = l - 1
    BY ONLY <2>2, <2>3
  <2> HIDE DEF l
  <2> QED BY ONLY <2>1, <2>2, <2>5, <2>6, <2>7 DEF WellOrdered
<1> HIDE DEF op, l
<1>5. StartUp("fabric", op)
  BY <1>2, <1>3, <1>4 DEF StartUp
<1> QED BY <1>2, <1>5

(* jacobi's gather and mm_minimal's ring make calls of the bootstrap only. *)
LEMMA OtherPrograms ==
    ASSUME NEW r \in Rank, NEW program \in {"gather", "ring"}
    PROVE  /\ Calls(program, r) \in Seq(CallSet)
           /\ \A i \in 1 .. Len(Calls(program, r)) : Calls(program, r)[i].op # "constructed"
<1> DEFINE BootCalls == [op : Fencing, peer : Rank]
<1>1. \A p \in Rank : /\ Send(p) \in BootCalls /\ Recv(p) \in BootCalls
                      /\ Broadcast(p) \in BootCalls /\ Allgather \in BootCalls
  BY RankFacts DEF Send, Recv, Broadcast, Allgather, Call, Fencing
<1>2. Left(r) \in Rank /\ Right(r) \in Rank /\ 0 \in Rank
  BY RankFacts DEF Left, Right, Rank
<1>3. \A c \in BootCalls : c \in CallSet /\ c.op # "constructed"
  BY DEF CallSet, Fencing
<1> HIDE DEF BootCalls
<1>4. Gather(r) \in Seq(BootCalls)
  <2>1. CASE r = 0
    <3>1. \A i \in 1 .. N - 1 : i \in Rank
      BY RankFacts DEF Rank
    <3>2. PICK s : s = [i \in 1 .. N - 1 |-> Recv(i)]
      OBVIOUS
    <3>3. s \in [1 .. N - 1 -> BootCalls] /\ N - 1 \in Nat
      BY <1>1, <3>1, <3>2, RankFacts
    <3>4. s \in Seq(BootCalls)
      BY ONLY <3>3, SequenceOf
    <3>5. s \o <<Broadcast(0)>> \in Seq(BootCalls)
      BY <1>1, <1>2, <3>4
    <3> QED BY <2>1, <3>2, <3>5 DEF Gather
  <2>2. CASE r # 0
    <3>1. <<Send(0)>> \o <<Broadcast(0)>> \in Seq(BootCalls)
      BY <1>1, <1>2
    <3> QED BY <2>2, <3>1 DEF Gather
  <2> QED BY <2>1, <2>2
<1>5. Ring(r) \in Seq(BootCalls)
  BY <1>1, <1>2 DEF Ring
<1>6. Calls(program, r) \in Seq(BootCalls)
  <2>1. CASE program = "gather"
    <3>1. Gather(r) \o Gather(r) \in Seq(BootCalls)
      BY <1>4
    <3> QED BY <2>1, <3>1 DEF Calls
  <2>2. CASE program = "ring"
    <3>1. PICK s \in Seq(BootCalls) : s = Ring(r)
      BY <1>5
    <3>2. s \o <<Allgather>> \o s \o <<Broadcast(0)>> \in Seq(BootCalls)
      BY <1>1, <1>2
    <3> QED BY <2>2, <3>1, <3>2 DEF Calls
  <2> QED BY <2>1, <2>2
<1>7. \A c \in Seq(BootCalls) : c \in Seq(CallSet) /\ \A i \in 1 .. Len(c) : c[i].op # "constructed"
  BY <1>3
<1> QED BY <1>6, <1>7

-----------------------------------------------------------------------------
(* What one step does to the calls of a rank and to the logs of a pair.    *)

LEMMA AtHead ==
    ASSUME TypeInv, NEW r \in Rank, calls[r] # <<>>
    PROVE  /\ Head(calls[r]) \in CallSet /\ Peer(r) \in Rank
           /\ Tail(calls[r]) \in Seq(CallSet)
           /\ <<r, Peer(r)>> \in Pair /\ <<Peer(r), r>> \in Pair
<1>1. calls[r] \in Seq(CallSet)
  BY DEF TypeInv
<1>2. Head(calls[r]) \in CallSet /\ Tail(calls[r]) \in Seq(CallSet)
  BY <1>1
<1>3. \A c \in CallSet : c.peer \in Rank
  BY DEF CallSet
<1> QED BY <1>2, <1>3 DEF Peer, Pair

LEMMA ReturnStep ==
    ASSUME TypeInv, \A q \in Rank : PcInv(q), NEW r \in Rank, calls[r] # <<>>,
           Return(r), backend' = backend
    PROVE  /\ calls' \in [Rank -> Seq(CallSet)]
           /\ pc' \in [Rank -> {"call", "posted", "received", "fence", "fenced", "failed"}]
           /\ \A q \in Rank : PcInv(q)'
           /\ pc'[r] = "call" /\ calls'[r] = Tail(calls[r])
           /\ \A q \in Rank \ {r} : pc'[q] = pc[q] /\ calls'[q] = calls[q]
<1>1. /\ pc'[r] = "call" /\ calls'[r] = Tail(calls[r])
      /\ \A q \in Rank \ {r} : pc'[q] = pc[q] /\ calls'[q] = calls[q]
  BY DEF TypeInv, Return, Goto
<1>2. calls' \in [Rank -> Seq(CallSet)]
  BY AtHead DEF TypeInv, Return
<1>3. pc' \in [Rank -> {"call", "posted", "received", "fence", "fenced", "failed"}]
  BY DEF TypeInv, Return, Goto
<1>4. ASSUME NEW q \in Rank PROVE PcInv(q)'
  <2>1. CASE q = r
    BY <1>1, <2>1 DEF PcInv
  <2>2. CASE q # r
    BY <1>1, <2>2 DEF PcInv, Calling
  <2> QED BY <2>1, <2>2
<1> QED BY <1>1, <1>2, <1>3, <1>4

LEMMA GotoStep ==
    ASSUME TypeInv, \A q \in Rank : PcInv(q), NEW r \in Rank, NEW label,
           label \in {"posted", "received", "fence", "fenced", "failed"},
           Goto(r, label), calls' = calls, backend' = backend,
           label = "posted" => Calling(r, {"send", "sendrecv"}),
           label = "received" => Calling(r, {"sendrecv"}),
           label \in {"fence", "fenced", "failed"} => Calling(r, Fencing),
           backend = IF label \in {"posted", "received"} THEN "mpi" ELSE "pmi2"
    PROVE  /\ pc' \in [Rank -> {"call", "posted", "received", "fence", "fenced", "failed"}]
           /\ \A q \in Rank : PcInv(q)'
           /\ pc'[r] = label /\ \A q \in Rank \ {r} : pc'[q] = pc[q]
<1>1. pc'[r] = label /\ \A q \in Rank \ {r} : pc'[q] = pc[q]
  BY DEF TypeInv, Goto
<1>2. pc' \in [Rank -> {"call", "posted", "received", "fence", "fenced", "failed"}]
  BY DEF TypeInv, Goto
<1>3. ASSUME NEW q \in Rank PROVE PcInv(q)'
  <2>1. CASE q = r
    BY <1>1, <2>1 DEF PcInv, Calling
  <2>2. CASE q # r
    BY <1>1, <2>2 DEF PcInv, Calling
  <2> QED BY <2>1, <2>2
<1> QED BY <1>1, <1>2, <1>3

LEMMA Appended ==
    ASSUME NEW s \in Seq(Nat), NEW m \in Nat
    PROVE  /\ Append(s, m) \in Seq(Nat) /\ Len(Append(s, m)) = Len(s) + 1
           /\ \A i \in 1 .. Len(s) : Append(s, m)[i] = s[i]
           /\ Append(s, m)[Len(s) + 1] = m /\ Len(s) \in Nat
  OBVIOUS

LEMMA NextSent ==
    ASSUME NEW s \in Seq(Nat), NEW t \in Seq(Nat), Counted(s, t)
    PROVE  Counted(Append(s, Len(s) + 1), t)
<1>1. PICK u : u = Append(s, Len(s) + 1)
  OBVIOUS
<1>2. /\ Len(u) = Len(s) + 1 /\ Len(s) \in Nat /\ Len(t) \in Nat
      /\ \A i \in 1 .. Len(s) : u[i] = s[i]
      /\ u[Len(s) + 1] = Len(s) + 1
  BY <1>1
<1>3. Counted(u, t)
  BY <1>2 DEF Counted
<1> QED BY <1>1, <1>3

LEMMA NextReceived ==
    ASSUME NEW s \in Seq(Nat), NEW t \in Seq(Nat), Counted(s, t), Len(t) < Len(s)
    PROVE  Counted(s, Append(t, Len(t) + 1))
<1>1. PICK u : u = Append(t, Len(t) + 1)
  OBVIOUS
<1>2. /\ Len(u) = Len(t) + 1 /\ Len(s) \in Nat /\ Len(t) \in Nat
      /\ \A i \in 1 .. Len(t) : u[i] = t[i]
      /\ u[Len(t) + 1] = Len(t) + 1
  BY <1>1
<1>3. ASSUME NEW i \in 1 .. Len(u) PROVE u[i] = i
  <2>1. CASE i = Len(t) + 1
    BY <1>2, <2>1
  <2>2. CASE i # Len(t) + 1
    <3>1. i \in 1 .. Len(t)
      BY <1>2, <2>2
    <3> QED BY <1>2, <3>1 DEF Counted
  <2> QED BY <2>1, <2>2
<1>4. Len(u) <= Len(s)
  BY <1>2
<1>5. Counted(s, u)
  BY <1>3, <1>4 DEF Counted
<1> QED BY <1>1, <1>5

LEMMA NextUnderWay ==
    ASSUME NEW s \in Seq(Nat), NEW t \in Seq(Nat), NEW c \in Seq(Nat), UnderWay(s, t, c)
    PROVE  UnderWay(Append(s, Len(s) + 1), t, Append(c, Len(s) + 1))
<1>1. PICK u : u = Append(s, Len(s) + 1)
  OBVIOUS
<1>2. PICK d : d = Append(c, Len(s) + 1)
  OBVIOUS
<1>3. /\ Len(u) = Len(s) + 1 /\ Len(s) \in Nat /\ Len(t) \in Nat /\ Len(c) \in Nat
      /\ Len(d) = Len(c) + 1
      /\ \A i \in 1 .. Len(c) : d[i] = c[i]
      /\ d[Len(c) + 1] = Len(s) + 1
  BY <1>1, <1>2
<1>4. ASSUME NEW i \in 1 .. Len(d) PROVE d[i] = Len(t) + i
  <2>1. CASE i = Len(c) + 1
    BY <1>3, <2>1 DEF UnderWay
  <2>2. CASE i # Len(c) + 1
    <3>1. i \in 1 .. Len(c)
      BY <1>3, <2>2
    <3> QED BY <1>3, <3>1 DEF UnderWay
  <2> QED BY <2>1, <2>2
<1>5. Len(u) = Len(t) + Len(d)
  BY <1>3 DEF UnderWay
<1>6. UnderWay(u, t, d)
  BY <1>4, <1>5 DEF UnderWay
<1> QED BY <1>1, <1>2, <1>6

LEMMA FirstUnderWay ==
    ASSUME NEW s \in Seq(Nat), NEW t \in Seq(Nat), NEW c \in Seq(Nat),
           UnderWay(s, t, c), c # <<>>
    PROVE  /\ Head(c) = Len(t) + 1 /\ Len(t) < Len(s)
           /\ UnderWay(s, Append(t, Len(t) + 1), Tail(c))
           /\ Len(c) = 1 => Tail(c) = <<>>
<1>1. PICK u : u = Append(t, Len(t) + 1)
  OBVIOUS
<1>2. PICK d : d = Tail(c)
  OBVIOUS
<1>3. /\ Len(u) = Len(t) + 1 /\ Len(s) \in Nat /\ Len(t) \in Nat /\ Len(c) \in Nat \ {0}
      /\ Len(d) = Len(c) - 1 /\ Head(c) = c[1]
      /\ \A i \in 1 .. Len(d) : d[i] = c[i + 1]
  BY <1>1, <1>2
<1>4. Head(c) = Len(t) + 1 /\ Len(t) < Len(s) /\ Len(s) = Len(u) + Len(d)
  BY <1>3 DEF UnderWay
<1>5. ASSUME NEW i \in 1 .. Len(d) PROVE d[i] = Len(u) + i
  <2>1. i + 1 \in 1 .. Len(c)
    BY <1>3
  <2> QED BY <1>3, <2>1 DEF UnderWay
<1>6. UnderWay(s, u, d)
  BY <1>4, <1>5 DEF UnderWay
<1>7. Len(c) = 1 => d = <<>>
  <2>1. d \in Seq(Nat)
    BY <1>2
  <2> QED BY <1>3, <2>1
<1> QED BY <1>1, <1>2, <1>4, <1>6, <1>7

LEMMA SentStep ==
    ASSUME sent \in [Pair -> Seq(Nat)], NEW e \in Pair, LogSent(e)
    PROVE  /\ sent' \in [Pair -> Seq(Nat)]
           /\ sent'[e] = Append(sent[e], Len(sent[e]) + 1)
           /\ Len(sent'[e]) = Len(sent[e]) + 1 /\ Len(sent[e]) \in Nat
           /\ \A f \in Pair \ {e} : sent'[f] = sent[f]
<1>1. sent[e] \in Seq(Nat) /\ Message(e) \in Nat /\ Message(e) = Len(sent[e]) + 1
  BY DEF Message
<1>2. sent'[e] = Append(sent[e], Message(e)) /\ \A f \in Pair \ {e} : sent'[f] = sent[f]
  BY DEF LogSent
<1>3. sent' \in [Pair -> Seq(Nat)]
  BY <1>1, Appended DEF LogSent
<1> QED BY <1>1, <1>2, <1>3, Appended

LEMMA ReceivedStep ==
    ASSUME received \in [Pair -> Seq(Nat)], NEW e \in Pair, NEW m \in Nat, LogReceived(e, m)
    PROVE  /\ received' \in [Pair -> Seq(Nat)]
           /\ received'[e] = Append(received[e], m)
           /\ Len(received'[e]) = Len(received[e]) + 1 /\ Len(received[e]) \in Nat
           /\ \A f \in Pair \ {e} : received'[f] = received[f]
<1>1. received[e] \in Seq(Nat)
  OBVIOUS
<1>2. received'[e] = Append(received[e], m) /\ \A f \in Pair \ {e} : received'[f] = received[f]
  BY DEF LogReceived
<1>3. received' \in [Pair -> Seq(Nat)]
  BY <1>1, Appended DEF LogReceived
<1> QED BY <1>1, <1>2, <1>3, Appended

(* Every pair of a log is that of two ranks.                               *)
LEMMA PairOf == \A a, b \in Rank : <<a, b>> \in Pair
  BY DEF Pair

-----------------------------------------------------------------------------
(* The programs start with nothing sent.                                   *)

LEMMA InitJob ==
    Init => \E job \in Jobs :
                backend = job[1] /\ calls = [r \in Rank |-> Calls(job[2], r)]
<1> SUFFICES ASSUME Init
             PROVE  \E job \in Jobs :
                        backend = job[1] /\ calls = [r \in Rank |-> Calls(job[2], r)]
  OBVIOUS
<1>1. PICK j \in {Job(i) : i \in Jobs} : backend = j.backend /\ calls = j.calls
  BY DEF Init, BootInit
<1>2. PICK job \in Jobs : j = Job(job)
  BY <1>1
<1>3. backend = job[1] /\ calls = [r \in Rank |-> Calls(job[2], r)]
  BY <1>1, <1>2 DEF Job
<1> QED BY <1>3

LEMMA InitMessages == Init => MsgInv
<1> SUFFICES ASSUME Init PROVE MsgInv
  OBVIOUS
<1>1. PICK job \in Jobs : backend = job[1] /\ calls = [r \in Rank |-> Calls(job[2], r)]
  BY InitJob
<1>2. job[1] \in {"mpi", "pmi2"} /\ job[2] \in {"runtime", "fabric", "gather", "ring"}
  BY JobsAssumption
<1>3. \A r \in Rank : Calls(job[2], r) \in Seq(CallSet)
  <2>1. CASE job[2] = "runtime"
    BY <2>1, RuntimeProgram DEF StartUp
  <2>2. CASE job[2] = "fabric"
    BY <2>2, FabricProgram DEF StartUp
  <2>3. CASE job[2] \in {"gather", "ring"}
    BY <2>3, OtherPrograms
  <2> QED BY <1>2, <2>1, <2>2, <2>3
<1>4. TypeInv
  <2>1. calls \in [Rank -> Seq(CallSet)]
    BY <1>1, <1>3
  <2>2. chan \in [Pair -> Seq(Nat)] /\ sent \in [Pair -> Seq(Nat)] /\ received \in [Pair -> Seq(Nat)]
    BY DEF Init, BootInit
  <2>3. p2p_seq \in [Rank -> [Pair -> Nat]] /\ coll_epoch \in [Rank -> Nat]
    BY DEF Init, BootInit
  <2>4. /\ DOMAIN staged = Rank
        /\ pc \in [Rank -> {"call", "posted", "received", "fence", "fenced", "failed"}]
        /\ qp \in [Pair -> {"RST"} \cup States]
    BY DEF Init, BootInit
  <2> QED BY <1>1, <1>2, <2>1, <2>2, <2>3, <2>4 DEF Init, BootInit, TypeInv
<1>5. \A r \in Rank : PcInv(r)
  BY DEF Init, BootInit, PcInv
<1>6. \A a, b \in Rank : sent[<<a, b>>] = <<>> /\ received[<<a, b>>] = <<>> /\ chan[<<a, b>>] = <<>>
  BY PairOf DEF Init, BootInit
<1>7. \A a, b \in Rank : Numbered(a, b) /\ Channel(a, b)
  <2>1. Counted(<<>>, <<>>) /\ UnderWay(<<>>, <<>>, <<>>)
    BY DEF Counted, UnderWay
  <2> QED BY <1>6, <2>1 DEF Numbered, Channel
<1>8. \A a, b, c \in Rank : p2p_seq[c][<<a, b>>] = 0
  BY PairOf DEF Init, BootInit
<1>9. \A a, b \in Rank : SeqInv(a, b)
  <2>1. Len(<<>>) = 0
    OBVIOUS
  <2> QED BY ONLY <1>6, <1>8, <2>1 DEF SeqInv
<1>10. EntryInv
  BY DEF Init, BootInit, EntryInv, Stored
<1> QED BY <1>4, <1>5, <1>7, <1>9, <1>10 DEF MsgInv

-----------------------------------------------------------------------------
(* MPI.                                                                    *)

(* A step after which a rank is at its next call leaves the channels of    *)
(* the others as they are, and its own empty unless MPI buffers.           *)
LEMMA StillUnderWay ==
    ASSUME MsgInv, backend = "mpi", NEW r \in Rank, calls[r] # <<>>,
           Return(r), UNCHANGED <<backend, eager, chan, sent, received>>,
           ~eager => \A b \in Rank : chan[<<r, b>>] = <<>>
    PROVE  \A a, b \in Rank : Numbered(a, b)' /\ Channel(a, b)'
<1>1. \A q \in Rank \ {r} : pc'[q] = pc[q] /\ calls'[q] = calls[q]
  BY ReturnStep DEF MsgInv
<1>2. ASSUME NEW a \in Rank, NEW b \in Rank PROVE Numbered(a, b)' /\ Channel(a, b)'
  <2>1. Numbered(a, b) /\ Channel(a, b)
    BY DEF MsgInv
  <2>2. CASE a = r
    BY <2>1, <2>2 DEF Numbered, Channel
  <2>3. CASE a # r
    BY <1>1, <2>1, <2>3 DEF Numbered, Channel, Peer
  <2> QED BY <2>2, <2>3
<1> QED BY <1>2

(* Before its call a rank that MPI does not buffer for has sent nothing    *)
(* that is not received.                                                   *)
LEMMA NothingUnderWay ==
    ASSUME MsgInv, backend = "mpi", ~eager, NEW r \in Rank, NEW b \in Rank,
           pc[r] \in {"posted", "received"} => Peer(r) # b
    PROVE  chan[<<r, b>>] = <<>>
  BY DEF MsgInv, Channel

LEMMA MpiPostStep ==
    ASSUME MsgInv, NEW r \in Rank, MpiPost(r), UNCHANGED <<qp, ready>>
    PROVE  MsgInv'
<1> DEFINE p == Peer(r)
           e == <<r, p>>
<1>1. /\ TypeInv /\ (\A q \in Rank : PcInv(q)) /\ calls[r] # <<>>
      /\ backend = "mpi" /\ pc[r] = "call"
      /\ Calling(r, {"send", "sendrecv"}) /\ LogSent(e) /\ Goto(r, "posted")
      /\ chan' = [chan EXCEPT ![e] = Append(@, Message(e))]
      /\ UNCHANGED <<backend, eager, calls, staged, kvs, p2p_seq, coll_epoch, received, failed>>
  BY DEF MsgInv, MpiPost, At, Calling, constVars, pmiVars
<1>2. p \in Rank /\ e \in Pair
  BY <1>1, AtHead
<1>3. /\ pc' \in [Rank -> {"call", "posted", "received", "fence", "fenced", "failed"}]
      /\ \A q \in Rank : PcInv(q)'
      /\ pc'[r] = "posted" /\ \A q \in Rank \ {r} : pc'[q] = pc[q]
  BY <1>1, GotoStep
<1>4. /\ sent' \in [Pair -> Seq(Nat)]
      /\ sent'[e] = Append(sent[e], Len(sent[e]) + 1)
      /\ \A f \in Pair \ {e} : sent'[f] = sent[f]
  BY <1>1, <1>2, SentStep DEF TypeInv
<1>5. /\ chan[e] \in Seq(Nat) /\ sent[e] \in Seq(Nat) /\ received[e] \in Seq(Nat)
      /\ Message(e) \in Nat /\ Message(e) = Len(sent[e]) + 1
  BY <1>1, <1>2 DEF TypeInv, Message
<1>6. /\ chan' \in [Pair -> Seq(Nat)]
      /\ chan'[e] = Append(chan[e], Len(sent[e]) + 1)
      /\ \A f \in Pair \ {e} : chan'[f] = chan[f]
  <2>1. chan'[e] = Append(chan[e], Message(e)) /\ \A f \in Pair \ {e} : chan'[f] = chan[f]
    BY <1>1, <1>2 DEF TypeInv
  <2>2. chan' \in [Pair -> Seq(Nat)]
    BY <1>1, <1>5, Appended DEF TypeInv
  <2> QED BY <1>5, <2>1, <2>2
<1>7. TypeInv'
  BY <1>1, <1>3, <1>4, <1>6 DEF TypeInv
<1>8. ASSUME NEW a \in Rank, NEW b \in Rank PROVE Numbered(a, b)' /\ Channel(a, b)'
  <2>1. Numbered(a, b) /\ Channel(a, b) /\ <<a, b>> \in Pair
    BY <1>1, PairOf DEF MsgInv
  <2>2. CASE a = r /\ b = p
    <3>1. Counted(sent[e], received[e]) /\ UnderWay(sent[e], received[e], chan[e])
      BY <2>1, <2>2 DEF Numbered, Channel
    <3>2. Counted(sent'[e], received[e]) /\ UnderWay(sent'[e], received[e], chan'[e])
      BY ONLY <1>4, <1>5, <1>6, <3>1, NextSent, NextUnderWay
    <3>3. ~eager => Len(chan'[e]) = 1
      <4>1. ~eager => chan[e] = <<>>
        BY <1>1, <1>2, NothingUnderWay
      <4> QED BY <1>5, <1>6, <4>1
    <3>4. Peer(r)' = p /\ pc'[r] = "posted" /\ received' = received /\ eager' = eager
      BY <1>1, <1>3 DEF Peer
    <3> QED BY <2>2, <3>2, <3>3, <3>4 DEF Numbered, Channel
  <2>3. CASE ~(a = r /\ b = p)
    <3>1. sent'[<<a, b>>] = sent[<<a, b>>] /\ chan'[<<a, b>>] = chan[<<a, b>>]
      BY <1>4, <1>6, <2>1, <2>3 DEF Pair
    <3>2. CASE a = r
      <4>1. ~eager => chan[<<a, b>>] = <<>>
        BY <1>1, <3>2, NothingUnderWay
      <4> QED BY <1>1, <2>1, <3>1, <4>1 DEF Numbered, Channel
    <3>3. CASE a # r
      BY <1>1, <1>3, <2>1, <3>1, <3>3 DEF Numbered, Channel, Peer
    <3> QED BY <3>2, <3>3
  <2> QED BY <2>2, <2>3
<1> QED BY <1>1, <1>3, <1>7, <1>8 DEF MsgInv

LEMMA MpiReceiveStep ==
    ASSUME MsgInv, NEW r \in Rank, MpiReceive(r), UNCHANGED <<qp, ready>>
    PROVE  MsgInv'
<1> DEFINE p == Peer(r)
           e == <<p, r>>
<1>1. /\ TypeInv /\ (\A q \in Rank : PcInv(q)) /\ calls[r] # <<>>
      /\ backend = "mpi" /\ chan[e] # <<>>
      /\ LogReceived(e, Head(chan[e]))
      /\ chan' = [chan EXCEPT ![e] = Tail(@)]
      /\ UNCHANGED <<backend, eager, staged, kvs, p2p_seq, coll_epoch, sent, failed>>
  BY DEF MsgInv, MpiReceive, Calling, constVars, pmiVars
<1>2. p \in Rank /\ e \in Pair
  BY <1>1, AtHead
<1>3. /\ calls' \in [Rank -> Seq(CallSet)]
      /\ pc' \in [Rank -> {"call", "posted", "received", "fence", "fenced", "failed"}]
      /\ \A q \in Rank : PcInv(q)'
      /\ \A q \in Rank \ {r} : pc'[q] = pc[q] /\ calls'[q] = calls[q]
      /\ \/ pc[r] = "call"
         \/ pc'[r] = "received" /\ calls' = calls /\ pc[r] = "posted"
  <2>1. CASE Calling(r, {"recv"})
    <3>1. pc[r] = "call"
      BY <2>1 DEF MpiReceive, Calling, At
    <3>2. Return(r)
      BY <2>1 DEF MpiReceive
    <3> QED BY <1>1, <3>1, <3>2, ReturnStep
  <2>2. CASE ~Calling(r, {"recv"})
    <3>1. /\ Calling(r, {"sendrecv"}) /\ pc[r] = "posted"
          /\ Goto(r, "received") /\ UNCHANGED calls
      BY <2>2 DEF MpiReceive, At
    <3> QED BY <1>1, <3>1, GotoStep DEF TypeInv
  <2> QED BY <2>1, <2>2
<1>4. /\ chan[e] \in Seq(Nat) /\ sent[e] \in Seq(Nat) /\ received[e] \in Seq(Nat)
      /\ Counted(sent[e], received[e]) /\ UnderWay(sent[e], received[e], chan[e])
      /\ ~eager => Len(chan[e]) = 1
  BY <1>1, <1>2 DEF TypeInv, MsgInv, Numbered, Channel
<1>5. /\ Head(chan[e]) = Len(received[e]) + 1 /\ Len(received[e]) < Len(sent[e])
      /\ UnderWay(sent[e], Append(received[e], Len(received[e]) + 1), Tail(chan[e]))
      /\ Len(chan[e]) = 1 => Tail(chan[e]) = <<>>
  BY ONLY <1>1, <1>4, FirstUnderWay
<1>6. Head(chan[e]) \in Nat /\ Tail(chan[e]) \in Seq(Nat)
  BY <1>1, <1>4
<1>7. /\ received' \in [Pair -> Seq(Nat)]
      /\ received'[e] = Append(received[e], Len(received[e]) + 1)
      /\ \A f \in Pair \ {e} : received'[f] = received[f]
  BY <1>1, <1>2, <1>5, <1>6, ReceivedStep DEF TypeInv
<1>8. /\ chan' \in [Pair -> Seq(Nat)] /\ chan'[e] = Tail(chan[e])
      /\ \A f \in Pair \ {e} : chan'[f] = chan[f]
  BY <1>1, <1>2, <1>6 DEF TypeInv
<1>9. TypeInv'
  BY <1>1, <1>3, <1>7, <1>8 DEF TypeInv
<1>10. ASSUME NEW a \in Rank, NEW b \in Rank PROVE Numbered(a, b)' /\ Channel(a, b)'
  <2>1. Numbered(a, b) /\ Channel(a, b) /\ <<a, b>> \in Pair
    BY <1>1, PairOf DEF MsgInv
  <2>2. CASE a = p /\ b = r
    <3>1. Counted(sent[e], received'[e])
      BY <1>4, <1>5, <1>7, NextReceived
    <3>2. UnderWay(sent[e], received'[e], chan'[e]) /\ (~eager => chan'[e] = <<>>)
      BY ONLY <1>4, <1>5, <1>7, <1>8
    <3> QED BY <1>1, <2>2, <3>1, <3>2 DEF Numbered, Channel
  <2>3. CASE ~(a = p /\ b = r)
    <3>1. received'[<<a, b>>] = received[<<a, b>>] /\ chan'[<<a, b>>] = chan[<<a, b>>]
      BY <1>7, <1>8, <2>1, <2>3 DEF Pair
    <3>2. CASE a = r /\ pc[r] = "call"
      <4>1. ~eager => chan[<<a, b>>] = <<>>
        BY <1>1, <3>2, NothingUnderWay
      <4> QED BY <1>1, <2>1, <3>1, <4>1 DEF Numbered, Channel
    <3>3. CASE ~(a = r /\ pc[r] = "call")
      <4>1. pc[a] \in {"posted", "received"} => pc'[a] \in {"posted", "received"} /\ calls'[a] = calls[a]
        BY <1>3, <3>3
      <4> QED BY <1>1, <2>1, <3>1, <4>1 DEF Numbered, Channel, Peer
    <3> QED BY <3>2, <3>3
  <2> QED BY <2>2, <2>3
<1> QED BY <1>1, <1>3, <1>9, <1>10 DEF MsgInv

LEMMA MpiSentStep ==
    ASSUME MsgInv, NEW r \in Rank, MpiSent(r), UNCHANGED <<qp, ready>>
    PROVE  MsgInv'
<1>1. /\ TypeInv /\ (\A q \in Rank : PcInv(q)) /\ calls[r] # <<>>
      /\ backend = "mpi" /\ Return(r)
      /\ eager \/ chan[<<r, Peer(r)>>] = <<>>
      /\ UNCHANGED <<backend, eager, chan, staged, kvs, p2p_seq, coll_epoch, sent, received, failed>>
  BY DEF MsgInv, MpiSent, Calling, constVars, mpiVars, pmiVars
<1>2. ASSUME ~eager, NEW b \in Rank PROVE chan[<<r, b>>] = <<>>
  BY <1>1, <1>2, NothingUnderWay
<1>3. \A a, b \in Rank : Numbered(a, b)' /\ Channel(a, b)'
  BY <1>1, <1>2, StillUnderWay
<1>4. TypeInv' /\ \A q \in Rank : PcInv(q)'
  BY <1>1, ReturnStep DEF TypeInv
<1> QED BY <1>1, <1>3, <1>4 DEF MsgInv

LEMMA MpiBroadcastStep ==
    ASSUME MsgInv, NEW r \in Rank, MpiBroadcast(r), UNCHANGED <<qp, ready>>
    PROVE  MsgInv'
<1>1. /\ TypeInv /\ (\A q \in Rank : PcInv(q)) /\ calls[r] # <<>>
      /\ backend = "mpi" /\ Return(r) /\ pc[r] = "call"
      /\ coll_epoch' = [coll_epoch EXCEPT ![r] = @ + 1]
      /\ UNCHANGED <<backend, eager, chan, staged, p2p_seq, sent, received, failed>>
  BY DEF MsgInv, MpiBroadcast, Calling, At, constVars, mpiVars
<1>2. ASSUME ~eager, NEW b \in Rank PROVE chan[<<r, b>>] = <<>>
  BY <1>1, <1>2, NothingUnderWay
<1>3. \A a, b \in Rank : Numbered(a, b)' /\ Channel(a, b)'
  BY <1>1, <1>2, StillUnderWay
<1>4. TypeInv' /\ \A q \in Rank : PcInv(q)'
  <2>1. coll_epoch' \in [Rank -> Nat]
    BY <1>1 DEF TypeInv
  <2> QED BY <1>1, <2>1, ReturnStep DEF TypeInv
<1> QED BY <1>1, <1>3, <1>4 DEF MsgInv

LEMMA MpiCollectiveStep ==
    ASSUME MsgInv, MpiCollective, UNCHANGED <<qp, ready>>
    PROVE  MsgInv'
<1>1. /\ TypeInv /\ backend = "mpi"
      /\ \A r \in Rank : calls[r] # <<>> /\ pc[r] = "call"
      /\ calls' = [r \in Rank |-> Tail(calls[r])]
      /\ UNCHANGED <<backend, eager, pc, chan, staged, kvs, p2p_seq, coll_epoch, sent, received, failed>>
  BY DEF MsgInv, MpiCollective, Calling, At, constVars, mpiVars, pmiVars
<1>2. calls' \in [Rank -> Seq(CallSet)]
  BY <1>1, AtHead
<1>3. \A r \in Rank : PcInv(r)'
  BY <1>1 DEF PcInv
<1>4. ASSUME NEW a \in Rank, NEW b \in Rank PROVE Numbered(a, b)' /\ Channel(a, b)'
  <2>1. ~eager => chan[<<a, b>>] = <<>>
    BY <1>1, NothingUnderWay
  <2> QED BY <1>1, <2>1 DEF MsgInv, Numbered, Channel
<1> QED BY <1>1, <1>2, <1>3, <1>4 DEF MsgInv, TypeInv

(* ibv_modify_qp() and the end of a constructor are no steps of the        *)
(* bootstrap.                                                              *)
LEMMA OwnStep ==
    ASSUME MsgInv, NEW r \in Rank, ModifyQp(r) \/ Construct(r)
    PROVE  MsgInv'
<1>1. /\ TypeInv /\ (\A q \in Rank : PcInv(q)) /\ calls[r] # <<>> /\ Return(r)
      /\ Head(calls[r]).op \in {"modify", "constructed"}
      /\ UNCHANGED <<backend, eager, chan, staged, kvs, p2p_seq, coll_epoch, sent, received, failed>>
  BY DEF MsgInv, ModifyQp, Construct, Calling, constVars, mpiVars, pmiVars
<1>2. pc[r] = "call"
  <2>1. ~Calling(r, {"send", "sendrecv"}) /\ ~Calling(r, {"sendrecv"}) /\ ~Calling(r, Fencing)
    BY <1>1 DEF Calling, Fencing
  <2>2. pc[r] \in {"call", "posted", "received", "fence", "fenced", "failed"}
    BY <1>1 DEF TypeInv
  <2> QED BY <1>1, <2>1, <2>2 DEF PcInv
<1>3. /\ calls' \in [Rank -> Seq(CallSet)]
      /\ pc' \in [Rank -> {"call", "posted", "received", "fence", "fenced", "failed"}]
      /\ \A q \in Rank : PcInv(q)'
  BY <1>1, ReturnStep
<1>4. qp' \in [Pair -> {"RST"} \cup States] /\ ready' \subseteq Rank
  <2>1. CASE ModifyQp(r)
    <3>1. Head(calls[r]).state \in States
      <4>1. Head(calls[r]) \in CallSet
        BY <1>1, AtHead
      <4>2. Head(calls[r]).op = "modify"
        BY <2>1 DEF ModifyQp, Calling
      <4> QED BY <4>1, <4>2 DEF CallSet, Fencing
    <3> QED BY <1>1, <2>1, <3>1 DEF TypeInv, ModifyQp
  <2>2. CASE Construct(r)
    BY <1>1, <2>2 DEF TypeInv, Construct
  <2> QED BY <2>1, <2>2
<1>5. TypeInv'
  BY <1>1, <1>3, <1>4 DEF TypeInv
<1>6. backend = "mpi" => \A a, b \in Rank : Numbered(a, b)' /\ Channel(a, b)'
  <2> SUFFICES ASSUME backend = "mpi" PROVE \A a, b \in Rank : Numbered(a, b)' /\ Channel(a, b)'
    OBVIOUS
  <2>1. ASSUME ~eager, NEW b \in Rank PROVE chan[<<r, b>>] = <<>>
    BY <1>2, <2>1, NothingUnderWay
  <2> QED BY <1>1, <2>1, StillUnderWay
<1>7. \A a, b \in Rank : Numbered(a, b)'
  BY <1>1 DEF MsgInv, Numbered
<1>8. backend = "pmi2" => (\A a, b \in Rank : SeqInv(a, b)') /\ EntryInv'
  BY <1>1 DEF MsgInv, SeqInv, EntryInv, Stored
<1> QED BY <1>1, <1>3, <1>5, <1>6, <1>7, <1>8 DEF MsgInv

-----------------------------------------------------------------------------
(* PMI2.                                                                   *)

LEMMA Keys ==
    /\ \A k, e, x, y : <<"ag", x, y>> # <<"p2p", k, e>>
    /\ \A k, e, x : <<"bc", x>> # <<"p2p", k, e>>
    /\ \A k, e, l, f : <<"p2p", k, e>> = <<"p2p", l, f>> => k = l /\ e = f
  OBVIOUS

(* A step that puts nothing under a key of a message keeps the entries.    *)
LEMMA EntriesKept ==
    ASSUME TypeInv, EntryInv, sent' = sent,
           \A v : Stored(v)' => Stored(v) \/ \A k \in Nat, e \in Pair : v.key # <<"p2p", k, e>>
    PROVE  EntryInv'
  BY DEF EntryInv

LEMMA StagedStep ==
    ASSUME TypeInv, NEW r \in Rank, NEW key, NEW val, Put(r, key, val), kvs' = kvs
    PROVE  /\ DOMAIN staged' = Rank
           /\ \A v : Stored(v)' => Stored(v) \/ v = [key |-> key, val |-> val]
  BY DEF TypeInv, Put, Stored

LEMMA Pmi2BeginStep ==
    ASSUME MsgInv, NEW r \in Rank, Pmi2Begin(r), UNCHANGED <<qp, ready>>
    PROVE  MsgInv'
<1> DEFINE p == Peer(r)
           e == <<r, p>>
<1>1. /\ TypeInv /\ (\A q \in Rank : PcInv(q)) /\ calls[r] # <<>> /\ EntryInv
      /\ backend = "pmi2" /\ Calling(r, Fencing) /\ Goto(r, "fence")
      /\ UNCHANGED <<backend, eager, calls, chan, kvs, coll_epoch, received, failed>>
  BY DEF MsgInv, Pmi2Begin, Calling, constVars, mpiVars, Fencing
<1>2. p \in Rank /\ e \in Pair
  BY <1>1, AtHead
<1>3. /\ pc' \in [Rank -> {"call", "posted", "received", "fence", "fenced", "failed"}]
      /\ \A q \in Rank : PcInv(q)'
  BY <1>1, GotoStep
<1>4. \A a, b \in Rank : Numbered(a, b) /\ SeqInv(a, b)
  BY <1>1 DEF MsgInv
<1>5. CASE Calling(r, {"send", "sendrecv"})
  <2>1. Put(r, P2pKey(r, e), Message(e)) /\ NextSeq(r, e) /\ LogSent(e)
    BY <1>5 DEF Pmi2Begin, Calling
  <2>2. /\ sent' \in [Pair -> Seq(Nat)] /\ Len(sent[e]) \in Nat
        /\ sent'[e] = Append(sent[e], Len(sent[e]) + 1)
        /\ Len(sent'[e]) = Len(sent[e]) + 1
        /\ \A f \in Pair \ {e} : sent'[f] = sent[f]
    BY <1>1, <1>2, <2>1, SentStep DEF TypeInv
  <2>3. /\ p2p_seq' \in [Rank -> [Pair -> Nat]] /\ p2p_seq'[r][e] = p2p_seq[r][e] + 1
        /\ \A q \in Rank, f \in Pair : ~(q = r /\ f = e) => p2p_seq'[q][f] = p2p_seq[q][f]
    BY <1>1, <1>2, <2>1 DEF TypeInv, NextSeq
  <2>4. /\ DOMAIN staged' = Rank
        /\ \A v : Stored(v)' => Stored(v) \/ v = [key |-> P2pKey(r, e), val |-> Message(e)]
    BY <1>1, <2>1, StagedStep
  <2>5. TypeInv'
    BY <1>1, <1>3, <2>2, <2>3, <2>4 DEF TypeInv
  <2>6. ASSUME NEW a \in Rank, NEW b \in Rank PROVE Numbered(a, b)' /\ SeqInv(a, b)'
    <3>1. <<a, b>> \in Pair
      BY PairOf
    <3>2. CASE a = r /\ b = p
      <4>1. sent[e] \in Seq(Nat) /\ received[e] \in Seq(Nat) /\ Counted(sent[e], received[e])
        BY <1>1, <1>2, <1>4, <3>2 DEF TypeInv, Numbered
      <4>2. Counted(sent'[e], received[e])
        BY <2>2, <4>1, NextSent
      <4>3. p2p_seq[r][e] = Len(sent[e]) /\ (r # p => p2p_seq[p][e] = Len(received[e]))
        BY <1>2, <1>4 DEF SeqInv
      <4>4. p2p_seq'[r][e] = Len(sent'[e])
        BY <2>2, <2>3, <4>3
      <4>5. r # p => p2p_seq'[p][e] = Len(received[e])
        BY <1>2, <2>3, <4>3
      <4> QED BY <1>1, <3>2, <4>2, <4>4, <4>5 DEF Numbered, SeqInv
    <3>3. CASE ~(a = r /\ b = p)
      <4>1. <<a, b>> # e
        BY <3>3
      <4>2. /\ sent'[<<a, b>>] = sent[<<a, b>>] /\ received' = received
            /\ p2p_seq'[a][<<a, b>>] = p2p_seq[a][<<a, b>>]
            /\ p2p_seq'[b][<<a, b>>] = p2p_seq[b][<<a, b>>]
        BY <1>1, <2>2, <2>3, <3>1, <4>1
      <4>3. Numbered(a, b) /\ SeqInv(a, b)
        BY <1>4
      <4> QED BY ONLY <4>2, <4>3, Zenon DEF Numbered, SeqInv
    <3> QED BY <3>2, <3>3
  <2>7. EntryInv'
    <3> SUFFICES ASSUME NEW v, Stored(v)', NEW f \in Pair, NEW k \in Nat, v.key = <<"p2p", k, f>>
                 PROVE  k < Len(sent'[f]) /\ v.val = k + 1
      BY DEF EntryInv
    <3>1. CASE Stored(v)
      <4>1. k < Len(sent[f]) /\ v.val = k + 1
        BY <1>1, <3>1 DEF EntryInv
      <4>2. sent[f] \in Seq(Nat)
        BY <1>1 DEF TypeInv
      <4>3. Len(sent[f]) <= Len(sent'[f])
        <5>1. CASE f = e
          BY <2>2, <5>1
        <5>2. CASE f # e
          <6>1. sent'[f] = sent[f] /\ Len(sent[f]) \in Nat
            BY <2>2, <4>2, <5>2
          <6> QED BY <6>1
        <5> QED BY <5>1, <5>2
      <4>4. Len(sent'[f]) \in Nat /\ Len(sent[f]) \in Nat
        BY <2>2, <4>2
      <4> QED BY <4>1, <4>3, <4>4
    <3>2. CASE v = [key |-> P2pKey(r, e), val |-> Message(e)]
      <4>1. <<"p2p", k, f>> = <<"p2p", p2p_seq[r][e], e>> /\ v.val = Len(sent[e]) + 1
        BY <3>2 DEF P2pKey, Message
      <4>2. k = p2p_seq[r][e] /\ f = e
        BY ONLY <4>1, Keys
      <4>3. p2p_seq[r][e] = Len(sent[e])
        BY <1>2, <1>4 DEF SeqInv
      <4> QED BY <2>2, <4>1, <4>2, <4>3
    <3> QED BY <2>4, <3>1, <3>2
  <2> QED BY <1>1, <1>3, <2>5, <2>6, <2>7 DEF MsgInv
<1>6. CASE ~Calling(r, {"send", "sendrecv"})
  <2>1. sent' = sent /\ p2p_seq' = p2p_seq
    BY <1>6 DEF Pmi2Begin
  <2>2. /\ DOMAIN staged' = Rank
        /\ \A v : Stored(v)' => Stored(v) \/ \A k \in Nat, f \in Pair : v.key # <<"p2p", k, f>>
    <3>1. CASE Put(r, <<"ag", coll_epoch[r], r>>, 0)
      <4>1. /\ DOMAIN staged' = Rank
            /\ \A v : Stored(v)' => Stored(v) \/ v = [key |-> <<"ag", coll_epoch[r], r>>, val |-> 0]
        BY <1>1, <3>1, StagedStep
      <4> QED BY <4>1, Keys
    <3>2. CASE Put(r, BroadcastKey(r), 0)
      <4>1. /\ DOMAIN staged' = Rank
            /\ \A v : Stored(v)' => Stored(v) \/ v = [key |-> BroadcastKey(r), val |-> 0]
        BY <1>1, <3>2, StagedStep
      <4> QED BY <4>1, Keys DEF BroadcastKey
    <3>3. CASE UNCHANGED staged
      BY <1>1, <3>3 DEF Stored, TypeInv
    <3> QED BY <1>6, <3>1, <3>2, <3>3 DEF Pmi2Begin
  <2>3. EntryInv'
    BY <1>1, <2>1, <2>2, EntriesKept
  <2>4. TypeInv'
    BY <1>1, <1>3, <2>1, <2>2 DEF TypeInv
  <2>5. \A a, b \in Rank : Numbered(a, b)' /\ SeqInv(a, b)'
    BY <1>1, <1>4, <2>1 DEF Numbered, SeqInv
  <2> QED BY <1>1, <1>3, <2>3, <2>4, <2>5 DEF MsgInv
<1> QED BY <1>5, <1>6

LEMMA FenceStep ==
    ASSUME MsgInv, Fence, UNCHANGED <<qp, ready>>
    PROVE  MsgInv'
<1>1. /\ TypeInv /\ backend = "pmi2" /\ EntryInv
      /\ \A r \in Rank : PcInv(r) /\ pc[r] = "fence"
      /\ staged' = [r \in Rank |-> {}] /\ pc' = [r \in Rank |-> "fenced"]
      /\ UNCHANGED <<backend, eager, calls, chan, p2p_seq, coll_epoch, sent, received, failed>>
  BY DEF MsgInv, Fence, At, constVars, mpiVars
<1>2. TypeInv'
  BY <1>1 DEF TypeInv
<1>3. \A r \in Rank : PcInv(r)'
  BY <1>1 DEF PcInv, Calling
<1>4. \A a, b \in Rank : Numbered(a, b)' /\ SeqInv(a, b)'
  BY <1>1 DEF MsgInv, Numbered, SeqInv
<1>5. EntryInv'
  <2>1. ASSUME NEW v, v \in kvs' PROVE Stored(v)
    BY <2>1 DEF Fence, Stored
  <2>2. \A v : Stored(v)' => Stored(v)
    BY <1>1, <2>1 DEF Stored
  <2> QED BY <1>1, <2>2, EntriesKept
<1> QED BY <1>1, <1>2, <1>3, <1>4, <1>5 DEF MsgInv

LEMMA Pmi2EndStep ==
    ASSUME MsgInv, NEW r \in Rank, Pmi2End(r), UNCHANGED <<qp, ready>>
    PROVE  MsgInv'
<1> DEFINE p == Peer(r)
           e == <<p, r>>
           found == {v \in kvs : v.key \in Fetched(r)}
           Success == \A key \in Fetched(r) : \E v \in found : v.key = key
<1>1. /\ TypeInv /\ (\A q \in Rank : PcInv(q)) /\ EntryInv
      /\ backend = "pmi2" /\ pc[r] = "fenced"
      /\ UNCHANGED <<backend, eager, chan, staged, kvs, sent>>
  BY DEF MsgInv, Pmi2End, At, constVars, mpiVars
<1>2. Calling(r, Fencing) /\ calls[r] # <<>>
  BY <1>1 DEF PcInv, Calling
<1>3. p \in Rank /\ e \in Pair
  BY <1>1, <1>2, AtHead
<1>4. \A a, b \in Rank : Numbered(a, b) /\ SeqInv(a, b)
  BY <1>1 DEF MsgInv
<1>5. EntryInv'
  <2>1. \A v : Stored(v)' => Stored(v)
    BY <1>1 DEF Stored
  <2> QED BY <1>1, <2>1, EntriesKept
<1>6. CASE ~Success
  <2>1. /\ Goto(r, "failed") /\ failed' = failed \cup {r}
        /\ UNCHANGED <<calls, p2p_seq, coll_epoch, received>>
    BY <1>6 DEF Pmi2End
  <2>2. /\ pc' \in [Rank -> {"call", "posted", "received", "fence", "fenced", "failed"}]
        /\ \A q \in Rank : PcInv(q)'
    BY <1>1, <1>2, <2>1, GotoStep
  <2>3. TypeInv'
    BY <1>1, <2>1, <2>2 DEF TypeInv
  <2>4. \A a, b \in Rank : Numbered(a, b)' /\ SeqInv(a, b)'
    BY <1>1, <1>4, <2>1 DEF Numbered, SeqInv
  <2> QED BY <1>1, <1>5, <2>2, <2>3, <2>4 DEF MsgInv
<1>7. CASE Success
  <2>1. /\ Return(r) /\ failed' = failed
        /\ IF Calling(r, {"recv", "sendrecv"})
           THEN NextSeq(r, e) /\ \E v \in found : LogReceived(e, v.val)
           ELSE UNCHANGED <<received, p2p_seq>>
        /\ coll_epoch' = IF Calling(r, {"allgather", "broadcast"})
                         THEN [coll_epoch EXCEPT ![r] = @ + 1] ELSE coll_epoch
    BY <1>7 DEF Pmi2End
  <2>2. /\ calls' \in [Rank -> Seq(CallSet)]
        /\ pc' \in [Rank -> {"call", "posted", "received", "fence", "fenced", "failed"}]
        /\ \A q \in Rank : PcInv(q)'
    BY <1>1, <1>2, <2>1, ReturnStep
  <2>3. coll_epoch' \in [Rank -> Nat]
    BY <1>1, <2>1 DEF TypeInv
  <2>4. CASE Calling(r, {"recv", "sendrecv"})
    <3>1. PICK v \in found : LogReceived(e, v.val)
      BY <2>1, <2>4
    <3>2. Fetched(r) = {P2pKey(r, e)}
      <4>1. ~Calling(r, {"allgather"}) /\ ~Calling(r, {"broadcast"})
        BY <2>4 DEF Calling
      <4> QED BY <2>4, <4>1 DEF Fetched
    <3>3. v \in kvs /\ v.key = <<"p2p", p2p_seq[r][e], e>>
      BY <3>1, <3>2 DEF P2pKey
    <3>4. p2p_seq[r][e] \in Nat
      BY <1>1, <1>3 DEF TypeInv
    <3>5. p2p_seq[r][e] < Len(sent[e]) /\ v.val = p2p_seq[r][e] + 1
      BY <1>1, <1>3, <3>3, <3>4 DEF EntryInv, Stored
    <3>6. p # r
      <4> SUFFICES ASSUME p = r PROVE FALSE
        OBVIOUS
      <4>1. p2p_seq[r][e] = Len(sent[e])
        BY <1>3, <1>4 DEF SeqInv
      <4> QED BY <3>4, <3>5, <4>1
    <3>7. p2p_seq[r][e] = Len(received[e]) /\ p2p_seq[p][e] = Len(sent[e])
      BY <1>3, <1>4, <3>6 DEF SeqInv
    <3>8. /\ received' \in [Pair -> Seq(Nat)]
          /\ received'[e] = Append(received[e], Len(received[e]) + 1)
          /\ Len(received'[e]) = Len(received[e]) + 1
          /\ \A f \in Pair \ {e} : received'[f] = received[f]
      <4>1. v.val = Len(received[e]) + 1 /\ v.val \in Nat
        BY <3>4, <3>5, <3>7
      <4> QED BY <1>1, <1>3, <3>1, <4>1, ReceivedStep DEF TypeInv
    <3>9. NextSeq(r, e)
      BY <2>1, <2>4
    <3>10. /\ p2p_seq' \in [Rank -> [Pair -> Nat]] /\ p2p_seq'[r][e] = p2p_seq[r][e] + 1
           /\ \A q \in Rank, f \in Pair : ~(q = r /\ f = e) => p2p_seq'[q][f] = p2p_seq[q][f]
      BY <1>1, <1>3, <3>9 DEF TypeInv, NextSeq
    <3>11. TypeInv'
      BY <1>1, <2>1, <2>2, <2>3, <3>8, <3>10 DEF TypeInv
    <3>12. ASSUME NEW a \in Rank, NEW b \in Rank PROVE Numbered(a, b)' /\ SeqInv(a, b)'
      <4>1. <<a, b>> \in Pair
        BY PairOf
      <4>2. CASE a = p /\ b = r
        <5>1. sent[e] \in Seq(Nat) /\ received[e] \in Seq(Nat) /\ Counted(sent[e], received[e])
          BY <1>1, <1>3, <1>4, <4>2 DEF TypeInv, Numbered
        <5>2. Counted(sent[e], received'[e])
          BY <3>5, <3>7, <3>8, <5>1, NextReceived
        <5>3. p2p_seq'[r][e] = Len(received'[e])
          BY <3>7, <3>8, <3>10
        <5>4. p2p_seq'[p][e] = Len(sent[e])
          BY <1>3, <3>6, <3>7, <3>10
        <5> QED BY <1>1, <4>2, <5>2, <5>3, <5>4 DEF Numbered, SeqInv
      <4>3. CASE ~(a = p /\ b = r)
        <5>1. <<a, b>> # e
          BY <4>3
        <5>2. /\ received'[<<a, b>>] = received[<<a, b>>] /\ sent' = sent
              /\ p2p_seq'[a][<<a, b>>] = p2p_seq[a][<<a, b>>]
              /\ p2p_seq'[b][<<a, b>>] = p2p_seq[b][<<a, b>>]
          BY <1>1, <3>8, <3>10, <4>1, <5>1
        <5>3. Numbered(a, b) /\ SeqInv(a, b)
          BY <1>4
        <5> QED BY ONLY <5>2, <5>3, Zenon DEF Numbered, SeqInv
      <4> QED BY <4>2, <4>3
    <3> QED BY <1>1, <1>5, <2>2, <3>11, <3>12 DEF MsgInv
  <2>5. CASE ~Calling(r, {"recv", "sendrecv"})
    <3>1. received' = received /\ p2p_seq' = p2p_seq
      BY <2>1, <2>5
    <3>2. TypeInv'
      BY <1>1, <2>1, <2>2, <2>3, <3>1 DEF TypeInv
    <3>3. \A a, b \in Rank : Numbered(a, b)' /\ SeqInv(a, b)'
      BY <1>1, <1>4, <3>1 DEF Numbered, SeqInv
    <3> QED BY <1>1, <1>5, <2>2, <3>2, <3>3 DEF MsgInv
  <2> QED BY <2>4, <2>5
<1> QED BY <1>6, <1>7

-----------------------------------------------------------------------------
(* Every reachable state is counted and typed.                             *)

LEMMA NextMessages == MsgInv /\ [Next]_vars => MsgInv'
<1> SUFFICES ASSUME MsgInv, [Next]_vars PROVE MsgInv'
  OBVIOUS
<1>1. ASSUME NEW r \in Rank, BootStep(r), UNCHANGED <<qp, ready>> PROVE MsgInv'
  BY <1>1, MpiPostStep, MpiReceiveStep, MpiSentStep, MpiBroadcastStep, Pmi2BeginStep,
     Pmi2EndStep DEF BootStep
<1>2. ASSUME NEW r \in Rank, ModifyQp(r) \/ Construct(r) PROVE MsgInv'
  BY <1>2, OwnStep
<1>3. CASE Together
  BY <1>3, MpiCollectiveStep, FenceStep DEF Together, BootTogether
<1>4. CASE UNCHANGED vars
  <2>1. TypeInv'
    BY <1>4 DEF vars, bootVars, MsgInv, TypeInv
  <2>2. \A r \in Rank : PcInv(r)'
    BY <1>4 DEF vars, bootVars, MsgInv, PcInv, Calling
  <2>3. \A a, b \in Rank : Numbered(a, b)' /\ (backend = "mpi" => Channel(a, b)')
    BY <1>4 DEF vars, bootVars, MsgInv, Numbered, Channel, Peer
  <2>4. backend = "pmi2" => (\A a, b \in Rank : SeqInv(a, b)') /\ EntryInv'
    BY <1>4 DEF vars, bootVars, MsgInv, SeqInv, EntryInv, Stored
  <2> QED BY <1>4, <2>1, <2>2, <2>3, <2>4 DEF vars, bootVars, MsgInv
<1> QED BY <1>1, <1>2, <1>3, <1>4 DEF Next, Step, Finished

(* What a state satisfies on the way from call to call, on either back     *)
(* end.                                                                    *)
THEOREM Messages == Spec => []MsgInv
  BY InitMessages, NextMessages, PTL DEF Spec

LEMMA MessagesTyped == MsgInv => TypeOK
<1> SUFFICES ASSUME MsgInv PROVE TypeOK
  OBVIOUS
<1>1. TypeInv
  BY DEF MsgInv
<1>2. ASSUME NEW r \in Rank, NEW i \in 1 .. Len(calls[r]) PROVE calls[r][i].op \in Ops
  <2>1. calls[r][i] \in CallSet
    BY <1>1 DEF TypeInv
  <2> QED BY <2>1 DEF CallSet, Ops
<1>3. ASSUME NEW e \in Pair, backend = "mpi"
      PROVE  Len(sent[e]) = Len(received[e]) + Len(chan[e]) /\ (~eager => Len(chan[e]) <= 1)
  <2>1. PICK a \in Rank, b \in Rank : e = <<a, b>>
    BY DEF Pair
  <2>2. Channel(a, b)
    BY <1>3 DEF MsgInv
  <2>3. chan[e] = <<>> => Len(chan[e]) = 0
    OBVIOUS
  <2> QED BY <2>1, <2>2, <2>3 DEF Channel, UnderWay
<1>4. ASSUME NEW r \in Rank, NEW p \in Rank \ {r}, backend = "pmi2"
      PROVE  /\ p2p_seq[r][<<r, p>>] = Len(sent[<<r, p>>])
             /\ p2p_seq[r][<<p, r>>] = Len(received[<<p, r>>])
  BY <1>4 DEF MsgInv, SeqInv
<1>5. qp \in [Pair -> {"RST", "INIT", "RTR", "RTS"}]
  BY <1>1 DEF TypeInv, States
<1> QED BY <1>1, <1>2, <1>3, <1>4, <1>5 DEF TypeOK, TypeInv

(* Type correctness, with the count of the messages under way and of the   *)
(* sequence numbers, for any number of ranks (bootstrap_mpi.hpp,           *)
(* bootstrap_pmi2.hpp, mlx5_runtime.hpp).                                  *)
THEOREM TypeCorrect == Spec => []TypeOK
  BY Messages, MessagesTyped, PTL

LEMMA MessagesOrdered == MsgInv => ReceivesInOrder
<1> SUFFICES ASSUME MsgInv, NEW e \in Pair
             PROVE  /\ Len(received[e]) <= Len(sent[e])
                    /\ \A i \in 1 .. Len(received[e]) : received[e][i] = sent[e][i]
  BY DEF ReceivesInOrder
<1>1. PICK a \in Rank, b \in Rank : e = <<a, b>>
  BY DEF Pair
<1>2. Counted(sent[e], received[e]) /\ sent[e] \in Seq(Nat) /\ received[e] \in Seq(Nat)
  BY <1>1 DEF MsgInv, TypeInv, Numbered
<1> QED BY <1>2 DEF Counted

(* Messages between two ranks arrive in the order they were sent, each     *)
(* once and none before it was sent, whatever the buffering of MPI and for *)
(* every key-value space (bootstrap_mpi.hpp, bootstrap_pmi2.hpp:141-163).  *)
THEOREM InOrder == Spec => []ReceivesInOrder
  BY Messages, MessagesOrdered, PTL

-----------------------------------------------------------------------------
(* A constructor returns in a job that makes the same calls in every rank: *)
(* no rank is past a call the others must meet it in.  The calls a rank    *)
(* has left are counted from the last one, which is the same for all; of   *)
(* them it is yet to meet the others in the first Ahead(r).                *)
FromEnd(c, l) == c[Len(c) + 1 - l].op
Through(r) == pc[r] \in {"fenced", "failed"}
Ahead(r) == Len(calls[r]) - (IF Through(r) THEN 1 ELSE 0)
SyncOps == IF backend = "mpi" THEN {"barrier", "allgather"} ELSE Fencing

Uniform ==
    \A r, q \in Rank : \A l \in 1 .. Len(calls[r]) :
        l <= Len(calls[q]) => FromEnd(calls[r], l) = FromEnd(calls[q], l)

Lockstep ==
    \A r, q \in Rank : \A l \in 1 .. Ahead(r) :
        Ahead(q) < l => FromEnd(calls[r], l) \notin SyncOps

(* A queue pair that is not yet connected has the call that does it ahead. *)
Owed(r, p) ==
    \/ qp[<<r, p>>] = "RTS"
    \/ \E i \in 1 .. Len(calls[r]) : calls[r][i] = Modify(p, "RTS")

SetUp ==
    /\ Uniform
    /\ Lockstep
    /\ \A r \in Rank : WellOrdered(calls[r])
    /\ \A r \in Rank : \A p \in Rank \ {r} : Owed(r, p)
    /\ ConstructedMeansConnected

(* The other programs construct nothing.                                   *)
NoConstructor ==
    /\ ready = {}
    /\ \A r \in Rank : \A i \in 1 .. Len(calls[r]) : calls[r][i].op # "constructed"

ConnInv == SetUp \/ NoConstructor

LEMMA TailCalls ==
    ASSUME NEW c \in Seq(CallSet), c # <<>>
    PROVE  /\ Len(c) \in Nat \ {0} /\ Len(Tail(c)) = Len(c) - 1
           /\ Head(c) = c[1] /\ FromEnd(c, Len(c)) = Head(c).op
           /\ \A i \in 1 .. Len(c) - 1 : Tail(c)[i] = c[i + 1]
           /\ \A l \in 1 .. Len(c) - 1 : FromEnd(Tail(c), l) = FromEnd(c, l)
<1>1. PICK d : d = Tail(c)
  OBVIOUS
<1>2. /\ Len(c) \in Nat \ {0} /\ Len(d) = Len(c) - 1 /\ Head(c) = c[1]
      /\ \A i \in 1 .. Len(c) - 1 : d[i] = c[i + 1]
  BY <1>1
<1>3. FromEnd(c, Len(c)) = Head(c).op
  <2>1. Len(c) + 1 - Len(c) = 1
    BY <1>2
  <2> QED BY <1>2, <2>1 DEF FromEnd
<1>4. ASSUME NEW l \in 1 .. Len(c) - 1 PROVE FromEnd(d, l) = FromEnd(c, l)
  <2>1. PICK i \in 1 .. Len(c) - 1 : i = Len(d) + 1 - l
    <3>1. Len(d) + 1 - l \in 1 .. Len(c) - 1
      BY <1>2
    <3> QED BY <3>1
  <2>2. i + 1 = Len(c) + 1 - l
    BY <1>2, <2>1
  <2> QED BY <1>2, <2>1, <2>2 DEF FromEnd
<1> QED BY <1>1, <1>2, <1>3, <1>4

LEMMA TailOrdered ==
    ASSUME NEW c \in Seq(CallSet), c # <<>>, WellOrdered(c)
    PROVE  WellOrdered(Tail(c))
<1>1. PICK d : d = Tail(c)
  OBVIOUS
<1>2. /\ Len(c) \in Nat \ {0} /\ Len(d) = Len(c) - 1
      /\ \A i \in 1 .. Len(c) - 1 : d[i] = c[i + 1]
  BY <1>1, TailCalls
<1>3. ASSUME NEW i \in 1 .. Len(d), d[i].op = "modify"
      PROVE  \E j \in i + 1 .. Len(d) - 1 : d[j].op = "barrier"
  <2>1. i + 1 \in 1 .. Len(c) /\ c[i + 1].op = "modify"
    BY <1>2, <1>3
  <2>2. PICK k \in (i + 1) + 1 .. Len(c) - 1 : c[k].op = "barrier"
    BY <2>1 DEF WellOrdered
  <2>3. PICK j : j = k - 1
    OBVIOUS
  <2>4. j \in i + 1 .. Len(d) - 1 /\ j \in 1 .. Len(c) - 1 /\ j + 1 = k
    BY <1>2, <2>3
  <2>5. d[j] = c[k]
    BY ONLY <1>2, <2>4
  <2> QED BY <2>2, <2>4, <2>5
<1>4. ASSUME NEW i \in 1 .. Len(d), d[i].op = "constructed" PROVE i = Len(d) - 1
  <2>1. i + 1 \in 1 .. Len(c) /\ c[i + 1].op = "constructed"
    BY <1>2, <1>4
  <2>2. i + 1 = Len(c) - 1
    BY <2>1 DEF WellOrdered
  <2> QED BY <1>2, <2>2
<1>5. WellOrdered(d)
  BY <1>3, <1>4 DEF WellOrdered
<1> QED BY <1>1, <1>5

LEMMA AheadOf ==
    ASSUME MsgInv, NEW r \in Rank
    PROVE  /\ calls[r] \in Seq(CallSet) /\ Len(calls[r]) \in Nat
           /\ ~Through(r) => Ahead(r) = Len(calls[r])
           /\ Through(r) => Ahead(r) = Len(calls[r]) - 1
<1>1. calls[r] \in Seq(CallSet)
  BY DEF MsgInv, TypeInv
<1>2. Len(calls[r]) \in Nat
  BY <1>1
<1>3. ASSUME Through(r) PROVE Ahead(r) = Len(calls[r]) - 1
  BY <1>3 DEF Ahead
<1>4. ASSUME ~Through(r) PROVE Ahead(r) = Len(calls[r])
  <2>1. Ahead(r) = Len(calls[r]) - 0
    BY <1>4, Zenon DEF Ahead
  <2> QED BY <1>2, <2>1
<1> QED BY <1>1, <1>2, <1>3, <1>4

(* At a call that all must enter, nobody is behind.                        *)
LEMMA TogetherLevel ==
    ASSUME MsgInv, Lockstep,
           \A r \in Rank : calls[r] # <<>> /\ Head(calls[r]).op \in SyncOps /\ ~Through(r)
    PROVE  \A r, q \in Rank : Len(calls[r]) = Len(calls[q])
<1>1. ASSUME NEW r \in Rank, NEW q \in Rank PROVE ~(Len(calls[q]) < Len(calls[r]))
  <2> SUFFICES ASSUME Len(calls[q]) < Len(calls[r]) PROVE FALSE
    OBVIOUS
  <2>1. calls[r] \in Seq(CallSet) /\ calls[q] \in Seq(CallSet)
    BY DEF MsgInv, TypeInv
  <2>2. Ahead(r) = Len(calls[r]) /\ Ahead(q) = Len(calls[q]) /\ Len(calls[r]) \in Nat \ {0}
    BY <2>1, TailCalls, AheadOf
  <2>3. FromEnd(calls[r], Len(calls[r])) = Head(calls[r]).op
    BY <2>1, TailCalls
  <2>4. Len(calls[r]) \in 1 .. Ahead(r) /\ Ahead(q) < Len(calls[r])
    BY <2>2
  <2> QED BY <2>3, <2>4 DEF Lockstep
<1>2. \A r \in Rank : Len(calls[r]) \in Nat
  BY DEF MsgInv, TypeInv
<1> QED BY <1>1, <1>2

(* What a step does to the calls: a rank returns from a call that it need  *)
(* not meet the others in, it returns from one that it has met them in, or *)
(* it goes on in its call; or all meet.                                    *)
Passes(r) ==
    /\ calls[r] # <<>> /\ Return(r)
    /\ Head(calls[r]).op \notin SyncOps /\ ~Through(r)
Leaves(r) == calls[r] # <<>> /\ Return(r) /\ pc[r] = "fenced"
Stays == calls' = calls /\ \A r \in Rank : Through(r)' = Through(r)
Meet ==
    /\ \A r \in Rank :
           calls[r] # <<>> /\ Head(calls[r]).op \in SyncOps /\ ~Through(r)
    /\ \/ calls' = [r \in Rank |-> Tail(calls[r])] /\ pc' = pc
       \/ calls' = calls /\ pc' = [r \in Rank |-> "fenced"]

LEMMA StepKinds ==
    ASSUME MsgInv, [Next]_vars
    PROVE  /\ backend' = backend
           /\ (\E r \in Rank : Passes(r) \/ Leaves(r)) \/ Stays \/ Meet
<1>1. ASSUME NEW r \in Rank, MpiPost(r) PROVE Stays /\ backend' = backend
  BY <1>1 DEF MpiPost, Stays, Through, At, Goto, constVars, MsgInv, TypeInv
<1>2. ASSUME NEW r \in Rank, MpiReceive(r)
      PROVE  (Passes(r) \/ Stays) /\ backend' = backend
  <2>1. CASE Calling(r, {"recv"})
    <3>1. pc[r] = "call" /\ Return(r) /\ Head(calls[r]).op = "recv" /\ backend = "mpi" /\ backend' = backend
      BY <1>2, <2>1 DEF MpiReceive, Calling, At, constVars
    <3> QED BY <2>1, <3>1 DEF Passes, Through, SyncOps, Calling
  <2>2. CASE ~Calling(r, {"recv"})
    <3>1. pc[r] = "posted" /\ Goto(r, "received") /\ calls' = calls /\ backend' = backend
      BY <1>2, <2>2 DEF MpiReceive, At, constVars
    <3> QED BY <3>1 DEF Stays, Through, Goto, MsgInv, TypeInv
  <2> QED BY <2>1, <2>2
<1>3. ASSUME NEW r \in Rank, MpiSent(r) PROVE Passes(r) /\ backend' = backend
  BY <1>3 DEF MpiSent, Passes, Through, SyncOps, Calling, At, constVars
<1>4. ASSUME NEW r \in Rank, MpiBroadcast(r) PROVE Passes(r) /\ backend' = backend
  BY <1>4 DEF MpiBroadcast, Passes, Through, SyncOps, Calling, At, constVars
<1>5. ASSUME NEW r \in Rank, Pmi2Begin(r) PROVE Stays /\ backend' = backend
  <2>1. Goto(r, "fence") /\ pc[r] = "call" /\ calls' = calls /\ backend' = backend
    BY <1>5 DEF Pmi2Begin, Calling, At, constVars, Fencing
  <2> QED BY <2>1 DEF Stays, Through, Goto, MsgInv, TypeInv
<1>6. ASSUME NEW r \in Rank, Pmi2End(r)
      PROVE  (Leaves(r) \/ Stays) /\ backend' = backend
  <2>1. /\ pc[r] = "fenced" /\ backend' = backend
        /\ Return(r) \/ (Goto(r, "failed") /\ calls' = calls)
    BY <1>6 DEF Pmi2End, At, constVars
  <2>2. calls[r] # <<>>
    BY <2>1 DEF MsgInv, PcInv, Calling
  <2> QED BY <2>1, <2>2 DEF Leaves, Stays, Through, Goto, MsgInv, TypeInv
<1>7. ASSUME NEW r \in Rank, ModifyQp(r) \/ Construct(r) PROVE Passes(r) /\ backend' = backend
  <2>1. /\ calls[r] # <<>> /\ Return(r) /\ backend' = backend
        /\ Head(calls[r]).op \in {"modify", "constructed"}
    BY <1>7 DEF ModifyQp, Construct, Calling, constVars
  <2>2. Head(calls[r]).op \notin SyncOps /\ ~Calling(r, Fencing)
    BY <2>1 DEF SyncOps, Fencing, Calling
  <2>3. ~Through(r)
    BY <2>2 DEF MsgInv, PcInv, Through
  <2> QED BY <2>1, <2>2, <2>3 DEF Passes
<1>8. ASSUME MpiCollective PROVE Meet /\ backend' = backend
  <2>1. \A r \in Rank : calls[r] # <<>> /\ Head(calls[r]).op \in {"barrier", "allgather"} /\ pc[r] = "call"
    BY <1>8 DEF MpiCollective, Calling, At
  <2>2. backend = "mpi" /\ backend' = backend /\ pc' = pc /\ calls' = [r \in Rank |-> Tail(calls[r])]
    BY <1>8 DEF MpiCollective, constVars
  <2> QED BY <2>1, <2>2 DEF Meet, Through, SyncOps
<1>9. ASSUME Fence PROVE Meet /\ backend' = backend
  <2>1. /\ \A r \in Rank : pc[r] = "fence" /\ Calling(r, Fencing)
        /\ backend = "pmi2" /\ backend' = backend /\ calls' = calls
        /\ pc' = [r \in Rank |-> "fenced"]
    BY <1>9 DEF Fence, At, constVars, MsgInv, PcInv
  <2> QED BY <2>1 DEF Meet, Through, SyncOps, Calling
<1>10. CASE UNCHANGED vars
  BY <1>10 DEF vars, bootVars, Stays, Through
<1> QED BY <1>1, <1>2, <1>3, <1>4, <1>5, <1>6, <1>7, <1>8, <1>9, <1>10
        DEF Next, Step, Together, Finished, BootStep, BootTogether

(* Calls are only ever taken from the front.                               *)
LEMMA CallsShrink ==
    ASSUME MsgInv, [Next]_vars, NEW r \in Rank
    PROVE  calls'[r] = calls[r] \/ (calls[r] # <<>> /\ calls'[r] = Tail(calls[r]))
  BY StepKinds DEF Passes, Leaves, Stays, Meet, Return, MsgInv, TypeInv

LEMMA UniformStep == ASSUME MsgInv, [Next]_vars, Uniform PROVE Uniform'
<1>1. ASSUME NEW r \in Rank, NEW l \in 1 .. Len(calls'[r])
      PROVE  l \in 1 .. Len(calls[r]) /\ FromEnd(calls'[r], l) = FromEnd(calls[r], l)
  <2>1. CASE calls'[r] = calls[r]
    BY <2>1
  <2>2. CASE calls[r] # <<>> /\ calls'[r] = Tail(calls[r])
    <3>1. calls[r] \in Seq(CallSet)
      BY AheadOf
    <3>2. /\ Len(calls[r]) \in Nat \ {0} /\ Len(calls'[r]) = Len(calls[r]) - 1
          /\ \A k \in 1 .. Len(calls[r]) - 1 : FromEnd(calls'[r], k) = FromEnd(calls[r], k)
      BY <2>2, <3>1, TailCalls
    <3> QED BY <3>2
  <2> QED BY <2>1, <2>2, CallsShrink
<1>2. \A r \in Rank : Len(calls'[r]) \in Nat
  BY NextMessages DEF MsgInv, TypeInv
<1> SUFFICES ASSUME NEW r \in Rank, NEW q \in Rank, NEW l \in 1 .. Len(calls'[r]), l <= Len(calls'[q])
             PROVE  FromEnd(calls'[r], l) = FromEnd(calls'[q], l)
  BY DEF Uniform
<1>3. l \in 1 .. Len(calls'[q])
  BY <1>2
<1>4. l \in 1 .. Len(calls[r]) /\ l \in 1 .. Len(calls[q])
  BY <1>1, <1>3
<1>5. l <= Len(calls[q])
  BY <1>4
<1> QED BY <1>1, <1>3, <1>4, <1>5 DEF Uniform

LEMMA OrderedStep ==
    ASSUME MsgInv, [Next]_vars, \A r \in Rank : WellOrdered(calls[r])
    PROVE  \A r \in Rank : WellOrdered(calls'[r])
  BY CallsShrink, TailOrdered, AheadOf

(* A rank that passes a call the others need not meet it in.               *)
LEMMA PassesStep ==
    ASSUME MsgInv, Uniform, Lockstep, backend' = backend, NEW r \in Rank, Passes(r)
    PROVE  Lockstep'
<1>1. /\ calls[r] # <<>> /\ Return(r) /\ ~Through(r)
      /\ Head(calls[r]).op \notin SyncOps /\ SyncOps' = SyncOps
  BY DEF Passes, SyncOps
<1>2. /\ calls'[r] = Tail(calls[r]) /\ pc'[r] = "call"
      /\ \A q \in Rank \ {r} : calls'[q] = calls[q] /\ pc'[q] = pc[q]
  BY <1>1 DEF MsgInv, TypeInv, Return, Goto
<1>3. /\ Len(calls[r]) \in Nat \ {0} /\ Len(calls'[r]) = Len(calls[r]) - 1
      /\ FromEnd(calls[r], Len(calls[r])) = Head(calls[r]).op
      /\ \A l \in 1 .. Len(calls[r]) - 1 : FromEnd(calls'[r], l) = FromEnd(calls[r], l)
  BY <1>1, <1>2, AheadOf, TailCalls
<1>4. Ahead(r) = Len(calls[r]) /\ Ahead(r)' = Ahead(r) - 1
  <2>1. Ahead(r) = Len(calls[r])
    BY <1>1, AheadOf
  <2>2. ~Through(r)'
    BY <1>2 DEF Through
  <2>3. Ahead(r)' = Len(calls'[r]) - 0
    BY <2>2, Zenon DEF Ahead
  <2> QED BY <1>3, <2>1, <2>3
<1>5. \A q \in Rank \ {r} : Ahead(q)' = Ahead(q)
  BY <1>2 DEF Ahead, Through
<1>6. \A q \in Rank : Ahead(q) \in Int /\ Ahead(q) <= Len(calls[q])
  BY AheadOf
<1> SUFFICES ASSUME NEW a \in Rank, NEW b \in Rank, NEW l \in 1 .. Ahead(a)', Ahead(b)' < l
             PROVE  FromEnd(calls'[a], l) \notin SyncOps
  BY <1>1 DEF Lockstep
<1>7. l \in 1 .. Ahead(a) /\ FromEnd(calls'[a], l) = FromEnd(calls[a], l)
  <2>1. CASE a = r
    <3>1. l \in 1 .. Len(calls[r]) - 1 /\ l \in 1 .. Ahead(a)
      BY <1>3, <1>4, <2>1
    <3> QED BY <1>3, <2>1, <3>1
  <2>2. CASE a # r
    BY <1>2, <1>5, <2>2
  <2> QED BY <2>1, <2>2
<1>8. CASE Ahead(b) < l
  BY <1>7, <1>8 DEF Lockstep
<1>9. CASE ~(Ahead(b) < l)
  <2>1. b = r /\ l = Len(calls[r])
    BY <1>4, <1>5, <1>6, <1>9
  <2>2. l \in 1 .. Len(calls[a]) /\ l <= Len(calls[r])
    BY <1>6, <1>7, <2>1
  <2>3. FromEnd(calls[a], l) = FromEnd(calls[r], l)
    BY <2>2 DEF Uniform
  <2> QED BY <1>1, <1>3, <1>7, <2>1, <2>3
<1> QED BY <1>8, <1>9

(* A rank that returns from a call it has met the others in, or goes on in *)
(* its call, has as many ahead as before.                                  *)
LEMMA SameAhead ==
    ASSUME Lockstep, backend' = backend,
           \A r \in Rank : Ahead(r)' = Ahead(r),
           \A r \in Rank : \A l \in 1 .. Ahead(r) : FromEnd(calls'[r], l) = FromEnd(calls[r], l)
    PROVE  Lockstep'
<1>1. SyncOps' = SyncOps
  BY DEF SyncOps
<1>2. ASSUME NEW r \in Rank, NEW q \in Rank, NEW l \in 1 .. Ahead(r)', Ahead(q)' < l
      PROVE  FromEnd(calls'[r], l) \notin SyncOps
  <2>1. l \in 1 .. Ahead(r) /\ Ahead(q) < l
    BY <1>2
  <2> QED BY <2>1 DEF Lockstep
<1> QED BY <1>1, <1>2 DEF Lockstep

LEMMA LeavesStep ==
    ASSUME MsgInv, Lockstep, backend' = backend, NEW r \in Rank, Leaves(r)
    PROVE  Lockstep'
<1>1. /\ calls[r] # <<>> /\ calls'[r] = Tail(calls[r]) /\ pc'[r] = "call" /\ pc[r] = "fenced"
      /\ \A q \in Rank \ {r} : calls'[q] = calls[q] /\ pc'[q] = pc[q]
  BY DEF Leaves, MsgInv, TypeInv, Return, Goto
<1>2. /\ Len(calls[r]) \in Nat \ {0} /\ Len(calls'[r]) = Len(calls[r]) - 1
      /\ \A l \in 1 .. Len(calls[r]) - 1 : FromEnd(calls'[r], l) = FromEnd(calls[r], l)
  BY <1>1, AheadOf, TailCalls
<1>3. Ahead(r) = Len(calls[r]) - 1 /\ Ahead(r)' = Ahead(r)
  <2>1. Through(r) /\ ~Through(r)'
    BY <1>1 DEF Through
  <2>2. Ahead(r) = Len(calls[r]) - 1
    BY <2>1, AheadOf
  <2>3. Ahead(r)' = Len(calls'[r]) - 0
    BY <2>1, Zenon DEF Ahead
  <2> QED BY <1>2, <2>2, <2>3
<1>4. \A q \in Rank \ {r} : Ahead(q)' = Ahead(q)
  BY <1>1 DEF Ahead, Through
<1>5. ASSUME NEW q \in Rank, NEW l \in 1 .. Ahead(q)
      PROVE  FromEnd(calls'[q], l) = FromEnd(calls[q], l)
  BY <1>1, <1>2, <1>3
<1> QED BY <1>3, <1>4, <1>5, SameAhead

LEMMA MeetStep ==
    ASSUME MsgInv, Lockstep, Meet
    PROVE  Lockstep'
<1>1. \A r \in Rank : calls[r] # <<>> /\ Head(calls[r]).op \in SyncOps /\ ~Through(r)
  BY DEF Meet
<1>2. \A r, q \in Rank : Len(calls[r]) = Len(calls[q])
  BY <1>1, TogetherLevel
<1>3. \A r \in Rank : Len(calls[r]) \in Nat \ {0} /\ Len(Tail(calls[r])) = Len(calls[r]) - 1
  BY <1>1, AheadOf, TailCalls
<1>4. ASSUME NEW r \in Rank PROVE Ahead(r)' = Len(calls[r]) - 1
  <2>1. CASE calls' = [q \in Rank |-> Tail(calls[q])] /\ pc' = pc
    <3>1. ~Through(r)' /\ calls'[r] = Tail(calls[r])
      BY <1>1, <2>1 DEF Through
    <3>2. Ahead(r)' = Len(calls'[r]) - 0
      BY <3>1, Zenon DEF Ahead
    <3> QED BY <1>3, <3>1, <3>2
  <2>2. CASE calls' = calls /\ pc' = [q \in Rank |-> "fenced"]
    <3>1. Through(r)' /\ calls'[r] = calls[r]
      BY <2>2 DEF Through
    <3> QED BY <3>1 DEF Ahead
  <2> QED BY <2>1, <2>2 DEF Meet
<1>5. ASSUME NEW r \in Rank, NEW q \in Rank, NEW l \in 1 .. Ahead(r)' PROVE ~(Ahead(q)' < l)
  BY <1>2, <1>3, <1>4
<1> QED BY <1>5 DEF Lockstep

LEMMA LockstepStep ==
    ASSUME MsgInv, [Next]_vars, Uniform, Lockstep
    PROVE  Lockstep'
<1>1. backend' = backend /\ ((\E r \in Rank : Passes(r) \/ Leaves(r)) \/ Stays \/ Meet)
  BY StepKinds
<1>2. CASE Stays
  <2>1. \A r \in Rank : Ahead(r)' = Ahead(r)
    BY <1>2 DEF Stays, Ahead
  <2> QED BY <1>1, <1>2, <2>1, SameAhead DEF Stays
<1> QED BY <1>1, <1>2, PassesStep, LeavesStep, MeetStep

(* ibv_modify_qp() is only ever called on, and a queue pair that is        *)
(* connected stays so.                                                     *)
LEMMA OwedStep ==
    ASSUME MsgInv, [Next]_vars, NEW r \in Rank, NEW p \in Rank \ {r}, Owed(r, p)
    PROVE  Owed(r, p)' /\ (qp[<<r, p>>] = "RTS" => qp'[<<r, p>>] = "RTS")
<1>1. calls[r] \in Seq(CallSet) /\ <<r, p>> \in Pair
  BY AheadOf, PairOf
<1>2. qp[<<r, p>>] = "RTS" => qp'[<<r, p>>] = "RTS"
  <2>1. ASSUME NEW q \in Rank, ModifyQp(q), qp[<<r, p>>] = "RTS" PROVE qp'[<<r, p>>] = "RTS"
    <3>1. calls[q] # <<>> /\ Head(calls[q]).op = "modify"
      BY <2>1 DEF ModifyQp, Calling
    <3>2. Head(calls[q]) \in CallSet
      BY <3>1, AtHead DEF MsgInv
    <3>3. Head(calls[q]).state \in {"INIT", "RTR", "RTS"}
      BY <3>1, <3>2 DEF CallSet, Fencing, States
    <3>4. Before[Head(calls[q]).state] # "RTS"
      BY <3>3 DEF Before
    <3> QED BY <1>1, <2>1, <3>4 DEF ModifyQp, MsgInv, TypeInv
  <2>2. (\A q \in Rank : ~ModifyQp(q)) => qp' = qp
    BY DEF Next, Step, Together, Finished, Construct, vars
  <2> QED BY <2>1, <2>2
<1>3. CASE qp[<<r, p>>] = "RTS"
  BY <1>2, <1>3 DEF Owed
<1>4. CASE qp[<<r, p>>] # "RTS"
  <2>1. PICK i \in 1 .. Len(calls[r]) : calls[r][i] = Modify(p, "RTS")
    BY <1>4 DEF Owed
  <2>2. CASE calls'[r] = calls[r]
    BY <1>2, <2>1, <2>2 DEF Owed
  <2>3. CASE calls'[r] # calls[r]
    <3>1. /\ calls[r] # <<>> /\ calls'[r] = Tail(calls[r])
          /\ Len(calls[r]) \in Nat \ {0} /\ Len(calls'[r]) = Len(calls[r]) - 1
          /\ Head(calls[r]) = calls[r][1]
          /\ \A k \in 1 .. Len(calls[r]) - 1 : calls'[r][k] = calls[r][k + 1]
      BY <1>1, <2>3, CallsShrink, TailCalls
    <3>2. CASE i # 1
      <4>1. i - 1 \in 1 .. Len(calls'[r]) /\ calls'[r][i - 1] = Modify(p, "RTS")
        <5>1. i - 1 \in 1 .. Len(calls[r]) - 1 /\ (i - 1) + 1 = i
          BY <3>1, <3>2
        <5> QED BY ONLY <2>1, <3>1, <5>1
      <4> QED BY <1>2, <4>1 DEF Owed
    <3>3. CASE i = 1
      <4>1. Head(calls[r]) = Modify(p, "RTS")
        BY <2>1, <3>1, <3>3
      <4>2. Head(calls[r]).op = "modify" /\ Head(calls[r]).state = "RTS" /\ Peer(r) = p
        BY <4>1 DEF Modify, Peer
      <4>3. ModifyQp(r)
        <5>1. ~Calling(r, Fencing) /\ ~Calling(r, {"constructed"})
          BY <4>2 DEF Calling, Fencing
        <5>2. ASSUME NEW q \in Rank, BootStep(q) PROVE calls'[r] = calls[r]
          <6>1. Calling(q, Fencing) \/ calls' = calls
            <7>1. Pmi2End(q) => Calling(q, Fencing)
              BY DEF Pmi2End, At, MsgInv, PcInv
            <7> QED BY <5>2, <7>1 DEF BootStep, MpiPost, MpiReceive, MpiSent, MpiBroadcast,
                                      Pmi2Begin, Calling, Fencing
          <6>2. calls' = calls \/ Return(q)
            BY <5>2 DEF BootStep, MpiPost, MpiReceive, MpiSent, MpiBroadcast, Pmi2Begin, Pmi2End
          <6>3. q = r => calls' = calls
            BY <5>1, <6>1
          <6> QED BY <6>2, <6>3 DEF Return, MsgInv, TypeInv
        <5>3. ~MpiCollective
          BY <4>2 DEF MpiCollective, Calling
        <5>4. Fence => calls' = calls
          BY DEF Fence
        <5>5. ASSUME NEW q \in Rank, ModifyQp(q) \/ Construct(q), q # r PROVE calls'[r] = calls[r]
          BY <5>5 DEF ModifyQp, Construct, Return, MsgInv, TypeInv
        <5>6. ~Construct(r)
          BY <5>1 DEF Construct
        <5>7. UNCHANGED vars => calls' = calls
          BY DEF vars, bootVars
        <5> QED BY <2>3, <5>2, <5>3, <5>4, <5>5, <5>6, <5>7
                DEF Next, Step, Together, Finished, BootTogether
      <4>4. qp'[<<r, p>>] = "RTS"
        BY <1>1, <4>2, <4>3 DEF ModifyQp, MsgInv, TypeInv
      <4> QED BY <4>4 DEF Owed
    <3> QED BY <3>2, <3>3
  <2> QED BY <2>2, <2>3
<1> QED BY <1>2, <1>3, <1>4

(* When a constructor returns, all ranks are past the barrier that comes   *)
(* after their last ibv_modify_qp().                                       *)
LEMMA ConstructStep ==
    ASSUME MsgInv, SetUp, NEW r \in Rank, Construct(r)
    PROVE  \A q \in Rank : \A p \in Rank \ {q} : qp[<<q, p>>] = "RTS"
<1>1. calls[r] # <<>> /\ Head(calls[r]).op = "constructed"
  BY DEF Construct, Calling
<1>2. ~Through(r)
  BY <1>1 DEF MsgInv, PcInv, Calling, Fencing, Through
<1>3. Len(calls[r]) = 2 /\ Ahead(r) = 2 /\ FromEnd(calls[r], 2) = "constructed"
  <2>1. /\ calls[r] \in Seq(CallSet) /\ Len(calls[r]) \in Nat \ {0} /\ calls[r][1].op = "constructed"
        /\ FromEnd(calls[r], Len(calls[r])) = "constructed"
    BY <1>1, AheadOf, TailCalls
  <2>2. 1 = Len(calls[r]) - 1
    <3>1. WellOrdered(calls[r])
      BY DEF SetUp
    <3>2. \A i \in 1 .. Len(calls[r]) : calls[r][i].op = "constructed" => i = Len(calls[r]) - 1
      BY <3>1 DEF WellOrdered
    <3>3. 1 \in 1 .. Len(calls[r])
      BY <2>1
    <3> QED BY <2>1, <3>2, <3>3
  <2>3. Len(calls[r]) = 2
    BY <2>1, <2>2
  <2> QED BY <1>2, <2>1, <2>3, AheadOf
<1>4. ASSUME NEW q \in Rank, NEW i \in 1 .. Len(calls[q]) PROVE calls[q][i].op # "modify"
  <2> SUFFICES ASSUME calls[q][i].op = "modify" PROVE FALSE
    OBVIOUS
  <2>1. PICK j \in i + 1 .. Len(calls[q]) - 1 : calls[q][j].op = "barrier"
    BY DEF SetUp, WellOrdered
  <2>2. /\ Len(calls[q]) \in Nat /\ Ahead(q) \in Int
        /\ Len(calls[q]) - 1 <= Ahead(q) /\ Ahead(q) <= Len(calls[q])
    BY AheadOf
  <2>3. PICK l : l = Len(calls[q]) + 1 - j
    OBVIOUS
  <2>4. l \in 2 .. Ahead(q) /\ l \in 1 .. Len(calls[q]) /\ Len(calls[q]) + 1 - l = j
    BY <2>2, <2>3
  <2>5. FromEnd(calls[q], l) = "barrier"
    BY <2>1, <2>4 DEF FromEnd
  <2>6. CASE l = 2
    <3>1. l <= Len(calls[r])
      BY <1>3, <2>6
    <3>2. FromEnd(calls[q], l) = FromEnd(calls[r], l)
      BY <2>4, <3>1 DEF SetUp, Uniform
    <3> QED BY <1>3, <2>5, <2>6, <3>2
  <2>7. CASE l # 2
    <3>1. l \in 1 .. Ahead(q) /\ Ahead(r) < l
      BY <1>3, <2>2, <2>4, <2>7
    <3>2. FromEnd(calls[q], l) \notin SyncOps
      BY <3>1 DEF SetUp, Lockstep
    <3> QED BY <2>5, <3>2 DEF SyncOps, Fencing
  <2> QED BY <2>6, <2>7
<1>5. ASSUME NEW q \in Rank, NEW p \in Rank \ {q} PROVE qp[<<q, p>>] = "RTS"
  <2>1. Modify(p, "RTS").op = "modify"
    BY DEF Modify
  <2> QED BY <1>4, <2>1 DEF SetUp, Owed
<1> QED BY <1>5

LEMMA SetUpStep == ASSUME MsgInv, SetUp, [Next]_vars PROVE SetUp'
<1>1. Uniform' /\ Lockstep' /\ \A r \in Rank : WellOrdered(calls'[r])
  BY UniformStep, LockstepStep, OrderedStep DEF SetUp
<1>2. \A r \in Rank : \A p \in Rank \ {r} :
          Owed(r, p)' /\ (qp[<<r, p>>] = "RTS" => qp'[<<r, p>>] = "RTS")
  BY OwedStep DEF SetUp
<1>3. ConstructedMeansConnected'
  <2> SUFFICES ASSUME NEW r \in ready', NEW p \in Rank \ {r}
               PROVE  qp'[<<r, p>>] = "RTS" /\ qp'[<<p, r>>] = "RTS"
    BY DEF ConstructedMeansConnected
  <2>1. r \in ready \/ \E q \in Rank : Construct(q)
    BY DEF Next, Step, Together, Finished, ModifyQp, vars
  <2>2. r \in Rank /\ p \in Rank /\ r \in Rank \ {p}
    BY NextMessages DEF MsgInv, TypeInv
  <2>3. qp[<<r, p>>] = "RTS" /\ qp[<<p, r>>] = "RTS"
    BY <2>1, <2>2, ConstructStep DEF SetUp, ConstructedMeansConnected
  <2> QED BY <1>2, <2>2, <2>3
<1> QED BY <1>1, <1>2, <1>3 DEF SetUp

LEMMA NoConstructorStep == ASSUME MsgInv, NoConstructor, [Next]_vars PROVE NoConstructor'
<1>1. ASSUME NEW r \in Rank, NEW i \in 1 .. Len(calls'[r]) PROVE calls'[r][i].op # "constructed"
  <2>1. CASE calls'[r] = calls[r]
    BY <2>1 DEF NoConstructor
  <2>2. CASE calls[r] # <<>> /\ calls'[r] = Tail(calls[r])
    <3>1. /\ Len(calls[r]) \in Nat \ {0} /\ Len(calls'[r]) = Len(calls[r]) - 1
          /\ \A k \in 1 .. Len(calls[r]) - 1 : calls'[r][k] = calls[r][k + 1]
      BY <2>2, AheadOf, TailCalls
    <3>2. calls'[r][i] = calls[r][i + 1] /\ i + 1 \in 1 .. Len(calls[r])
      BY <3>1
    <3> QED BY <3>2 DEF NoConstructor
  <2> QED BY <2>1, <2>2, CallsShrink
<1>2. ASSUME NEW r \in Rank PROVE ~Construct(r)
  <2>1. calls[r] # <<>> => 1 \in 1 .. Len(calls[r]) /\ Head(calls[r]) = calls[r][1]
    BY AheadOf, TailCalls
  <2> QED BY <2>1 DEF NoConstructor, Construct, Calling
<1>3. ready' = ready
  BY <1>2 DEF Next, Step, Together, Finished, ModifyQp, vars
<1> QED BY <1>1, <1>3 DEF NoConstructor

LEMMA StartsSetUp ==
    ASSUME Init, NEW program, NEW n \in Nat, NEW op \in [1 .. n -> Ops], StartUp(program, op),
           calls = [r \in Rank |-> Calls(program, r)]
    PROVE  SetUp
<1>1. \A r \in Rank : /\ Len(calls[r]) = n
                      /\ \A k \in 1 .. n : calls[r][k].op = op[k]
                      /\ WellOrdered(calls[r])
                      /\ \A p \in Rank \ {r} : \E k \in 1 .. n : calls[r][k] = Modify(p, "RTS")
  <2>1. Len(op) = n
    BY SequenceOf
  <2> QED BY <2>1 DEF StartUp
<1>2. Uniform
  <2>1. ASSUME NEW r \in Rank, NEW q \in Rank, NEW l \in 1 .. n
        PROVE  FromEnd(calls[r], l) = FromEnd(calls[q], l)
    <3>1. n + 1 - l \in 1 .. n
      OBVIOUS
    <3> QED BY <1>1, <3>1 DEF FromEnd
  <2> QED BY <1>1, <2>1 DEF Uniform
<1>3. Lockstep
  <2>1. \A r \in Rank : ~Through(r)
    BY DEF Init, BootInit, Through
  <2>2. \A r \in Rank : Ahead(r) = n - 0
    BY <1>1, <2>1, Zenon DEF Ahead
  <2> QED BY <2>2 DEF Lockstep
<1>4. \A r \in Rank : \A p \in Rank \ {r} : Owed(r, p)
  BY <1>1 DEF Owed
<1>5. ConstructedMeansConnected
  BY DEF Init, ConstructedMeansConnected
<1> QED BY <1>1, <1>2, <1>3, <1>4, <1>5 DEF SetUp

LEMMA InitConnected == Init => ConnInv
<1> SUFFICES ASSUME Init PROVE ConnInv
  OBVIOUS
<1>1. PICK job \in Jobs : backend = job[1] /\ calls = [r \in Rank |-> Calls(job[2], r)]
  BY InitJob
<1>2. job[2] \in {"runtime", "fabric", "gather", "ring"}
  BY JobsAssumption
<1>3. CASE job[2] = "runtime"
  BY <1>1, <1>3, RuntimeProgram, StartsSetUp DEF ConnInv
<1>4. CASE job[2] = "fabric"
  BY <1>1, <1>4, FabricProgram, StartsSetUp DEF ConnInv
<1>5. CASE job[2] \in {"gather", "ring"}
  BY <1>1, <1>5, OtherPrograms DEF Init, NoConstructor, ConnInv
<1> QED BY <1>2, <1>3, <1>4, <1>5

LEMMA NextConnected == MsgInv /\ ConnInv /\ [Next]_vars => ConnInv'
  BY SetUpStep, NoConstructorStep DEF ConnInv

LEMMA ConnectedFact == ConnInv => ConstructedMeansConnected
  BY DEF ConnInv, SetUp, NoConstructor, ConstructedMeansConnected

(* A constructor does not return before every queue pair of its rank, and  *)
(* every one that faces it, is connected: for any number of ranks, on      *)
(* either back end, in the runtime (mlx5_runtime.hpp:302-318) and the      *)
(* older fabric (comm.hpp) alike.                                          *)
THEOREM Connected == Spec => []ConstructedMeansConnected
<1>1. Spec => []ConnInv
  BY Messages, InitConnected, NextConnected, PTL DEF Spec
<1> QED BY <1>1, ConnectedFact, PTL

-----------------------------------------------------------------------------
(* No rank fails: over MPI none can, and around the ring over PMI2 every   *)
(* call of every rank is one fence, so that all ranks are at the same      *)
(* place of their programs and a message is put no later than it is        *)
(* fetched.                                                                *)

(* The places of the two sends and the two receives of a rank's program.   *)
SendAt(r) == IF r % 2 = 0 THEN 1 ELSE 2
RecvAt(r) == IF r % 2 = 0 THEN 2 ELSE 1
RingCall(r, k) ==
    IF k = SendAt(r) \/ k = SendAt(r) + 3 THEN Send(Left(r))
    ELSE IF k = RecvAt(r) \/ k = RecvAt(r) + 3 THEN Recv(Right(r))
    ELSE IF k = 3 THEN Allgather ELSE Broadcast(0)

(* The call a rank is in, the first it has not begun, and the calls all    *)
(* have been through the fence of.                                         *)
Current(r) == 7 - Len(calls[r])
FirstNew(r) == IF pc[r] = "call" THEN Current(r) ELSE Current(r) + 1
Fences(r) == IF pc[r] = "fenced" THEN Current(r) ELSE Current(r) - 1

(* How many of the calls at p and p + 3 come before the call at n.         *)
Count(p, n) == IF n <= p THEN 0 ELSE IF n <= p + 3 THEN 1 ELSE 2

Visible(key, S) == \E v \in S : v.key = key
Has(r, k, key) ==
    /\ k < FirstNew(r) => Visible(key, kvs \cup staged[r])
    /\ k <= Fences(r) => Visible(key, kvs)

RingPlace(r) ==
    /\ pc[r] \in {"call", "fence", "fenced"}
    /\ Len(calls[r]) <= 6
    /\ \A i \in 1 .. Len(calls[r]) : calls[r][i] = RingCall(r, 6 - Len(calls[r]) + i)
RingCounts(r) ==
    /\ p2p_seq[r][<<r, Left(r)>>] = Count(SendAt(r), FirstNew(r))
    /\ p2p_seq[r][<<Right(r), r>>] = Count(RecvAt(r), Current(r))
    /\ coll_epoch[r] = Count(3, Current(r))
RingEntries(r) ==
    /\ Has(r, SendAt(r), <<"p2p", 0, <<r, Left(r)>>>>)
    /\ Has(r, SendAt(r) + 3, <<"p2p", 1, <<r, Left(r)>>>>)
    /\ Has(r, 3, <<"ag", 0, r>>)
    /\ r = 0 => Has(r, 6, <<"bc", 1>>)

RingInv ==
    /\ backend = "pmi2" /\ failed = {}
    /\ \A r \in Rank : RingPlace(r) /\ RingCounts(r) /\ RingEntries(r)
    /\ \A r, q \in Rank : Fences(r) = Fences(q)

NoFailure == (backend = "mpi" /\ failed = {}) \/ RingInv

LEMMA Places ==
    ASSUME NEW r \in Rank
    PROVE  /\ SendAt(r) \in {1, 2} /\ RecvAt(r) \in {1, 2} /\ SendAt(r) # RecvAt(r)
           /\ SendAt(r) = IF r % 2 = 0 THEN 1 ELSE 2
           /\ RecvAt(r) = IF r % 2 = 0 THEN 2 ELSE 1
  BY DEF SendAt, RecvAt

LEMMA Neighbours ==
    ASSUME N > 1, NEW r \in Rank
    PROVE  /\ Left(r) \in Rank \ {r} /\ Right(r) \in Rank \ {r} /\ Left(Right(r)) = r
           /\ SendAt(Right(r)) <= RecvAt(r)
<1>1. N \in Nat /\ r \in Nat /\ r < N /\ Rank = 0 .. N - 1
  BY RankFacts DEF Rank
<1>2. \A a \in Nat : a < N => a % N = a
  BY <1>1
<1>3. \A a \in Nat : N <= a /\ a < 2 * N => a % N = a - N
  BY <1>1
<1>4. Left(r) = IF r = 0 THEN N - 1 ELSE r - 1
  <2>1. PICK a \in Nat : a = r + N - 1
    BY <1>1
  <2>2. r = 0 => a < N /\ a = N - 1
    BY <1>1, <2>1
  <2>3. r # 0 => N <= a /\ a < 2 * N /\ a - N = r - 1
    BY <1>1, <2>1
  <2> QED BY <1>2, <1>3, <2>1, <2>2, <2>3 DEF Left
<1>5. Right(r) = IF r = N - 1 THEN 0 ELSE r + 1
  <2>1. PICK a \in Nat : a = r + 1
    BY <1>1
  <2>2. r # N - 1 => a < N
    BY <1>1, <2>1
  <2>3. r = N - 1 => N <= a /\ a < 2 * N /\ a - N = 0
    BY <1>1, <2>1
  <2> QED BY <1>2, <1>3, <2>1, <2>2, <2>3 DEF Right
<1>6. Left(r) \in Rank \ {r} /\ Right(r) \in Rank \ {r}
  BY <1>1, <1>4, <1>5
<1>7. Left(Right(r)) = r
  <2>1. PICK q \in Nat : q = Right(r) /\ q < N
    BY <1>1, <1>6
  <2>2. CASE r = N - 1
    <3>1. q = 0 /\ N - 1 \in Nat /\ N - 1 < N /\ q + N - 1 = N - 1
      BY <1>1, <1>5, <2>1, <2>2
    <3> QED BY <1>2, <2>1, <2>2, <3>1 DEF Left
  <2>3. CASE r # N - 1
    <3>1. q = r + 1 /\ q + N - 1 = r + N /\ r + N \in Nat /\ N <= r + N /\ r + N < 2 * N
          /\ (r + N) - N = r
      BY <1>1, <1>5, <2>1, <2>3
    <3> QED BY <1>3, <2>1, <3>1 DEF Left
  <2> QED BY <2>2, <2>3
<1>8. SendAt(Right(r)) <= RecvAt(r)
  <2>1. CASE r % 2 = 0
    BY <1>6, <2>1, Places
  <2>2. CASE r % 2 # 0
    <3>1. Right(r) % 2 = 0
      BY <1>1, <1>5, <2>2
    <3> QED BY <1>6, <2>2, <3>1, Places
  <2> QED BY <2>1, <2>2
<1> QED BY <1>6, <1>7, <1>8

LEMMA CountStep ==
    ASSUME NEW p \in 1 .. 3, NEW n \in 1 .. 6
    PROVE  /\ Count(p, n + 1) = IF n = p \/ n = p + 3 THEN Count(p, n) + 1 ELSE Count(p, n)
           /\ n = p => Count(p, n) = 0
           /\ n = p + 3 => Count(p, n) = 1
  BY DEF Count

(* Where a rank is, and what it calls there.                               *)
LEMMA AtPlace ==
    ASSUME MsgInv, RingInv, NEW r \in Rank
    PROVE  /\ Len(calls[r]) \in 0 .. 6 /\ Current(r) = 7 - Len(calls[r])
           /\ Current(r) \in 1 .. 7 /\ FirstNew(r) \in 1 .. 8 /\ Fences(r) \in 0 .. 7
           /\ calls[r] # <<>> => Current(r) \in 1 .. 6 /\ Head(calls[r]) = RingCall(r, Current(r))
<1>1. calls[r] \in Seq(CallSet) /\ Len(calls[r]) \in 0 .. 6
  <2>1. Len(calls[r]) <= 6
    BY DEF RingInv, RingPlace
  <2>2. calls[r] \in Seq(CallSet) /\ Len(calls[r]) \in Nat
    BY AheadOf
  <2>3. PICK m \in Nat : m = Len(calls[r])
    BY <2>2
  <2>4. m \in Nat /\ m <= 6
    BY <2>1, <2>3
  <2>5. m \in 0 .. 6
    BY ONLY <2>4
  <2> QED BY ONLY <2>2, <2>3, <2>5
<1>2. PICK n \in 0 .. 6 : n = Len(calls[r])
  BY <1>1
<1>3. ASSUME calls[r] # <<>> PROVE n # 0 /\ Head(calls[r]) = RingCall(r, 7 - n)
  <2>1. n # 0 /\ Head(calls[r]) = calls[r][1]
    BY <1>1, <1>2, <1>3
  <2>2. 1 \in 1 .. n /\ 6 - n + 1 = 7 - n
    BY <2>1
  <2> QED BY <1>2, <2>1, <2>2 DEF RingInv, RingPlace
<1>4. Current(r) = 7 - n
  BY <1>2 DEF Current
<1>5. FirstNew(r) \in {7 - n, (7 - n) + 1} /\ Fences(r) \in {7 - n, (7 - n) - 1}
  BY <1>4 DEF FirstNew, Fences
<1>6. Current(r) \in 1 .. 7 /\ FirstNew(r) \in 1 .. 8 /\ Fences(r) \in 0 .. 7
  BY <1>4, <1>5
<1>7. n # 0 => Current(r) \in 1 .. 6
  BY <1>4
<1> QED BY <1>2, <1>3, <1>4, <1>6, <1>7

LEMMA RingCalls ==
    ASSUME NEW r \in Rank, N > 1, NEW k \in 1 .. 6
    PROVE  /\ RingCall(r, k).op \in {"send", "recv", "allgather", "broadcast"}
           /\ RingCall(r, k).op = "send" <=> k = SendAt(r) \/ k = SendAt(r) + 3
           /\ RingCall(r, k).op = "recv" <=> k = RecvAt(r) \/ k = RecvAt(r) + 3
           /\ RingCall(r, k).op = "allgather" <=> k = 3
           /\ RingCall(r, k).op = "broadcast" <=> k = 6
           /\ RingCall(r, k).op = "send" => RingCall(r, k).peer = Left(r)
           /\ RingCall(r, k).op = "recv" => RingCall(r, k).peer = Right(r)
           /\ RingCall(r, k).op = "broadcast" => RingCall(r, k).peer = 0
<1>1. /\ Send(Left(r)).op = "send" /\ Send(Left(r)).peer = Left(r)
      /\ Recv(Right(r)).op = "recv" /\ Recv(Right(r)).peer = Right(r)
      /\ Allgather.op = "allgather" /\ Broadcast(0).op = "broadcast" /\ Broadcast(0).peer = 0
  BY DEF Send, Recv, Allgather, Broadcast, Call
<1>2. SendAt(r) \in {1, 2} /\ RecvAt(r) \in {1, 2} /\ SendAt(r) # RecvAt(r)
  BY Places
<1>3. CASE k = SendAt(r) \/ k = SendAt(r) + 3
  BY <1>1, <1>2, <1>3 DEF RingCall
<1>4. CASE k = RecvAt(r) \/ k = RecvAt(r) + 3
  BY <1>1, <1>2, <1>4 DEF RingCall
<1>5. CASE k = 3
  BY <1>1, <1>2, <1>5 DEF RingCall
<1>6. CASE k = 6
  BY <1>1, <1>2, <1>6 DEF RingCall
<1>7. k = SendAt(r) \/ k = SendAt(r) + 3 \/ k = RecvAt(r) \/ k = RecvAt(r) + 3 \/ k = 3 \/ k = 6
  BY <1>2
<1> QED BY <1>3, <1>4, <1>5, <1>6, <1>7

(* An entry is put when its call begins, visible when all are through the  *)
(* fence of that call, and stays.                                          *)
LEMMA HasBegin ==
    ASSUME NEW r \in Rank, NEW q \in Rank, NEW k, NEW key, Has(q, k, key),
           kvs' = kvs, Fences(q)' = Fences(q),
           q # r => FirstNew(q)' = FirstNew(q) /\ staged'[q] = staged[q],
           staged[r] \subseteq staged'[r],
           q = r => \/ k < FirstNew(r)' => k < FirstNew(r)
                    \/ Visible(key, staged'[r])
    PROVE  Has(q, k, key)'
<1>1. \A S, T : S \subseteq T /\ Visible(key, S) => Visible(key, T)
  BY DEF Visible
<1>2. k <= Fences(q)' => Visible(key, kvs')
  BY DEF Has
<1>3. CASE q # r
  BY <1>2, <1>3 DEF Has
<1>4. CASE q = r
  <2>1. kvs \cup staged[r] \subseteq kvs' \cup staged'[r] /\ staged'[r] \subseteq kvs' \cup staged'[r]
    OBVIOUS
  <2>2. k < FirstNew(r)' => Visible(key, kvs' \cup staged'[r])
    BY <1>1, <1>4, <2>1 DEF Has
  <2> QED BY <1>2, <1>4, <2>2 DEF Has
<1> QED BY <1>3, <1>4

LEMMA HasFence ==
    ASSUME NEW r \in Rank, NEW k \in 1 .. 6, NEW key, Has(r, k, key),
           DOMAIN staged = Rank, Fence,
           FirstNew(r)' = FirstNew(r), FirstNew(r) \in Int,
           Fences(r)' + 1 = FirstNew(r), Fences(r)' \in Int
    PROVE  Has(r, k, key)'
<1> DEFINE new == UNION {staged[q] : q \in Rank}
<1>1. kvs' = {v \in kvs : \A w \in new : w.key # v.key} \cup new /\ staged[r] \subseteq new
  BY DEF Fence
<1>2. k < FirstNew(r) => Visible(key, kvs')
  <2> SUFFICES ASSUME k < FirstNew(r) PROVE Visible(key, kvs')
    OBVIOUS
  <2>1. PICK v \in kvs \cup staged[r] : v.key = key
    BY DEF Has, Visible
  <2>2. v \in kvs' \/ \E w \in new : w.key = key
    BY <1>1, <2>1
  <2> QED BY <1>1, <2>1, <2>2 DEF Visible
<1>3. \A S : Visible(key, kvs') => Visible(key, kvs' \cup S)
  BY DEF Visible
<1>4. k <= Fences(r)' => k < FirstNew(r)
  OBVIOUS
<1> QED BY <1>2, <1>3, <1>4 DEF Has

LEMMA HasKept ==
    ASSUME NEW r \in Rank, NEW k, NEW key, Has(r, k, key), kvs' = kvs, staged' = staged,
           FirstNew(r)' = FirstNew(r), Fences(r)' = Fences(r)
    PROVE  Has(r, k, key)'
  BY DEF Has, Visible

LEMMA RingBegin ==
    ASSUME MsgInv, RingInv, N > 1, NEW r \in Rank, Pmi2Begin(r)
    PROVE  RingInv'
<1> DEFINE c == Current(r)
           p == Peer(r)
           e == <<r, p>>
<1>1. /\ TypeInv /\ calls[r] # <<>> /\ pc[r] = "call" /\ Goto(r, "fence")
      /\ UNCHANGED <<backend, calls, kvs, coll_epoch, failed>>
  BY DEF MsgInv, Pmi2Begin, Calling, At, constVars, Fencing
<1>2. c \in 1 .. 6 /\ Head(calls[r]) = RingCall(r, c)
  BY <1>1, AtPlace
<1>3. pc'[r] = "fence" /\ \A q \in Rank \ {r} : pc'[q] = pc[q]
  BY <1>1 DEF TypeInv, Goto
<1>4. /\ \A q \in Rank : Current(q)' = Current(q) /\ Fences(q)' = Fences(q)
      /\ \A q \in Rank \ {r} : FirstNew(q)' = FirstNew(q)
      /\ FirstNew(r) = c /\ FirstNew(r)' = c + 1
  BY <1>1, <1>3 DEF Current, Fences, FirstNew
<1>5. Left(r) \in Rank \ {r} /\ Right(r) \in Rank \ {r} /\ <<r, Left(r)>> \in Pair
  BY Neighbours, PairOf
<1>6. SendAt(r) \in {1, 2}
  BY Places
<1>7. RingCounts(r) /\ RingEntries(r)
  BY DEF RingInv
<1>8. /\ staged[r] \subseteq staged'[r] /\ \A q \in Rank \ {r} : staged'[q] = staged[q]
      /\ c = SendAt(r) \/ c = SendAt(r) + 3 =>
             /\ p2p_seq' = [p2p_seq EXCEPT ![r][<<r, Left(r)>>] = @ + 1]
             /\ Visible(<<"p2p", Count(SendAt(r), c), <<r, Left(r)>>>>, staged'[r])
      /\ ~(c = SendAt(r) \/ c = SendAt(r) + 3) => p2p_seq' = p2p_seq
      /\ c = 3 => Visible(<<"ag", 0, r>>, staged'[r])
      /\ c = 6 /\ r = 0 => Visible(<<"bc", 1>>, staged'[r])
  <2>1. \A key, val : Put(r, key, val) =>
            /\ staged[r] \subseteq staged'[r] /\ \A q \in Rank \ {r} : staged'[q] = staged[q]
            /\ Visible(key, staged'[r])
    <3> SUFFICES ASSUME NEW key, NEW val, Put(r, key, val)
                 PROVE  /\ staged[r] \subseteq staged'[r]
                        /\ \A q \in Rank \ {r} : staged'[q] = staged[q]
                        /\ Visible(key, staged'[r])
      OBVIOUS
    <3>1. /\ staged'[r] = staged[r] \cup {[key |-> key, val |-> val]}
          /\ \A q \in Rank \ {r} : staged'[q] = staged[q]
      BY <1>1 DEF Put, TypeInv
    <3>2. [key |-> key, val |-> val] \in staged'[r] /\ [key |-> key, val |-> val].key = key
      BY <3>1
    <3>3. Visible(key, staged'[r])
      BY <3>2 DEF Visible
    <3> QED BY <3>1, <3>3
  <2>2. CASE c = SendAt(r) \/ c = SendAt(r) + 3
    <3>1. Head(calls[r]).op = "send" /\ Peer(r) = Left(r)
      BY <1>2, <2>2, RingCalls DEF Peer
    <3>2. Put(r, P2pKey(r, e), Message(e)) /\ NextSeq(r, e)
      BY <3>1 DEF Pmi2Begin, Calling
    <3>3. P2pKey(r, e) = <<"p2p", Count(SendAt(r), c), <<r, Left(r)>>>>
      BY <1>4, <1>7, <3>1 DEF P2pKey, RingCounts
    <3>4. c # 3 /\ c # 6
      BY <1>6, <2>2
    <3> QED BY <2>1, <2>2, <3>1, <3>2, <3>3, <3>4 DEF NextSeq
  <2>3. CASE c = 3
    <3>1. Head(calls[r]).op = "allgather"
      BY <1>2, <2>3, RingCalls
    <3>2. Put(r, <<"ag", coll_epoch[r], r>>, 0) /\ p2p_seq' = p2p_seq
      BY <3>1 DEF Pmi2Begin, Calling
    <3>3. coll_epoch[r] = 0
      BY <1>7, <2>3 DEF RingCounts, Count
    <3>4. ~(c = SendAt(r) \/ c = SendAt(r) + 3) /\ c # 6
      BY <1>6, <2>3
    <3> QED BY <2>1, <3>2, <3>3, <3>4
  <2>4. CASE c = 6
    <3>1. Head(calls[r]).op = "broadcast" /\ Peer(r) = 0
      BY <1>2, <2>4, RingCalls DEF Peer
    <3>2. /\ p2p_seq' = p2p_seq
          /\ IF r = 0 THEN Put(r, BroadcastKey(r), 0) ELSE UNCHANGED staged
      BY <3>1 DEF Pmi2Begin, Calling
    <3>3. BroadcastKey(r) = <<"bc", 1>>
      BY <1>7, <2>4 DEF RingCounts, Count, BroadcastKey
    <3>4. ~(c = SendAt(r) \/ c = SendAt(r) + 3) /\ c # 3
      BY <1>6, <2>4
    <3> QED BY <2>1, <3>2, <3>3, <3>4
  <2>5. CASE ~(c = SendAt(r) \/ c = SendAt(r) + 3) /\ c # 3 /\ c # 6
    <3>1. Head(calls[r]).op = "recv"
      BY <1>2, <2>5, RingCalls
    <3>2. UNCHANGED <<staged, p2p_seq>>
      BY <3>1 DEF Pmi2Begin, Calling
    <3> QED BY <2>5, <3>2
  <2> QED BY <2>2, <2>3, <2>4, <2>5
<1>9. ASSUME NEW q \in Rank PROVE RingPlace(q)'
  BY <1>1, <1>3 DEF RingInv, RingPlace
<1>10. ASSUME NEW q \in Rank PROVE RingCounts(q)'
  <2>1. RingCounts(q) /\ <<q, Left(q)>> \in Pair /\ <<Right(q), q>> \in Pair /\ Right(q) # q
    BY Neighbours, PairOf DEF RingInv
  <2>2. CASE q # r
    <3>1. p2p_seq'[q] = p2p_seq[q]
      BY <1>1, <1>5, <1>8, <2>2 DEF TypeInv
    <3> QED BY <1>1, <1>4, <2>1, <2>2, <3>1 DEF RingCounts
  <2>3. CASE q = r
    <3>1. Count(SendAt(r), c + 1) = IF c = SendAt(r) \/ c = SendAt(r) + 3
                                    THEN Count(SendAt(r), c) + 1 ELSE Count(SendAt(r), c)
      BY <1>2, <1>6, CountStep
    <3>2. p2p_seq'[r][<<Right(r), r>>] = p2p_seq[r][<<Right(r), r>>]
      BY <1>1, <1>5, <1>8, <2>1, <2>3, SMTT(20) DEF TypeInv
    <3>3. p2p_seq'[r][<<r, Left(r)>>] = Count(SendAt(r), c + 1)
      <4>1. CASE c = SendAt(r) \/ c = SendAt(r) + 3
        BY <1>1, <1>4, <1>5, <1>7, <1>8, <3>1, <4>1 DEF TypeInv, RingCounts
      <4>2. CASE ~(c = SendAt(r) \/ c = SendAt(r) + 3)
        BY <1>4, <1>7, <1>8, <3>1, <4>2 DEF RingCounts
      <4> QED BY <4>1, <4>2
    <3> QED BY <1>1, <1>4, <2>1, <2>3, <3>2, <3>3 DEF RingCounts
  <2> QED BY <2>2, <2>3
<1>11. ASSUME NEW q \in Rank PROVE RingEntries(q)'
  <2>1. RingEntries(q)
    BY DEF RingInv
  <2>2. ASSUME NEW k \in 1 .. 6, NEW key, Has(q, k, key),
               q = r /\ k = c => Visible(key, staged'[r])
        PROVE  Has(q, k, key)'
    <3>1. q = r => (k < FirstNew(r)' => k < FirstNew(r)) \/ Visible(key, staged'[r])
      BY <1>2, <1>4, <2>2
    <3> QED BY <1>1, <1>4, <1>8, <2>2, <3>1, HasBegin
  <2>3. SendAt(q) \in 1 .. 6 /\ SendAt(q) + 3 \in 1 .. 6
    BY Places
  <2>4. q = r /\ SendAt(q) = c => Visible(<<"p2p", 0, <<q, Left(q)>>>>, staged'[r])
    <3>1. SendAt(r) = c => Count(SendAt(r), c) = 0
      BY <1>2, <1>6, CountStep
    <3> QED BY <1>8, <3>1
  <2>5. q = r /\ SendAt(q) + 3 = c => Visible(<<"p2p", 1, <<q, Left(q)>>>>, staged'[r])
    <3>1. SendAt(r) + 3 = c => Count(SendAt(r), c) = 1
      BY <1>2, <1>6, CountStep
    <3> QED BY <1>8, <3>1
  <2>6. q = r /\ 3 = c => Visible(<<"ag", 0, q>>, staged'[r])
    BY <1>8
  <2>7. q = 0 => (q = r /\ 6 = c => Visible(<<"bc", 1>>, staged'[r]))
    BY <1>8
  <2>8. Has(q, SendAt(q), <<"p2p", 0, <<q, Left(q)>>>>)'
    BY <2>1, <2>2, <2>3, <2>4 DEF RingEntries
  <2>9. Has(q, SendAt(q) + 3, <<"p2p", 1, <<q, Left(q)>>>>)'
    BY <2>1, <2>2, <2>3, <2>5 DEF RingEntries
  <2>10. Has(q, 3, <<"ag", 0, q>>)'
    BY <2>1, <2>2, <2>6 DEF RingEntries
  <2>11. q = 0 => Has(q, 6, <<"bc", 1>>)'
    BY <2>1, <2>2, <2>7 DEF RingEntries
  <2> QED BY <2>8, <2>9, <2>10, <2>11 DEF RingEntries
<1>12. backend' = "pmi2" /\ failed' = {} /\ \A a, b \in Rank : Fences(a)' = Fences(b)'
  BY <1>1, <1>4 DEF RingInv
<1> QED BY <1>9, <1>10, <1>11, <1>12 DEF RingInv

LEMMA RingFence ==
    ASSUME MsgInv, RingInv, Fence
    PROVE  RingInv'
<1>1. /\ TypeInv /\ \A r \in Rank : pc[r] = "fence"
      /\ pc' = [r \in Rank |-> "fenced"]
      /\ UNCHANGED <<backend, calls, p2p_seq, coll_epoch, failed>>
  BY DEF MsgInv, Fence, At, constVars
<1>2. ASSUME NEW r \in Rank
      PROVE  /\ Current(r) \in 1 .. 7 /\ Current(r)' = Current(r)
             /\ FirstNew(r) = Current(r) + 1 /\ FirstNew(r)' = FirstNew(r)
             /\ Fences(r) = Current(r) - 1 /\ Fences(r)' = Current(r)
  <2>1. Current(r) \in 1 .. 7
    BY AtPlace
  <2>2. pc[r] = "fence" /\ pc'[r] = "fenced" /\ Current(r)' = Current(r)
    BY <1>1 DEF Current
  <2> QED BY <2>1, <2>2 DEF FirstNew, Fences
<1>3. ASSUME NEW r \in Rank PROVE RingPlace(r)'
  BY <1>1 DEF RingInv, RingPlace
<1>4. ASSUME NEW r \in Rank PROVE RingCounts(r)'
  BY <1>1, <1>2 DEF RingInv, RingCounts
<1>5. ASSUME NEW r \in Rank PROVE RingEntries(r)'
  <2>1. RingEntries(r) /\ DOMAIN staged = Rank
    BY <1>1 DEF RingInv, TypeInv
  <2>2. ASSUME NEW k \in 1 .. 6, NEW key, Has(r, k, key) PROVE Has(r, k, key)'
    <3>1. FirstNew(r)' = FirstNew(r) /\ FirstNew(r) \in Int /\ Fences(r)' + 1 = FirstNew(r) /\ Fences(r)' \in Int
      BY <1>2
    <3> QED BY <2>1, <2>2, <3>1, HasFence
  <2>3. SendAt(r) \in 1 .. 6 /\ SendAt(r) + 3 \in 1 .. 6
    BY Places
  <2>4. Has(r, SendAt(r), <<"p2p", 0, <<r, Left(r)>>>>)'
    BY <2>1, <2>2, <2>3 DEF RingEntries
  <2>5. Has(r, SendAt(r) + 3, <<"p2p", 1, <<r, Left(r)>>>>)'
    BY <2>1, <2>2, <2>3 DEF RingEntries
  <2>6. Has(r, 3, <<"ag", 0, r>>)' /\ (r = 0 => Has(r, 6, <<"bc", 1>>)')
    BY <2>1, <2>2 DEF RingEntries
  <2> QED BY <2>4, <2>5, <2>6 DEF RingEntries
<1>6. \A r, q \in Rank : Fences(r)' = Fences(q)'
  <2>1. ASSUME NEW r \in Rank, NEW q \in Rank PROVE Fences(r)' = Fences(q)'
    <3>1. Fences(r) = Fences(q)
      BY DEF RingInv
    <3> QED BY <1>2, <3>1
  <2> QED BY <2>1
<1> QED BY <1>1, <1>3, <1>4, <1>5, <1>6 DEF RingInv

(* What a call fetches is there: its peer has put it in this call or in an *)
(* earlier one.                                                            *)
LEMMA RingFound ==
    ASSUME MsgInv, RingInv, N > 1, NEW r \in Rank, calls[r] # <<>>, pc[r] = "fenced",
           NEW key \in Fetched(r)
    PROVE  Visible(key, kvs)
<1> DEFINE c == Current(r)
<1>1. c \in 1 .. 6 /\ Head(calls[r]) = RingCall(r, c)
  BY AtPlace
<1>2. \A q \in Rank : Fences(q) = c
  <2>1. Fences(r) = c
    BY DEF Fences
  <2> QED BY <2>1 DEF RingInv
<1>3. RingCounts(r)
  BY DEF RingInv
<1>4. CASE c = RecvAt(r) \/ c = RecvAt(r) + 3
  <2>1. Head(calls[r]).op = "recv" /\ Peer(r) = Right(r)
    BY <1>1, <1>4, RingCalls DEF Peer
  <2>2. key = P2pKey(r, <<Right(r), r>>)
    BY <2>1 DEF Fetched, Calling
  <2>3. PICK q \in Rank : q = Right(r) /\ Left(q) = r /\ SendAt(q) <= RecvAt(r)
    BY Neighbours
  <2>4. key = <<"p2p", Count(RecvAt(r), c), <<q, Left(q)>>>>
    BY <1>3, <2>2, <2>3 DEF P2pKey, RingCounts
  <2>5. SendAt(q) \in {1, 2} /\ RecvAt(r) \in {1, 2}
    BY <2>3, Places
  <2>6. RingEntries(q) /\ Fences(q) = c
    BY <1>2 DEF RingInv
  <2>7. CASE c = RecvAt(r)
    <3>1. Count(RecvAt(r), c) = 0 /\ SendAt(q) <= Fences(q)
      BY <1>1, <2>3, <2>5, <2>6, <2>7, CountStep
    <3> QED BY <2>4, <2>6, <3>1 DEF RingEntries, Has
  <2>8. CASE c = RecvAt(r) + 3
    <3>1. Count(RecvAt(r), c) = 1 /\ SendAt(q) + 3 <= Fences(q)
      BY <1>1, <2>3, <2>5, <2>6, <2>8, CountStep
    <3> QED BY <2>4, <2>6, <3>1 DEF RingEntries, Has
  <2> QED BY <1>4, <2>7, <2>8
<1>5. CASE c = 3
  <2>1. Head(calls[r]).op = "allgather"
    BY <1>1, <1>5, RingCalls
  <2>2. PICK s \in Rank : key = <<"ag", coll_epoch[r], s>>
    BY <2>1 DEF Fetched, Calling
  <2>3. coll_epoch[r] = 0
    BY <1>3, <1>5 DEF RingCounts, Count
  <2>4. Has(s, 3, <<"ag", 0, s>>) /\ 3 <= Fences(s)
    <3>1. RingEntries(s)
      BY DEF RingInv
    <3>2. Fences(s) = 3
      BY <1>2, <1>5
    <3> QED BY <3>1, <3>2 DEF RingEntries
  <2> QED BY <2>2, <2>3, <2>4 DEF Has
<1>6. CASE c = 6
  <2>1. Head(calls[r]).op = "broadcast"
    BY <1>1, <1>6, RingCalls
  <2>2. key = <<"bc", coll_epoch[r]>>
    BY <2>1 DEF Fetched, Calling, BroadcastKey
  <2>3. coll_epoch[r] = 1
    BY <1>3, <1>6 DEF RingCounts, Count
  <2>4. Has(0, 6, <<"bc", 1>>) /\ 6 <= Fences(0)
    <3>1. RingEntries(0)
      BY RankFacts DEF RingInv
    <3>2. Fences(0) = 6
      BY <1>2, <1>6, RankFacts
    <3> QED BY <3>1, <3>2 DEF RingEntries
  <2> QED BY <2>2, <2>3, <2>4 DEF Has
<1>7. CASE c = SendAt(r) \/ c = SendAt(r) + 3
  <2>1. Head(calls[r]).op = "send"
    BY <1>1, <1>7, RingCalls
  <2> QED BY <2>1 DEF Fetched, Calling
<1> QED BY <1>1, <1>4, <1>5, <1>6, <1>7, Places

LEMMA RingEnd ==
    ASSUME MsgInv, RingInv, N > 1, NEW r \in Rank, Pmi2End(r)
    PROVE  RingInv'
<1> DEFINE c == Current(r)
<1>1. /\ TypeInv /\ pc[r] = "fenced" /\ UNCHANGED <<backend, staged, kvs>>
  BY DEF MsgInv, Pmi2End, At, constVars
<1>2. calls[r] # <<>>
  BY <1>1 DEF MsgInv, PcInv, Calling
<1>3. c \in 1 .. 6 /\ Head(calls[r]) = RingCall(r, c) /\ Len(calls[r]) \in 0 .. 6
  BY <1>2, AtPlace
<1>4. /\ Return(r) /\ failed' = failed
      /\ IF Calling(r, {"recv", "sendrecv"}) THEN NextSeq(r, <<Peer(r), r>>) ELSE UNCHANGED p2p_seq
      /\ coll_epoch' = IF Calling(r, {"allgather", "broadcast"})
                       THEN [coll_epoch EXCEPT ![r] = @ + 1] ELSE coll_epoch
  <2>1. \A key \in Fetched(r) : \E v \in {w \in kvs : w.key \in Fetched(r)} : v.key = key
    BY <1>1, <1>2, RingFound DEF Visible
  <2> QED BY <2>1 DEF Pmi2End
<1>5. /\ calls'[r] = Tail(calls[r]) /\ pc'[r] = "call"
      /\ \A q \in Rank \ {r} : calls'[q] = calls[q] /\ pc'[q] = pc[q]
  BY <1>1, <1>4 DEF TypeInv, Return, Goto
<1>6. /\ Len(calls'[r]) = Len(calls[r]) - 1
      /\ \A i \in 1 .. Len(calls[r]) - 1 : calls'[r][i] = calls[r][i + 1]
  BY <1>2, <1>5, AheadOf, TailCalls
<1>7. Current(r)' = c + 1 /\ \A q \in Rank \ {r} : Current(q)' = Current(q)
  <2>1. c = 7 - Len(calls[r]) /\ Current(r)' = 7 - Len(calls'[r])
    BY DEF Current
  <2> QED BY <1>3, <1>5, <1>6, <2>1 DEF Current
<1>8. \A q \in Rank : FirstNew(q)' = FirstNew(q) /\ Fences(q)' = Fences(q)
  <2>1. FirstNew(r)' = FirstNew(r) /\ Fences(r)' = Fences(r)
    BY <1>1, <1>3, <1>5, <1>7 DEF FirstNew, Fences
  <2>2. \A q \in Rank \ {r} : FirstNew(q)' = FirstNew(q) /\ Fences(q)' = Fences(q)
    BY <1>5, <1>7 DEF FirstNew, Fences
  <2> QED BY <2>1, <2>2
<1>9. ASSUME NEW q \in Rank PROVE RingPlace(q)'
  <2>1. RingPlace(q)
    BY DEF RingInv
  <2>2. CASE q # r
    BY <1>5, <2>1, <2>2 DEF RingPlace
  <2>3. CASE q = r
    <3>1. ASSUME NEW i \in 1 .. Len(calls'[r])
          PROVE  calls'[r][i] = RingCall(r, 6 - Len(calls'[r]) + i)
      <4>1. /\ i \in 1 .. Len(calls[r]) - 1 /\ i + 1 \in 1 .. Len(calls[r])
            /\ 6 - Len(calls'[r]) + i = 6 - Len(calls[r]) + (i + 1)
        BY <1>3, <1>6
      <4>2. calls[r][i + 1] = RingCall(r, 6 - Len(calls[r]) + (i + 1))
        BY <2>1, <2>3, <4>1 DEF RingPlace
      <4> QED BY <1>6, <4>1, <4>2
    <3>2. Len(calls'[r]) <= 6
      <4>1. PICK m \in 0 .. 6 : m = Len(calls[r])
        BY <1>3
      <4>2. m \in 0 .. 6
        OBVIOUS
      <4>3. m - 1 <= 6
        BY ONLY <4>2
      <4> QED BY ONLY <1>6, <4>1, <4>3
    <3> QED BY <1>5, <2>3, <3>1, <3>2 DEF RingPlace
  <2> QED BY <2>2, <2>3
<1>10. Left(r) \in Rank \ {r} /\ Right(r) \in Rank \ {r} /\ <<Right(r), r>> \in Pair
  BY Neighbours, PairOf
<1>11. ASSUME NEW q \in Rank PROVE RingCounts(q)'
  <2>1. RingCounts(q) /\ <<q, Left(q)>> \in Pair /\ <<Right(q), q>> \in Pair
    BY Neighbours, PairOf DEF RingInv
  <2>2. CASE q # r
    <3>1. p2p_seq'[q] = p2p_seq[q] /\ coll_epoch'[q] = coll_epoch[q]
      BY <1>1, <1>4, <2>2 DEF TypeInv, NextSeq
    <3> QED BY <1>7, <1>8, <2>1, <2>2, <3>1 DEF RingCounts
  <2>3. CASE q = r
    <3>1. RecvAt(r) \in {1, 2}
      BY Places
    <3>2. /\ Count(RecvAt(r), c + 1) = IF c = RecvAt(r) \/ c = RecvAt(r) + 3
                                       THEN Count(RecvAt(r), c) + 1 ELSE Count(RecvAt(r), c)
          /\ Count(3, c + 1) = IF c = 3 \/ c = 6 THEN Count(3, c) + 1 ELSE Count(3, c)
      BY <1>3, <3>1, CountStep
    <3>3. Calling(r, {"allgather", "broadcast"}) <=> c = 3 \/ c = 6
      BY <1>2, <1>3, RingCalls DEF Calling
    <3>4. Calling(r, {"recv", "sendrecv"}) <=> c = RecvAt(r) \/ c = RecvAt(r) + 3
      BY <1>2, <1>3, RingCalls DEF Calling
    <3>5. coll_epoch'[r] = Count(3, c + 1)
      BY <1>1, <1>4, <2>1, <2>3, <3>2, <3>3 DEF TypeInv, RingCounts
    <3>6. /\ p2p_seq'[r][<<Right(r), r>>] = Count(RecvAt(r), c + 1)
          /\ p2p_seq'[r][<<r, Left(r)>>] = p2p_seq[r][<<r, Left(r)>>]
      <4>1. CASE c = RecvAt(r) \/ c = RecvAt(r) + 3
        <5>1. Peer(r) = Right(r)
          BY <1>3, <4>1, RingCalls DEF Peer
        <5>2. p2p_seq' = [p2p_seq EXCEPT ![r][<<Right(r), r>>] = @ + 1]
          BY <1>4, <3>4, <4>1, <5>1 DEF NextSeq
        <5>3. <<Right(r), r>> # <<r, Left(r)>>
          BY <1>10
        <5> QED BY <1>1, <1>10, <2>1, <2>3, <3>2, <4>1, <5>2, <5>3 DEF TypeInv, RingCounts
      <4>2. CASE ~(c = RecvAt(r) \/ c = RecvAt(r) + 3)
        BY <1>4, <2>1, <2>3, <3>2, <3>4, <4>2 DEF RingCounts
      <4> QED BY <4>1, <4>2
    <3> QED BY <1>7, <1>8, <2>1, <2>3, <3>5, <3>6 DEF RingCounts
  <2> QED BY <2>2, <2>3
<1>12. ASSUME NEW q \in Rank PROVE RingEntries(q)'
  <2>1. RingEntries(q)
    BY DEF RingInv
  <2>2. ASSUME NEW k, NEW key, Has(q, k, key) PROVE Has(q, k, key)'
    BY <1>1, <1>8, <2>2, HasKept
  <2>3. /\ Has(q, SendAt(q), <<"p2p", 0, <<q, Left(q)>>>>)'
        /\ Has(q, SendAt(q) + 3, <<"p2p", 1, <<q, Left(q)>>>>)'
    BY <2>1, <2>2 DEF RingEntries
  <2>4. Has(q, 3, <<"ag", 0, q>>)' /\ (q = 0 => Has(q, 6, <<"bc", 1>>)')
    BY <2>1, <2>2 DEF RingEntries
  <2> QED BY <2>3, <2>4 DEF RingEntries
<1>13. \A a, b \in Rank : Fences(a)' = Fences(b)'
  BY <1>8 DEF RingInv
<1> QED BY <1>1, <1>4, <1>9, <1>11, <1>12, <1>13 DEF RingInv

LEMMA RingNext ==
    ASSUME MsgInv, RingInv, N > 1, [Next]_vars
    PROVE  RingInv'
<1>1. backend = "pmi2"
  BY DEF RingInv
<1>2. \A r \in Rank : ~MpiPost(r) /\ ~MpiReceive(r) /\ ~MpiSent(r) /\ ~MpiBroadcast(r)
  BY <1>1 DEF MpiPost, MpiReceive, MpiSent, MpiBroadcast
<1>3. ~MpiCollective
  BY <1>1 DEF MpiCollective
<1>4. ASSUME NEW r \in Rank PROVE ~ModifyQp(r) /\ ~Construct(r)
  <2>1. calls[r] # <<>> => Head(calls[r]).op \in {"send", "recv", "allgather", "broadcast"}
    BY AtPlace, RingCalls
  <2> QED BY <2>1 DEF ModifyQp, Construct, Calling
<1>5. CASE UNCHANGED vars
  <2>1. UNCHANGED <<backend, calls, pc, staged, kvs, p2p_seq, coll_epoch, failed>>
    BY <1>5 DEF vars, bootVars
  <2>2. \A r \in Rank : RingPlace(r)'
    BY <2>1 DEF RingInv, RingPlace
  <2>3. \A r \in Rank : /\ Current(r)' = Current(r) /\ FirstNew(r)' = FirstNew(r)
                        /\ Fences(r)' = Fences(r)
    BY <2>1 DEF Current, FirstNew, Fences
  <2>4. \A r \in Rank : RingCounts(r)'
    BY <2>1, <2>3 DEF RingInv, RingCounts
  <2>5. \A r \in Rank : RingEntries(r)'
    BY <2>1, <2>3 DEF RingInv, RingEntries, Has, Visible
  <2> QED BY <2>1, <2>2, <2>3, <2>4, <2>5 DEF RingInv
<1> QED BY <1>2, <1>3, <1>4, <1>5, RingBegin, RingEnd, RingFence
        DEF Next, Step, Together, Finished, BootStep, BootTogether

LEMMA RingInit ==
    ASSUME Init, N > 1, backend = "pmi2", calls = [r \in Rank |-> Calls("ring", r)]
    PROVE  RingInv
<1>1. ASSUME NEW r \in Rank
      PROVE  Len(calls[r]) = 6 /\ \A i \in 1 .. 6 : calls[r][i] = RingCall(r, i)
  <2>1. PICK a, b : a = RingCall(r, 1) /\ b = RingCall(r, 2)
    OBVIOUS
  <2>2. /\ RingCall(r, 4) = a /\ RingCall(r, 5) = b
        /\ RingCall(r, 3) = Allgather /\ RingCall(r, 6) = Broadcast(0)
        /\ Ring(r) = <<a, b>>
    <3>1. CASE r % 2 = 0
      <4>1. SendAt(r) = 1 /\ RecvAt(r) = 2
        BY <3>1, Places
      <4> QED BY <2>1, <3>1, <4>1 DEF RingCall, Ring
    <3>2. CASE r % 2 # 0
      <4>1. SendAt(r) = 2 /\ RecvAt(r) = 1
        BY <3>2, Places
      <4> QED BY <2>1, <3>2, <4>1 DEF RingCall, Ring
    <3> QED BY <3>1, <3>2
  <2>3. PICK g, h : g = Allgather /\ h = Broadcast(0)
    OBVIOUS
  <2>4. calls[r] = <<a, b>> \o <<g>> \o <<a, b>> \o <<h>>
    BY <2>2, <2>3 DEF Calls
  <2>5. a \in CallSet /\ b \in CallSet /\ g \in CallSet /\ h \in CallSet
    <3>1. /\ Send(Left(r)) \in CallSet /\ Recv(Right(r)) \in CallSet
          /\ Allgather \in CallSet /\ Broadcast(0) \in CallSet
      BY Neighbours, CallTypes, OtherCalls, RankFacts
    <3>2. a \in {Send(Left(r)), Recv(Right(r))} /\ b \in {Send(Left(r)), Recv(Right(r))}
      BY <2>1, Places DEF RingCall
    <3> QED BY ONLY <2>3, <3>1, <3>2
  <2>6. /\ Len(calls[r]) = 6 /\ calls[r][1] = a /\ calls[r][2] = b /\ calls[r][3] = g
        /\ calls[r][4] = a /\ calls[r][5] = b /\ calls[r][6] = h
    <3>1. PICK x, y, z : x = <<a, b>> /\ y = <<g>> /\ z = <<h>>
      OBVIOUS
    <3>2. PICK s, t, u : s = x \o y /\ t = s \o x /\ u = t \o z
      OBVIOUS
    <3>3. calls[r] = u
      BY ONLY <2>4, <3>1, <3>2
    <3>4. /\ x \in Seq(CallSet) /\ Len(x) = 2 /\ x[1] = a /\ x[2] = b
          /\ y \in Seq(CallSet) /\ Len(y) = 1 /\ y[1] = g
          /\ z \in Seq(CallSet) /\ Len(z) = 1 /\ z[1] = h
      BY ONLY <2>5, <3>1
    <3>5. Joined(x, 2, y, 1, s)
      <4>1. Joined(x, Len(x), y, Len(y), s)
        BY ONLY <3>2, <3>4, Concatenation, Zenon
      <4> QED BY ONLY <4>1, <3>4, Zenon
    <3>6. s \in Seq(CallSet) /\ Len(s) = 3 /\ s[1] = a /\ s[2] = b /\ s[3] = g
      BY ONLY <3>4, <3>5 DEF Joined
    <3>7. Joined(s, 3, x, 2, t)
      <4>1. Joined(s, Len(s), x, Len(x), t)
        BY ONLY <3>2, <3>4, <3>6, Concatenation, Zenon
      <4> QED BY ONLY <4>1, <3>4, <3>6, Zenon
    <3>8. /\ t \in Seq(CallSet) /\ Len(t) = 5
          /\ t[1] = a /\ t[2] = b /\ t[3] = g /\ t[4] = a /\ t[5] = b
      BY ONLY <3>4, <3>6, <3>7 DEF Joined
    <3>9. Joined(t, 5, z, 1, u)
      <4>1. Joined(t, Len(t), z, Len(z), u)
        BY ONLY <3>2, <3>4, <3>8, Concatenation, Zenon
      <4> QED BY ONLY <4>1, <3>4, <3>8, Zenon
    <3>10. /\ Len(u) = 6 /\ u[1] = a /\ u[2] = b /\ u[3] = g
           /\ u[4] = a /\ u[5] = b /\ u[6] = h
      BY ONLY <3>4, <3>8, <3>9 DEF Joined
    <3> QED BY ONLY <3>3, <3>10
  <2>7. ASSUME NEW i \in 1 .. 6 PROVE calls[r][i] = RingCall(r, i)
    <3>1. i = 1 \/ i = 2 \/ i = 3 \/ i = 4 \/ i = 5 \/ i = 6
      OBVIOUS
    <3> QED BY <2>1, <2>2, <2>3, <2>6, <3>1
  <2> QED BY <2>6, <2>7
<1>2. \A r \in Rank : pc[r] = "call" /\ coll_epoch[r] = 0
  BY DEF Init, BootInit
<1>3. \A r \in Rank : Current(r) = 1 /\ FirstNew(r) = 1 /\ Fences(r) = 0
  <2>1. \A r \in Rank : Current(r) = 7 - 6
    BY <1>1 DEF Current
  <2> QED BY <1>2, <2>1 DEF FirstNew, Fences
<1>4. ASSUME NEW r \in Rank PROVE RingPlace(r)
  <2>1. ASSUME NEW i \in 1 .. Len(calls[r])
        PROVE  calls[r][i] = RingCall(r, 6 - Len(calls[r]) + i)
    <3>1. i \in 1 .. 6 /\ calls[r][i] = RingCall(r, i)
      BY <1>1
    <3>2. 6 - 6 + i = i
      BY <3>1
    <3> QED BY ONLY <1>1, <3>1, <3>2
  <2>2. Len(calls[r]) <= 6
    <3>1. 6 <= 6
      OBVIOUS
    <3> QED BY ONLY <1>1, <3>1
  <2> QED BY <1>2, <2>1, <2>2 DEF RingPlace
<1>5. ASSUME NEW r \in Rank PROVE RingCounts(r)
  <2>1. p2p_seq[r][<<r, Left(r)>>] = 0 /\ p2p_seq[r][<<Right(r), r>>] = 0
    BY Neighbours, PairOf DEF Init, BootInit
  <2>2. Count(SendAt(r), 1) = 0 /\ Count(RecvAt(r), 1) = 0 /\ Count(3, 1) = 0
    BY Places DEF Count
  <2> QED BY <1>2, <1>3, <2>1, <2>2 DEF RingCounts
<1>6. ASSUME NEW r \in Rank PROVE RingEntries(r)
  <2>1. ASSUME NEW k \in 1 .. 6, NEW key PROVE Has(r, k, key)
    BY <1>3 DEF Has
  <2>2. SendAt(r) \in 1 .. 6 /\ SendAt(r) + 3 \in 1 .. 6
    BY Places
  <2> QED BY <2>1, <2>2 DEF RingEntries
<1>7. failed = {}
  BY DEF Init, BootInit
<1> QED BY <1>3, <1>4, <1>5, <1>6, <1>7 DEF RingInv

(* The jobs in which every rank makes as many calls: over MPI all those of *)
(* this module, over PMI2 the ring, for two ranks or more.                 *)
InStep ==
    /\ Jobs \subseteq ({"mpi"} \X {"runtime", "fabric", "gather", "ring"})
                          \cup {<<"pmi2", "ring">>}
    /\ N > 1

LEMMA InitFailures == InStep /\ Init => NoFailure
<1> SUFFICES ASSUME InStep, Init PROVE NoFailure
  OBVIOUS
<1>1. PICK job \in Jobs : backend = job[1] /\ calls = [r \in Rank |-> Calls(job[2], r)]
  BY InitJob
<1>2. CASE job[1] = "mpi"
  BY <1>1, <1>2 DEF Init, BootInit, NoFailure
<1>3. CASE job = <<"pmi2", "ring">>
  <2>1. backend = "pmi2" /\ calls = [r \in Rank |-> Calls("ring", r)]
    BY <1>1, <1>3
  <2> QED BY <2>1, RingInit DEF InStep, NoFailure
<1>4. job[1] = "mpi" \/ job = <<"pmi2", "ring">>
  BY DEF InStep
<1> QED BY <1>2, <1>3, <1>4

LEMMA NextFailures == InStep /\ MsgInv /\ NoFailure /\ [Next]_vars => NoFailure'
<1> SUFFICES ASSUME InStep, MsgInv, NoFailure, [Next]_vars PROVE NoFailure'
  OBVIOUS
<1>1. CASE backend = "mpi" /\ failed = {}
  <2>1. \A r \in Rank : ~Pmi2End(r)
    BY <1>1 DEF Pmi2End
  <2>2. failed' = failed
    BY <2>1 DEF Next, Step, Together, Finished, BootStep, BootTogether, MpiPost, MpiReceive, MpiSent,
       MpiBroadcast, MpiCollective, Pmi2Begin, Fence, ModifyQp, Construct, vars, bootVars
  <2> QED BY <1>1, <2>2, StepKinds DEF NoFailure
<1>2. CASE RingInv
  BY <1>2, RingNext DEF InStep, NoFailure
<1> QED BY <1>1, <1>2 DEF NoFailure

LEMMA RingInStepFact == ASSUME MsgInv, NoFailure, N > 1 PROVE RingInStep
<1> SUFFICES ASSUME backend = "pmi2" PROVE RingInStep
  BY DEF RingInStep
<1>1. RingInv
  BY DEF NoFailure
<1>2. ASSUME NEW r \in Rank
      PROVE  /\ Len(sent[<<Right(r), r>>]) <= Len(received[<<Right(r), r>>]) + 1
             /\ Returned => received[<<Right(r), r>>] = sent[<<Right(r), r>>]
  <2> DEFINE q == Right(r)
             s == sent[<<q, r>>]
             t == received[<<q, r>>]
  <2>1. q \in Rank \ {r} /\ Left(q) = r
    BY <1>2, Neighbours
  <2>2. /\ Counted(s, t) /\ s \in Seq(Nat) /\ t \in Seq(Nat)
        /\ p2p_seq[q][<<q, r>>] = Len(s) /\ p2p_seq[r][<<q, r>>] = Len(t)
    BY <2>1, PairOf DEF MsgInv, TypeInv, Numbered, SeqInv
  <2>3. /\ Len(s) = Count(SendAt(q), FirstNew(q))
        /\ Len(t) = Count(RecvAt(r), Current(r))
        /\ Fences(q) = Fences(r)
    BY <1>1, <2>1, <2>2 DEF RingInv, RingCounts
  <2>4. /\ SendAt(q) \in {1, 2} /\ RecvAt(r) \in {1, 2}
        /\ Current(r) \in 1 .. 7 /\ Current(q) \in 1 .. 7
    BY <1>1, <2>1, Places, AtPlace
  <2>5. Len(s) <= Len(t) + 1
    <3>1. CASE FirstNew(q) <= SendAt(q) + 3
      BY <2>3, <2>4, <3>1 DEF Count, FirstNew
    <3>2. CASE FirstNew(q) > SendAt(q) + 3
      <4>1. Current(q) >= 4
        BY <2>4, <3>2 DEF FirstNew
      <4>2. Current(r) >= 3
        BY <2>3, <2>4, <4>1 DEF Fences
      <4> QED BY <2>3, <2>4, <4>2 DEF Count
    <3> QED BY <2>4, <3>1, <3>2 DEF FirstNew
  <2>6. ASSUME Returned PROVE s = t
    <3>1. Current(r) = 7 /\ FirstNew(q) \in 7 .. 8
      BY <2>1, <2>4, <2>6 DEF Returned, Current, FirstNew
    <3>2. Len(s) = 2 /\ Len(t) = 2
      BY <2>3, <2>4, <3>1 DEF Count
    <3>3. \A i \in 1 .. 2 : s[i] = i /\ t[i] = i
      BY <2>2, <3>2 DEF Counted
    <3>4. s \in Seq(Nat) /\ t \in Seq(Nat)
      BY <2>2
    <3> HIDE DEF s, t
    <3> QED BY ONLY <3>2, <3>3, <3>4
  <2> QED BY <2>5, <2>6
<1> QED BY <1>1, <1>2 DEF RingInv, RingInStep

(* Around the ring no rank looks for a key that its neighbour has not put  *)
(* (bootstrap_pmi2.hpp:140-157): it put it at an earlier fence or at this  *)
(* one, and no message is left over.  For any number of ranks above one,   *)
(* odd or even.                                                            *)
THEOREM RingTheorem == ASSUME InStep PROVE Spec => []RingInStep
<1>1. Spec => []NoFailure
  BY Messages, InitFailures, NextFailures, PTL DEF Spec
<1>2. MsgInv /\ NoFailure => RingInStep
  BY RingInStepFact DEF InStep
<1> QED BY <1>1, <1>2, Messages, PTL
=============================================================================
