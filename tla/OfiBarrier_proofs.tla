-------------------------- MODULE OfiBarrier_proofs --------------------------
(***************************************************************************)
(* Theorems about OfiBarrier, for any number of ranks, any pool of receive *)
(* buffers and any number of barriers, whether the fabric keeps the order  *)
(* of messages or not: the host barrier is a barrier, one bit of phase     *)
(* identifies a message, and no receive buffer is lost.                    *)
(***************************************************************************)
EXTENDS OfiBarrier, FiniteSets, FiniteSetTheorems, SequenceTheorems, TLAPS

-----------------------------------------------------------------------------
(* The inductive invariant.                                                *)

Bit(b) == IF b THEN 1 ELSE 0
Inside(r) == pc[r] # "out"

(* Barriers rank r has come out of, and those whose step-k message it has  *)
(* sent.                                                                   *)
Left(r) == IF Inside(r) THEN calls[r] - 1 ELSE calls[r]
Sent(r, k) ==
    Left(r) + Bit(/\ Inside(r)
                  /\ k < step[r] \/ (k = step[r] /\ pc[r] = "wait"))

(* The messages on their way to rank r, and those it has not polled.       *)
Messages == [src : Rank, dst : Rank, step : Step, phase : Phase,
             call : 1 .. MaxBarriers]
Unpolled(r) == {cq[r][i] : i \in 1 .. Len(cq[r])}
To(r) == {m \in wire : m.dst = r} \cup Unpolled(r)

Types ==
    /\ TypeOK
    /\ cq \in [Rank -> Seq(Messages)]
    /\ \A r \in Rank : Inside(r) => calls[r] > 0

(* No message is twice in the network.                                     *)
QueueInv ==
    \A r \in Rank :
        /\ \A i, j \in 1 .. Len(cq[r]) : i # j => cq[r][i] # cq[r][j]
        /\ Unpolled(r) \cap wire = {}

(* A message was sent, and its receiver has not passed the wait for it.    *)
MessageInv ==
    \A r \in Rank : \A m \in To(r) :
        /\ m.dst = r /\ r = Fwd(m.src, m.step)
        /\ m.phase = m.call % 2
        /\ m.call <= Sent(m.src, m.step)
        /\ m.call > Left(r)

(* The rank whose message rank r waits for in step k.                      *)
From(r, k) == IF r >= Dist[k] THEN r - Dist[k] ELSE r - Dist[k] + N

(* No message of rank r's own barrier is missing for a step it has passed, *)
(* and one noted in its phase is of its own barrier and is gone.           *)
Awaited(r, k) == \E m \in To(r) : m.step = k /\ m.call = calls[r]
Noted(r, k) == <<phase[r], k>> \in arrived[r]
ArrivedAt(r, k) ==
    Inside(r) =>
        /\ k < step[r] => Noted(r, k)
        /\ Noted(r, k) => Sent(From(r, k), k) >= calls[r] /\ ~Awaited(r, k)
ArrivedInv == \A r \in Rank : /\ phase[r] = calls[r] % 2
                             /\ \A k \in Step : ArrivedAt(r, k)

(* A rank comes out of a barrier with the messages of all its steps.       *)
PassedInv == \A r \in Rank, k \in Step : Left(r) <= Sent(From(r, k), k)

(* How far rank j is behind rank r on the ring; what a rank in step k      *)
(* knows.                                                                  *)
Behind(r, j) == IF j <= r THEN r - j ELSE r - j + N

WindowInv ==
    \A r \in Rank : \A k \in 0 .. NSteps :
        Inside(r) /\ k <= step[r] =>
            \A j \in Rank : Behind(r, j) < Dist[k] => calls[j] >= calls[r]

BarrierInv == \A r, j \in Rank : Left(r) <= calls[j]

(* Every receive buffer is posted, waits in the completion queue, or is    *)
(* to be reposted.                                                         *)
PoolInv ==
    \A r \in Rank :
        posted[r] + Len(cq[r]) + (IF Inside(r) THEN num_pending[r] ELSE 0)
          = RECV_POOL_SIZE

(* The buffers to be reposted are those of messages of this barrier and of *)
(* the next, at most one per step of each.                                 *)
Now(r) == {k \in Step : <<phase[r], k>> \in arrived[r]}
Early(r) ==
    {k \in Step : /\ Sent(From(r, k), k) > calls[r]
                  /\ \A m \in To(r) : m.step = k => m.call # calls[r] + 1}

PendingInv ==
    \A r \in Rank :
        /\ num_pending[r] <= 2 * NSteps
        /\ Inside(r) => num_pending[r] <= Cardinality(Now(r))
                                          + Cardinality(Early(r))

IInv == /\ Types /\ QueueInv /\ MessageInv /\ ArrivedInv /\ PassedInv
        /\ WindowInv /\ BarrierInv /\ PoolInv /\ PendingInv

-----------------------------------------------------------------------------
(* The ring.                                                               *)
LEMMA FwdOnce ==
    ASSUME NEW r \in Rank, NEW k \in Step
    PROVE  Fwd(r, k) = IF r + Dist[k] < N THEN r + Dist[k]
                                          ELSE r + Dist[k] - N
<1>1. Dist[k] \in Nat /\ Dist[k] < N
  BY StepsAssumption DEF Step
<1>2. r \in Nat /\ r < N /\ N \in Nat \ {0}
  BY SizeAssumption DEF Rank
<1>3. PICK a \in Nat : a = r + Dist[k]
  BY <1>1, <1>2
<1>4. a % N = IF a < N THEN a ELSE a - N
  <2>1. CASE a < N
    BY <2>1, <1>2
  <2>2. CASE ~(a < N)
    BY <2>2, <1>1, <1>2, <1>3
  <2> QED BY <2>1, <2>2
<1>5. Fwd(r, k) = a % N
  BY <1>3 DEF Fwd
<1> QED BY <1>1, <1>2, <1>3, <1>4, <1>5

(* The rank that r sends to in step k waits for r.                         *)
LEMMA FwdFrom ==
    ASSUME NEW r \in Rank, NEW k \in Step
    PROVE  /\ Fwd(r, k) \in Rank /\ From(Fwd(r, k), k) = r
           /\ From(r, k) \in Rank
<1>1. Dist[k] \in Nat /\ Dist[k] < N
  BY StepsAssumption DEF Step
<1>2. r \in Nat /\ r < N /\ N \in Nat \ {0}
  BY SizeAssumption DEF Rank
<1> QED BY <1>1, <1>2, FwdOnce DEF From, Rank

(* A step of dissemination doubles what a rank knows, and NSteps steps     *)
(* cover the ring.                                                         *)
LEMMA WindowDoubles ==
    ASSUME NEW r \in Rank, NEW k \in Step, NEW j \in Rank,
           Behind(r, j) < Dist[k + 1]
    PROVE  Behind(r, j) < Dist[k] \/ Behind(From(r, k), j) < Dist[k]
<1>1. Dist[k] \in Nat /\ Dist[k] < N /\ Dist[k + 1] = 2 * Dist[k]
  BY StepsAssumption DEF Step
<1> QED BY <1>1, SizeAssumption DEF Behind, From, Rank

LEMMA LastWindow ==
    ASSUME NEW r \in Rank, NEW j \in Rank
    PROVE  Behind(r, j) < Dist[NSteps]
<1>1. Behind(r, j) < N /\ Behind(r, j) \in Nat
  BY SizeAssumption DEF Behind, Rank
<1>2. Dist[NSteps] \in Nat /\ N <= Dist[NSteps] /\ N \in Nat
  BY StepsAssumption, SizeAssumption
<1> QED BY <1>1, <1>2

(* With two ranks or more there is a step, and 0 is one.                   *)
LEMMA SomeStep == N > 1 => 0 \in Step
<1>1. NSteps \in Nat /\ Dist[0] = 1 /\ N <= Dist[NSteps] /\ N \in Nat
  BY StepsAssumption, SizeAssumption
<1>2. ASSUME N > 1 PROVE NSteps # 0
  BY <1>1, <1>2
<1> QED BY <1>1, <1>2 DEF Step

-----------------------------------------------------------------------------
(* Counting and types.                                                     *)
LEMMA StepFacts ==
    /\ NSteps \in Nat
    /\ \A k \in Step : k \in Nat /\ k < NSteps
    /\ IsFiniteSet(Step) /\ Cardinality(Step) = NSteps
<1>1. NSteps \in Nat
  BY StepsAssumption
<1>2. IsFiniteSet(0 .. NSteps - 1) /\ Cardinality(0 .. NSteps - 1) = NSteps
  BY <1>1, FS_Interval
<1> QED BY <1>1, <1>2 DEF Step

(* The state of a rank and of its place in the barriers.                   *)
LEMMA RankFacts ==
    ASSUME Types, NEW r \in Rank
    PROVE  /\ calls[r] \in 0 .. MaxBarriers /\ step[r] \in Nat
           /\ phase[r] \in Phase /\ arrived[r] \subseteq Phase \X Step
           /\ num_pending[r] \in Nat /\ posted[r] \in Nat
           /\ pc[r] \in {"out", "send", "wait"}
           /\ Inside(r) => step[r] \in Step /\ calls[r] \in 1 .. MaxBarriers
           /\ Left(r) \in Nat
           /\ cq[r] \in Seq(Messages) /\ Len(cq[r]) \in Nat
           /\ MaxBarriers \in Nat /\ RECV_POOL_SIZE \in Nat
<1>1. cq[r] \in Seq(Messages)
  BY DEF Types
<1>2. /\ calls[r] \in 0 .. MaxBarriers /\ MaxBarriers \in Nat
      /\ Inside(r) => calls[r] > 0
  BY SizeAssumption DEF Types, TypeOK
<1>3. Left(r) \in Nat
  BY <1>2 DEF Left
<1> QED BY <1>1, <1>2, <1>3, SizeAssumption DEF Types, TypeOK, Inside

(* Sent lies between Left and calls.                                       *)
LEMMA SentFacts ==
    ASSUME Types, NEW r \in Rank, NEW k \in Step
    PROVE  /\ Left(r) \in Nat /\ Sent(r, k) \in Nat
           /\ Left(r) <= Sent(r, k) /\ Sent(r, k) <= calls[r]
           /\ calls[r] <= Left(r) + 1
<1>1. calls[r] \in Nat /\ Left(r) \in Nat
  BY RankFacts
<1> QED BY <1>1 DEF Left, Sent, Bit

(* A message that is under way has the fields it was sent with.            *)
LEMMA MessageFacts ==
    ASSUME Types, NEW r \in Rank, NEW m \in To(r)
    PROVE  /\ m \in Messages
           /\ m.src \in Rank /\ m.dst \in Rank /\ m.step \in Step
           /\ m.call \in Nat
<1>1. m \in wire \/ m \in Unpolled(r)
  BY DEF To
<1>2. m \in Messages
  <2>1. CASE m \in wire
    BY <2>1 DEF Types, TypeOK, Messages
  <2>2. CASE m \in Unpolled(r)
    <3>1. PICK i \in 1 .. Len(cq[r]) : m = cq[r][i]
      BY <2>2 DEF Unpolled
    <3>2. cq[r] \in Seq(Messages)
      BY DEF Types
    <3> QED BY <3>1, <3>2
  <2> QED BY <1>1, <2>1, <2>2
<1> QED BY <1>2 DEF Messages

-----------------------------------------------------------------------------
(* How the steps change what is under way.                                 *)

(* Taking the first of different elements, and adding one.                 *)
LEMMA TailElements ==
    ASSUME NEW S, NEW s \in Seq(S), s # <<>>,
           \A i, j \in 1 .. Len(s) : i # j => s[i] # s[j]
    PROVE  /\ {Tail(s)[i] : i \in 1 .. Len(Tail(s))}
                = {s[i] : i \in 1 .. Len(s)} \ {Head(s)}
           /\ Head(s) \in {s[i] : i \in 1 .. Len(s)}
           /\ \A i, j \in 1 .. Len(Tail(s)) : i # j => Tail(s)[i] # Tail(s)[j]
           /\ Tail(s) \in Seq(S) /\ Len(Tail(s)) = Len(s) - 1
           /\ Len(s) \in Nat \ {0}
<1>1. /\ Tail(s) \in Seq(S) /\ Len(Tail(s)) = Len(s) - 1
      /\ \A i \in 1 .. Len(Tail(s)) : Tail(s)[i] = s[i + 1]
  BY HeadTailProperties
<1>2. Len(s) \in Nat \ {0}
  BY EmptySeq
<1>3. Head(s) = s[1] /\ 1 \in 1 .. Len(s)
  BY <1>2
<1>4. ASSUME NEW i \in 1 .. Len(Tail(s))
      PROVE  i + 1 \in 1 .. Len(s) /\ i + 1 # 1 /\ Tail(s)[i] = s[i + 1]
  BY <1>1, <1>2
<1>5. ASSUME NEW i \in 1 .. Len(s), i # 1
      PROVE  i - 1 \in 1 .. Len(Tail(s)) /\ s[i] = Tail(s)[i - 1]
  <2>1. i - 1 \in 1 .. Len(Tail(s)) /\ (i - 1) + 1 = i
    BY <1>1, <1>2, <1>5
  <2> QED BY <1>1, <2>1
<1>6. ASSUME NEW i \in 1 .. Len(Tail(s))
      PROVE  Tail(s)[i] \in {s[j] : j \in 1 .. Len(s)} \ {Head(s)}
  BY <1>3, <1>4
<1>7. ASSUME NEW i \in 1 .. Len(s), s[i] # Head(s)
      PROVE  s[i] \in {Tail(s)[j] : j \in 1 .. Len(Tail(s))}
  BY <1>3, <1>5, <1>7
<1>8. ASSUME NEW i \in 1 .. Len(Tail(s)), NEW j \in 1 .. Len(Tail(s)), i # j
      PROVE  Tail(s)[i] # Tail(s)[j]
  <2>1. i + 1 # j + 1
    BY <1>8
  <2> QED BY <1>4, <2>1
<1> QED BY <1>1, <1>2, <1>3, <1>6, <1>7, <1>8

LEMMA AppendElements ==
    ASSUME NEW S, NEW s \in Seq(S), NEW m \in S,
           m \notin {s[i] : i \in 1 .. Len(s)},
           \A i, j \in 1 .. Len(s) : i # j => s[i] # s[j]
    PROVE  /\ {Append(s, m)[i] : i \in 1 .. Len(Append(s, m))}
                = {s[i] : i \in 1 .. Len(s)} \cup {m}
           /\ \A i, j \in 1 .. Len(Append(s, m)) :
                i # j => Append(s, m)[i] # Append(s, m)[j]
           /\ Append(s, m) \in Seq(S) /\ Len(Append(s, m)) = Len(s) + 1
           /\ Len(s) \in Nat
<1>1. /\ Append(s, m) \in Seq(S) /\ Len(Append(s, m)) = Len(s) + 1
      /\ Len(s) \in Nat
  OBVIOUS
<1>2. Append(s, m)[Len(s) + 1] = m
  OBVIOUS
<1>3. \A i \in 1 .. Len(s) : Append(s, m)[i] = s[i]
  OBVIOUS
<1>4. \A i \in 1 .. Len(Append(s, m)) : i \in 1 .. Len(s) \/ i = Len(s) + 1
  BY <1>1
<1>5. \A i \in 1 .. Len(s) : i \in 1 .. Len(Append(s, m))
  BY <1>1
<1>6. Len(s) + 1 \in 1 .. Len(Append(s, m))
  BY <1>1
<1> HIDE <1>1
<1>7. {Append(s, m)[i] : i \in 1 .. Len(Append(s, m))}
        = {s[i] : i \in 1 .. Len(s)} \cup {m}
  BY <1>2, <1>3, <1>4, <1>5, <1>6
<1>8. \A i, j \in 1 .. Len(Append(s, m)) :
         i # j => Append(s, m)[i] # Append(s, m)[j]
  BY <1>2, <1>3, <1>4
<1> QED BY <1>1, <1>7, <1>8

(* Polling takes a message that was under way to this rank.                *)
LEMMA PollTo ==
    ASSUME Types, QueueInv, NEW r \in Rank, Poll(r), UNCHANGED wire
    PROVE  /\ Head(cq[r]) \in To(r) /\ To(r)' = To(r) \ {Head(cq[r])}
           /\ \A q \in Rank : q # r => To(q)' = To(q)
           /\ QueueInv'
           /\ cq' \in [Rank -> Seq(Messages)]
           /\ Len(cq[r]) \in Nat \ {0} /\ Len(cq'[r]) = Len(cq[r]) - 1
           /\ \A q \in Rank : q # r => cq'[q] = cq[q]
<1>1. /\ cq \in [Rank -> Seq(Messages)] /\ cq[r] \in Seq(Messages)
      /\ cq[r] # <<>>
      /\ \A i, j \in 1 .. Len(cq[r]) : i # j => cq[r][i] # cq[r][j]
  BY DEF Types, Poll, QueueInv
<1>2. cq'[r] = Tail(cq[r]) /\ \A q \in Rank : q # r => cq'[q] = cq[q]
  BY <1>1 DEF Poll
<1>3. /\ Unpolled(r)' = Unpolled(r) \ {Head(cq[r])}
      /\ Head(cq[r]) \in Unpolled(r)
      /\ \A i, j \in 1 .. Len(cq'[r]) : i # j => cq'[r][i] # cq'[r][j]
      /\ cq'[r] \in Seq(Messages) /\ Len(cq'[r]) = Len(cq[r]) - 1
      /\ Len(cq[r]) \in Nat \ {0}
  <2>1. PICK c \in Seq(Messages) : c = cq[r]
    BY <1>1
  <2>2. PICK t : t = cq'[r]
    OBVIOUS
  <2>3. /\ {Tail(c)[i] : i \in 1 .. Len(Tail(c))}
             = {c[i] : i \in 1 .. Len(c)} \ {Head(c)}
        /\ Head(c) \in {c[i] : i \in 1 .. Len(c)}
        /\ \A i, j \in 1 .. Len(Tail(c)) : i # j => Tail(c)[i] # Tail(c)[j]
        /\ Tail(c) \in Seq(Messages) /\ Len(Tail(c)) = Len(c) - 1
        /\ Len(c) \in Nat \ {0}
    <3>1. c # <<>> /\ \A i, j \in 1 .. Len(c) : i # j => c[i] # c[j]
      BY <1>1, <2>1
    <3> QED BY ONLY <3>1, c \in Seq(Messages), TailElements, Zenon
  <2>4. t = Tail(c)
    BY <1>2, <2>1, <2>2
  <2>5. /\ Unpolled(r)' = {t[i] : i \in 1 .. Len(t)}
        /\ Unpolled(r) = {c[i] : i \in 1 .. Len(c)}
    BY <2>1, <2>2 DEF Unpolled
  <2>6. /\ \A i, j \in 1 .. Len(t) : i # j => t[i] # t[j]
        /\ t \in Seq(Messages) /\ Len(t) = Len(c) - 1
        /\ Len(c) \in Nat \ {0}
    BY ONLY <2>3, <2>4
  <2>7. {t[i] : i \in 1 .. Len(t)}
          = {c[i] : i \in 1 .. Len(c)} \ {Head(c)}
    BY ONLY <2>3, <2>4
  <2>8. Head(c) \in {c[i] : i \in 1 .. Len(c)}
    BY ONLY <2>3
  <2>9. /\ Unpolled(r)' = Unpolled(r) \ {Head(c)}
        /\ Head(c) \in Unpolled(r)
    BY ONLY <2>5, <2>7, <2>8
  <2> QED BY ONLY <2>1, <2>2, <2>6, <2>9
<1>4. \A q \in Rank : q # r => Unpolled(q)' = Unpolled(q)
  BY <1>2 DEF Unpolled
<1>5. Head(cq[r]) \notin wire
  BY <1>3 DEF QueueInv
<1>6. To(r)' = To(r) \ {Head(cq[r])} /\ Head(cq[r]) \in To(r)
  BY <1>3, <1>5 DEF To
<1>7. \A q \in Rank : q # r => To(q)' = To(q)
  BY <1>4 DEF To
<1>8. cq' \in [Rank -> Seq(Messages)]
  BY <1>1, <1>3 DEF Poll
<1>9. QueueInv'
  <2>1. ASSUME NEW q \in Rank
        PROVE  /\ \A i, j \in 1 .. Len(cq'[q]) :
                    i # j => cq'[q][i] # cq'[q][j]
               /\ Unpolled(q)' \cap wire' = {}
    <3>1. CASE q = r
      BY <1>3, <3>1 DEF QueueInv
    <3>2. CASE q # r
      BY <1>2, <1>4, <3>2 DEF QueueInv
    <3> QED BY <3>1, <3>2
  <2> QED BY <2>1 DEF QueueInv
<1> QED BY <1>2, <1>3, <1>6, <1>7, <1>8, <1>9

(* Receiving moves a message from the wire to its rank's queue.            *)
LEMMA ReceiveTo ==
    ASSUME Types, QueueInv, NEW m \in wire, Receive(m)
    PROVE  /\ \A q \in Rank : To(q)' = To(q)
           /\ QueueInv'
           /\ m.dst \in Rank
           /\ cq' \in [Rank -> Seq(Messages)]
           /\ Len(cq'[m.dst]) = Len(cq[m.dst]) + 1
           /\ \A q \in Rank : q # m.dst => cq'[q] = cq[q]
<1> DEFINE d == m.dst
<1>1. m \in Messages /\ d \in Rank
  BY DEF Types, TypeOK, Messages
<1>2. /\ cq \in [Rank -> Seq(Messages)] /\ cq[d] \in Seq(Messages)
      /\ \A i, j \in 1 .. Len(cq[d]) : i # j => cq[d][i] # cq[d][j]
      /\ m \notin Unpolled(d)
  BY <1>1 DEF Types, QueueInv
<1>3. /\ cq'[d] = Append(cq[d], m) /\ wire' = wire \ {m}
      /\ \A q \in Rank : q # d => cq'[q] = cq[q]
  BY <1>1, <1>2 DEF Receive
<1>4. /\ Unpolled(d)' = Unpolled(d) \cup {m}
      /\ \A i, j \in 1 .. Len(cq'[d]) : i # j => cq'[d][i] # cq'[d][j]
      /\ cq'[d] \in Seq(Messages) /\ Len(cq'[d]) = Len(cq[d]) + 1
  BY <1>1, <1>2, <1>3, AppendElements DEF Unpolled
<1>5. \A q \in Rank : q # d => Unpolled(q)' = Unpolled(q)
  BY <1>3 DEF Unpolled
<1>6. \A q \in Rank : To(q)' = To(q)
  BY <1>3, <1>4, <1>5 DEF To
<1>7. cq' \in [Rank -> Seq(Messages)]
  BY <1>1, <1>2, <1>4 DEF Receive
<1>8. QueueInv'
  <2>1. ASSUME NEW q \in Rank
        PROVE  /\ \A i, j \in 1 .. Len(cq'[q]) : i # j => cq'[q][i] # cq'[q][j]
               /\ Unpolled(q)' \cap wire' = {}
    <3>1. CASE q = d
      BY <1>3, <1>4, <3>1 DEF QueueInv
    <3>2. CASE q # d
      BY <1>3, <1>5, <3>2 DEF QueueInv
    <3> QED BY <3>1, <3>2
  <2> HIDE DEF d
  <2> QED BY <2>1 DEF QueueInv
<1> QED BY <1>1, <1>3, <1>4, <1>6, <1>7, <1>8

(* Injecting adds a message that was not under way.                        *)
LEMMA InjectTo ==
    ASSUME Types, QueueInv, MessageInv, NEW r \in Rank, Inject(r)
    PROVE  /\ Message(r) \in Messages /\ step[r] \in Step
           /\ Message(r).call = calls[r] /\ Message(r).step = step[r]
           /\ Message(r).src = r /\ Message(r).phase = phase[r]
           /\ Message(r).dst = Fwd(r, step[r])
           /\ Sent(r, step[r]) = calls[r] - 1
           /\ \A q \in Rank :
                To(q)' = IF q = Fwd(r, step[r]) THEN To(q) \cup {Message(r)}
                                                ELSE To(q)
           /\ QueueInv'
<1>1. step[r] \in Step /\ calls[r] \in Nat /\ Inside(r) /\ pc[r] = "send"
  BY RankFacts DEF Inject, Inside
<1>2. Sent(r, step[r]) = calls[r] - 1
  BY <1>1, StepFacts DEF Sent, Left, Bit
<1>3. Message(r) \in Messages
  <2>1. calls[r] \in 1 .. MaxBarriers
    BY <1>1, RankFacts
  <2> QED BY <1>1, <2>1, FwdFrom, RankFacts DEF Message, Messages
<1>4. /\ Message(r).call = calls[r] /\ Message(r).step = step[r]
      /\ Message(r).src = r /\ Message(r).phase = phase[r]
      /\ Message(r).dst = Fwd(r, step[r])
  BY DEF Message
<1>5. ASSUME NEW q \in Rank
      PROVE  Message(r) \notin To(q)
  <2>1. SUFFICES ASSUME Message(r) \in To(q)
                 PROVE  FALSE
    OBVIOUS
  <2>2. Message(r).call <= Sent(Message(r).src, Message(r).step)
    BY <2>1 DEF MessageInv
  <2> QED BY <1>1, <1>2, <1>4, <2>2
<1>6. wire' = wire \cup {Message(r)} /\ cq' = cq
  BY DEF Inject
<1>7. \A q \in Rank : Unpolled(q)' = Unpolled(q)
  BY <1>6 DEF Unpolled
<1> HIDE DEF Message
<1>8. \A q \in Rank :
         To(q)' = IF q = Fwd(r, step[r]) THEN To(q) \cup {Message(r)}
                                         ELSE To(q)
  BY <1>4, <1>6, <1>7 DEF To
<1>9. QueueInv'
  BY <1>5, <1>6, <1>7 DEF QueueInv, To
<1> QED BY <1>1, <1>2, <1>3, <1>4, <1>8, <1>9

(* The other steps touch nothing that is under way.                        *)
LEMMA QuietTo ==
    ASSUME UNCHANGED <<wire, cq>>
    PROVE  /\ \A q \in Rank : To(q)' = To(q)
           /\ QueueInv => QueueInv'
<1>1. \A q : Unpolled(q)' = Unpolled(q)
  BY DEF Unpolled
<1> QED BY <1>1 DEF To, QueueInv

-----------------------------------------------------------------------------
(* What the steps of rank r leave alone.                                   *)
SameRank(q) ==
    /\ calls'[q] = calls[q] /\ pc'[q] = pc[q] /\ step'[q] = step[q]
    /\ phase'[q] = phase[q] /\ arrived'[q] = arrived[q]
    /\ num_pending'[q] = num_pending[q]

LEMMA OtherRank ==
    ASSUME Types, NEW r \in Rank, NEW q \in Rank, q # r, RankStep(r)
    PROVE  SameRank(q) /\ posted'[q] = posted[q] /\ cq'[q] = cq[q]
<1> USE DEF Types, TypeOK, SameRank
<1>1. CASE Enter(r)
  BY <1>1 DEF Enter, ClearPending
<1>2. CASE Inject(r)
  BY <1>2 DEF Inject
<1>3. CASE PollNoDefer(r)
  BY <1>3 DEF PollNoDefer, Poll, NoteArrival
<1>4. CASE PollDefer(r)
  BY <1>4 DEF PollDefer, Poll, NoteArrival
<1>5. CASE NextStep(r)
  BY <1>5 DEF NextStep
<1>6. CASE Leave(r)
  BY <1>6 DEF Leave, Repost
<1> QED BY <1>1, <1>2, <1>3, <1>4, <1>5, <1>6 DEF RankStep

LEMMA SameRankPlace ==
    ASSUME NEW q \in Rank, SameRank(q), NEW k
    PROVE  /\ Inside(q)' <=> Inside(q)
           /\ Left(q)' = Left(q) /\ Sent(q, k)' = Sent(q, k)
  BY DEF SameRank, Inside, Left, Sent, Bit

(* A rank's place in the barriers only advances.                           *)
LEMMA PlaceAdvances ==
    ASSUME Types, NEW r \in Rank, RankStep(r), NEW q \in Rank, NEW k \in Step
    PROVE  /\ Left(q) <= Left(q)' /\ Sent(q, k) <= Sent(q, k)'
           /\ calls[q] <= calls'[q] /\ calls'[q] \in Nat
           /\ Left(q)' \in Nat /\ Sent(q, k)' \in Nat
<1>1. /\ Left(q) \in Nat /\ Sent(q, k) \in Nat /\ calls[q] \in Nat
      /\ step[q] \in Nat /\ k \in Nat /\ k < NSteps /\ NSteps \in Nat
      /\ Left(q) <= Sent(q, k) /\ Sent(q, k) <= calls[q]
      /\ calls[q] <= Left(q) + 1
  BY SentFacts, RankFacts, StepFacts
<1>2. CASE q # r
  BY <1>1, <1>2, OtherRank, SameRankPlace DEF SameRank
<1>3. CASE q = r
  <2> USE DEF Types, TypeOK
  <2>1. CASE Enter(r)
    <3>1. /\ ~Inside(r) /\ Inside(r)' /\ calls'[r] = calls[r] + 1
          /\ step'[r] = 0 /\ pc'[r] = "send"
      BY <2>1 DEF Enter, Inside
    <3>2. Left(r)' = Left(r) /\ Left(r) = calls[r] /\ Sent(r, k) = Left(r)
      BY <1>1, <1>3, <3>1 DEF Left, Sent, Bit
    <3>3. Sent(r, k)' = Left(r)
      BY <1>1, <1>3, <3>1, <3>2 DEF Sent, Bit
    <3> QED BY <1>1, <1>3, <3>1, <3>2, <3>3
  <2>2. CASE Inject(r)
    <3>1. /\ calls' = calls /\ step' = step /\ pc[r] = "send"
          /\ pc'[r] = "wait" /\ Inside(r) /\ Inside(r)'
      BY <2>2 DEF Inject, Inside
    <3> QED BY <1>1, <1>3, <3>1 DEF Left, Sent, Bit
  <2>3. CASE PollNoDefer(r) \/ PollDefer(r)
    <3>1. calls' = calls /\ step' = step /\ pc' = pc
      BY <2>3 DEF PollNoDefer, PollDefer
    <3> QED BY <1>1, <1>3, <3>1 DEF Left, Sent, Bit, Inside
  <2>4. CASE NextStep(r)
    <3>1. /\ calls' = calls /\ step'[r] = step[r] + 1 /\ pc[r] = "wait"
          /\ pc'[r] = "send" /\ Inside(r) /\ Inside(r)'
      BY <2>4 DEF NextStep, Inside
    <3>2. Left(r)' = Left(r)
      BY <3>1 DEF Left
    <3> QED BY <1>1, <1>3, <3>1, <3>2 DEF Sent, Bit
  <2>5. CASE Leave(r)
    <3>1. /\ calls' = calls /\ Inside(r) /\ ~Inside(r)'
      BY <2>5 DEF Leave, Inside
    <3>2. Left(r)' = calls[r] /\ Sent(r, k)' = Left(r)'
      BY <1>1, <1>3, <3>1 DEF Sent, Bit, Left
    <3> QED BY <1>1, <1>3, <3>1, <3>2
  <2> QED BY <2>1, <2>2, <2>3, <2>4, <2>5 DEF RankStep
<1> QED BY <1>2, <1>3

-----------------------------------------------------------------------------
(* The receive buffers.                                                    *)
LEMMA PoolStep ==
    ASSUME Types, QueueInv, PoolInv, [Next]_vars
    PROVE  PoolInv'
<1> USE DEF PoolInv
<1>1. ASSUME NEW r \in Rank, RankStep(r), NEW q \in Rank
      PROVE  posted'[q] + Len(cq'[q])
               + (IF Inside(q)' THEN num_pending'[q] ELSE 0) = RECV_POOL_SIZE
  <2>1. CASE q # r
    BY <1>1, <2>1, OtherRank, SameRankPlace DEF SameRank
  <2>2. CASE q = r
    <3>0. /\ posted[r] \in Nat /\ Len(cq[r]) \in Nat /\ num_pending[r] \in Nat
          /\ posted[r] + Len(cq[r])
               + (IF Inside(r) THEN num_pending[r] ELSE 0) = RECV_POOL_SIZE
      BY RankFacts
    <3> USE DEF Types, TypeOK
    <3>1. CASE Enter(r)
      BY <2>2, <3>0, <3>1 DEF Enter, ClearPending, Inside
    <3>2. CASE Inject(r) \/ NextStep(r)
      BY <2>2, <3>0, <3>2 DEF Inject, NextStep, Inside
    <3>3. CASE PollNoDefer(r)
      <4>1. /\ Len(cq'[r]) = Len(cq[r]) - 1
            /\ posted'[r] = posted[r] + 1 /\ num_pending' = num_pending
            /\ pc' = pc
        BY <3>3, PollTo DEF PollNoDefer
      <4> QED BY <2>2, <3>0, <4>1 DEF Inside
    <3>4. CASE PollDefer(r)
      <4>1. /\ Len(cq'[r]) = Len(cq[r]) - 1
            /\ num_pending'[r] = num_pending[r] + 1 /\ posted' = posted
            /\ pc' = pc /\ Inside(r)
        BY <3>4, PollTo DEF PollDefer, Inside
      <4> QED BY <2>2, <3>0, <4>1 DEF Inside
    <3>5. CASE Leave(r)
      BY <2>2, <3>0, <3>5 DEF Leave, Repost, Inside
    <3> QED BY <1>1, <3>1, <3>2, <3>3, <3>4, <3>5 DEF RankStep
  <2> QED BY <2>1, <2>2
<1>2. ASSUME NEW m \in wire, Receive(m), NEW q \in Rank
      PROVE  posted'[q] + Len(cq'[q])
               + (IF Inside(q)' THEN num_pending'[q] ELSE 0) = RECV_POOL_SIZE
  <2>0. /\ posted[q] \in Nat /\ Len(cq[q]) \in Nat /\ num_pending[q] \in Nat
    BY RankFacts
  <2>1. /\ UNCHANGED <<pc, num_pending>>
        /\ posted' = [posted EXCEPT ![m.dst] = @ - 1]
        /\ posted \in [Rank -> 0 .. RECV_POOL_SIZE]
    BY <1>2 DEF Receive, rankVars, Types, TypeOK
  <2>2. CASE q = m.dst
    <3>1. Len(cq'[q]) = Len(cq[q]) + 1 /\ posted'[q] = posted[q] - 1
      BY <1>2, <2>1, <2>2, ReceiveTo
    <3> QED BY <2>0, <2>1, <3>1 DEF Inside
  <2>3. CASE q # m.dst
    <3>1. cq'[q] = cq[q] /\ posted'[q] = posted[q]
      BY <1>2, <2>1, <2>3, ReceiveTo
    <3> QED BY <2>1, <3>1 DEF Inside
  <2> QED BY <2>2, <2>3
<1>3. CASE UNCHANGED vars
  BY <1>3 DEF vars, rankVars, Inside
<1> QED BY <1>1, <1>2, <1>3 DEF Next, Finished

-----------------------------------------------------------------------------
(* Messages.                                                               *)

(* There is one message for a rank, a step and a barrier.                  *)
LEMMA OneMessage ==
    ASSUME Types, MessageInv, NEW r \in Rank, NEW m \in To(r), NEW o \in To(r),
           m.step = o.step, m.call = o.call
    PROVE  m = o
<1>1. /\ m \in Messages /\ o \in Messages
      /\ m.src \in Rank /\ m.step \in Step
      /\ o.src \in Rank /\ o.step \in Step
  BY MessageFacts
<1>2. /\ m.dst = r /\ o.dst = r /\ r = Fwd(m.src, m.step)
      /\ r = Fwd(o.src, o.step)
      /\ m.phase = o.phase
  BY DEF MessageInv
<1>3. From(r, m.step) = m.src /\ From(r, o.step) = o.src
  <2>1. From(Fwd(m.src, m.step), m.step) = m.src
    BY <1>1, FwdFrom
  <2>2. From(Fwd(o.src, o.step), o.step) = o.src
    BY <1>1, FwdFrom
  <2> QED BY <1>2, <2>1, <2>2
<1> QED BY <1>1, <1>2, <1>3 DEF Messages

(* It is of the receiver's next barrier to come out of or of the one after *)
(* that, and its sender is the one the receiver waits for.                 *)
LEMMA MessageCall ==
    ASSUME Types, MessageInv, BarrierInv, NEW r \in Rank, NEW m \in To(r)
    PROVE  /\ m.src = From(r, m.step)
           /\ m.call \in Nat /\ Left(r) < m.call /\ m.call <= calls[r] + 1
<1>1. m.src \in Rank /\ m.step \in Step /\ m.call \in Nat
  BY MessageFacts
<1>2. /\ Sent(m.src, m.step) \in Nat /\ Sent(m.src, m.step) <= calls[m.src]
      /\ calls[m.src] <= Left(m.src) + 1 /\ Left(m.src) \in Nat
      /\ calls[m.src] \in Nat /\ calls[r] \in Nat /\ Left(r) \in Nat
  BY <1>1, SentFacts, RankFacts
<1>3. Left(m.src) <= calls[r]
  BY <1>1 DEF BarrierInv
<1>4. m.call <= Sent(m.src, m.step) /\ Left(r) < m.call
  BY DEF MessageInv
<1>5. m.src = From(r, m.step)
  BY <1>1, FwdFrom DEF MessageInv
<1> QED BY <1>1, <1>2, <1>3, <1>4, <1>5

LEMMA MessageStep ==
    ASSUME Types, QueueInv, MessageInv, ArrivedInv, PassedInv, BarrierInv,
           [Next]_vars
    PROVE  MessageInv'
<1>1. \A q \in Rank : \A m \in To(q) :
         /\ m.src \in Rank /\ m.step \in Step /\ m.call \in Nat
         /\ m.dst = q /\ q = Fwd(m.src, m.step) /\ m.phase = m.call % 2
         /\ m.call <= Sent(m.src, m.step) /\ m.call > Left(q)
         /\ Sent(m.src, m.step) \in Nat /\ Left(q) \in Nat
  BY MessageFacts, SentFacts, RankFacts DEF MessageInv
<1>2. ASSUME \A q \in Rank : To(q)' \subseteq To(q),
             \A q \in Rank : Left(q)' = Left(q),
             \A q \in Rank, k \in Step : /\ Sent(q, k) <= Sent(q, k)'
                                         /\ Sent(q, k)' \in Int
      PROVE  MessageInv'
  BY <1>1, <1>2 DEF MessageInv
<1>3. ASSUME UNCHANGED rankVars, \A q \in Rank : To(q)' = To(q)
      PROVE  MessageInv'
  <2>1. \A q \in Rank, k \in Step : /\ Left(q)' = Left(q)
                                    /\ Sent(q, k)' = Sent(q, k)
                                    /\ Sent(q, k) \in Nat
    <3>1. \A q \in Rank : SameRank(q)
      BY <1>3 DEF rankVars, SameRank
    <3> QED BY <3>1, SameRankPlace, SentFacts
  <2>2. \A q \in Rank : Left(q)' = Left(q)
    BY <1>3 DEF Left, Inside, rankVars
  <2> QED BY <1>2, <1>3, <2>1, <2>2
<1>4. ASSUME NEW m \in wire, Receive(m)
      PROVE  MessageInv'
  BY <1>3, <1>4, ReceiveTo DEF Receive
<1>5. CASE UNCHANGED vars
  BY <1>3, <1>5, QuietTo DEF vars
<1>6. ASSUME NEW r \in Rank, RankStep(r)
      PROVE  MessageInv'
  <2>0. \A q \in Rank, k \in Step :
           Sent(q, k) <= Sent(q, k)' /\ Sent(q, k) \in Nat
    BY <1>6, PlaceAdvances, SentFacts
  <2>1. \A q \in Rank : q # r => Left(q)' = Left(q)
    BY <1>6, OtherRank, SameRankPlace
  <2>2. \A q \in Rank, k \in Step : Sent(q, k)' \in Int
    <3>1. ASSUME NEW q \in Rank PROVE calls'[q] \in Int
      <4>1. CASE Enter(r)
        BY <4>1, RankFacts DEF Enter, Types, TypeOK
      <4>2. CASE ~Enter(r)
        BY <1>6, <4>2, RankFacts DEF RankStep, Inject, PollNoDefer, PollDefer,
                                     NextStep, Leave
      <4> QED BY <4>1, <4>2
    <3> QED BY <3>1 DEF Sent, Left, Bit
  <2>3. CASE \/ Enter(r) \/ PollNoDefer(r) \/ PollDefer(r) \/ NextStep(r)
    <3>1. Left(r)' = Left(r)
      <4>1. CASE Enter(r)
        <5>1. /\ ~Inside(r) /\ Inside(r)' /\ calls'[r] = calls[r] + 1
              /\ calls[r] \in Nat
          BY <4>1, RankFacts DEF Enter, Inside, Types, TypeOK
        <5> QED BY <5>1 DEF Left
      <4>2. CASE PollNoDefer(r) \/ PollDefer(r) \/ NextStep(r)
        <5>1. /\ Inside(r) /\ Inside(r)' /\ calls' = calls
          BY <4>2 DEF PollNoDefer, PollDefer, NextStep, Inside, Types, TypeOK
        <5> QED BY <5>1 DEF Left
      <4> QED BY <2>3, <4>1, <4>2
    <3>2. \A q \in Rank : To(q)' \subseteq To(q)
      <4>1. CASE Enter(r) \/ NextStep(r)
        BY <4>1, QuietTo DEF Enter, NextStep
      <4>2. CASE PollNoDefer(r) \/ PollDefer(r)
        BY <4>2, PollTo DEF PollNoDefer, PollDefer
      <4> QED BY <2>3, <4>1, <4>2
    <3> QED BY <1>2, <2>0, <2>1, <2>2, <3>1, <3>2
  <2>4. CASE Inject(r)
    <3> DEFINE n == Message(r)
               d == Fwd(r, step[r])
    <3>1. /\ step[r] \in Step /\ n.call = calls[r] /\ n.step = step[r]
          /\ n.src = r /\ n.phase = phase[r] /\ n.dst = d
          /\ Sent(r, step[r]) = calls[r] - 1 /\ calls[r] \in Nat
          /\ \A q \in Rank : To(q)' = IF q = d THEN To(q) \cup {n} ELSE To(q)
      BY <2>4, InjectTo, RankFacts
    <3>2. /\ d \in Rank /\ From(d, step[r]) = r
      BY <3>1, FwdFrom
    <3>0. PICK k : k = step[r]
      OBVIOUS
    <3>3. Left(r)' = Left(r) /\ Sent(r, k)' = calls[r]
      <4>1. /\ Inside(r) /\ Inside(r)' /\ calls' = calls /\ step' = step
            /\ pc'[r] = "wait"
        BY <2>4 DEF Inject, Inside, Types, TypeOK
      <4> QED BY <3>0, <3>1, <4>1 DEF Left, Sent, Bit
    <3>4. n.phase = n.call % 2
      BY <3>1 DEF ArrivedInv
    <3>5. Left(d) < n.call
      <4>1. Left(d) <= calls[r] - 1 /\ Left(d) \in Nat
        BY <3>1, <3>2, RankFacts DEF PassedInv
      <4> HIDE DEF d, n
      <4> QED BY <3>1, <4>1
    <3> HIDE DEF n, d
    <3>6. ASSUME NEW q \in Rank, NEW m \in To(q)'
          PROVE  /\ m.dst = q /\ q = Fwd(m.src, m.step)
                 /\ m.phase = m.call % 2
                 /\ m.call <= Sent(m.src, m.step)'
                 /\ m.call > Left(q)'
      <4>1. Left(q)' = Left(q)
        BY <2>1, <3>3
      <4>2. CASE m \in To(q)
        <5>1. /\ m.src \in Rank /\ m.step \in Step /\ m.call \in Nat
              /\ m.dst = q /\ q = Fwd(m.src, m.step) /\ m.phase = m.call % 2
              /\ m.call <= Sent(m.src, m.step) /\ m.call > Left(q)
          BY <1>1, <4>2
        <5>2. /\ Sent(m.src, m.step) <= Sent(m.src, m.step)'
              /\ Sent(m.src, m.step) \in Nat /\ Sent(m.src, m.step)' \in Int
          BY <2>0, <2>2, <5>1
        <5>3. m.call <= Sent(m.src, m.step)'
          BY <5>1, <5>2
        <5> QED BY <4>1, <5>1, <5>3
      <4>3. CASE m \notin To(q)
        <5>1. m = n /\ q = d
          BY <3>1, <4>3
        <5>2. Sent(m.src, m.step)' = m.call
          <6>1. m.src = r /\ m.step = k /\ m.call = calls[r]
            BY <3>0, <3>1, <5>1
          <6> QED BY <3>3, <6>1
        <5>3. /\ m.call > Left(q)' /\ m.phase = m.call % 2
              /\ m.dst = q /\ q = Fwd(m.src, m.step)
          BY <3>1, <3>4, <3>5, <4>1, <5>1 DEF d
        <5>4. m.call \in Nat
          BY <3>1, <5>1
        <5> QED BY <5>2, <5>3, <5>4
      <4> QED BY <4>2, <4>3
    <3> QED BY <3>6 DEF MessageInv
  <2>5. CASE Leave(r)
    <3>1. /\ Inside(r) /\ ~Inside(r)' /\ calls' = calls
          /\ step[r] = NSteps - 1 /\ <<phase[r], step[r]>> \in arrived[r]
      BY <2>5 DEF Leave, Inside, LastStep, Types, TypeOK
    <3>2. \A q \in Rank : To(q)' = To(q)
      BY <2>5, QuietTo DEF Leave
    <3>3. Left(r)' = calls[r] /\ Left(r) = calls[r] - 1 /\ calls[r] \in Nat
      BY <3>1, RankFacts DEF Left
    <3>4. ASSUME NEW m \in To(r) PROVE m.call > calls[r]
      <4>1. m.step \in Step /\ m.call \in Nat /\ m.call > calls[r] - 1
        BY <1>1, <3>3
      <4>2. m.step < step[r] \/ m.step = step[r]
        BY <3>1, <4>1, StepFacts
      <4>3. ~Awaited(r, m.step)
        BY <3>1, <4>1, <4>2 DEF ArrivedInv, ArrivedAt, Noted
      <4>4. m.call # calls[r]
        BY <4>3 DEF Awaited
      <4> QED BY <3>3, <4>1, <4>4
    <3>5. ASSUME NEW q \in Rank, NEW m \in To(q)
          PROVE  m.call > Left(q)'
      BY <1>1, <2>1, <3>3, <3>4
    <3>6. ASSUME NEW q \in Rank, NEW m \in To(q)
          PROVE  m.call <= Sent(m.src, m.step)'
      <4>1. /\ m.call \in Nat /\ m.call <= Sent(m.src, m.step)
            /\ m.src \in Rank /\ m.step \in Step
        BY <1>1
      <4>2. /\ Sent(m.src, m.step) <= Sent(m.src, m.step)'
            /\ Sent(m.src, m.step) \in Nat /\ Sent(m.src, m.step)' \in Int
        BY <2>0, <2>2, <4>1
      <4> QED BY <4>1, <4>2
    <3> QED BY <1>1, <3>2, <3>5, <3>6 DEF MessageInv
  <2> QED BY <1>6, <2>3, <2>4, <2>5 DEF RankStep
<1> QED BY <1>4, <1>5, <1>6 DEF Next, Finished

-----------------------------------------------------------------------------
(* Phases: one bit tells this barrier's messages from the next one's.      *)
LEMMA PhaseTells ==
    ASSUME NEW c \in Nat, NEW t \in Nat, c <= t, t <= c + 1
    PROVE  /\ t % 2 = c % 2 <=> t = c
           /\ (c + 1) % 2 = 1 - (c % 2)
  OBVIOUS

(* What a rank notes when it polls a message in its own phase.             *)
LEMMA NotedInPhase ==
    ASSUME Types, MessageInv, ArrivedInv, BarrierInv, NEW r \in Rank,
           Inside(r), NEW m \in To(r)
    PROVE  /\ m.call \in {calls[r], calls[r] + 1}
           /\ m.phase = phase[r] <=> m.call = calls[r]
           /\ m.src = From(r, m.step) /\ m.call <= Sent(m.src, m.step)
<1>1. /\ m.src = From(r, m.step)
      /\ m.call \in Nat /\ Left(r) < m.call /\ m.call <= calls[r] + 1
  BY MessageCall
<1>2. calls[r] \in Nat /\ Left(r) = calls[r] - 1
  BY RankFacts DEF Left
<1>3. m.phase = m.call % 2 /\ phase[r] = calls[r] % 2
      /\ m.call <= Sent(m.src, m.step)
  BY DEF MessageInv, ArrivedInv
<1>4. calls[r] <= m.call
  BY <1>1, <1>2
<1> QED BY <1>1, <1>2, <1>3, <1>4, PhaseTells

(* A rank's phase is the parity of its barrier.                            *)
LEMMA PhaseStep ==
    ASSUME Types, ArrivedInv, NEW r \in Rank, RankStep(r), NEW q \in Rank
    PROVE  /\ phase'[q] = calls'[q] % 2
           /\ ~(q = r /\ Enter(r)) =>
                 phase'[q] = phase[q] /\ calls'[q] = calls[q]
<1>1. CASE Enter(r) /\ q = r
  <2>1. phase'[r] = 1 - phase[r] /\ calls'[r] = calls[r] + 1
    BY <1>1 DEF Enter, Types, TypeOK
  <2>2. calls[r] \in Nat /\ phase[r] = calls[r] % 2
    BY RankFacts DEF ArrivedInv
  <2>3. (calls[r] + 1) % 2 = 1 - (calls[r] % 2)
    BY <2>2, PhaseTells
  <2> QED BY <1>1, <2>1, <2>2, <2>3
<1>2. CASE ~(q = r /\ Enter(r))
  <2>1. calls'[q] = calls[q] /\ phase'[q] = phase[q]
    <3>1. CASE q # r
      BY <3>1, OtherRank DEF SameRank
    <3>2. CASE q = r
      BY <1>2, <3>2 DEF RankStep, Inject, PollNoDefer, PollDefer, NextStep,
                        Leave
    <3> QED BY <3>1, <3>2
  <2> QED BY <2>1 DEF ArrivedInv
<1> QED BY <1>1, <1>2

(* What arrived for a rank's barrier has been sent, and stays so.          *)
LEMMA ArrivedKeep ==
    ASSUME Types, ArrivedInv, NEW r \in Rank, RankStep(r),
           NEW q \in Rank, NEW k \in Step,
           Inside(q)' => Inside(q), ~(q = r /\ Enter(r)),
           Inside(q)' /\ k < step'[q] => Noted(q, k)',
           Inside(q)' /\ Noted(q, k)' /\ ~Noted(q, k) =>
             Sent(From(q, k), k) >= calls[q],
           Inside(q)' /\ Noted(q, k)' =>
             \A m \in To(q)' : m.step = k => m.call # calls[q]
    PROVE  ArrivedAt(q, k)'
<1>1. phase'[q] = phase[q] /\ calls'[q] = calls[q]
  BY PhaseStep
<1>2. Inside(q)' /\ Noted(q, k)' => Sent(From(q, k), k) >= calls[q]
  BY DEF ArrivedInv, ArrivedAt
<1>3. PICK f \in Rank : f = From(q, k)
  BY FwdFrom
<1>4. f = From(q, k)'
  BY <1>3 DEF From
<1>5. /\ Sent(f, k) <= Sent(f, k)' /\ Sent(f, k) \in Nat /\ Sent(f, k)' \in Nat
      /\ calls[q] \in Nat
  BY <1>3, PlaceAdvances, SentFacts, RankFacts
<1>6. Inside(q)' /\ Noted(q, k)' => Sent(f, k)' >= calls[q]
  BY <1>2, <1>3, <1>5
<1>7. Inside(q)' /\ Noted(q, k)' => Sent(From(q, k), k)' >= calls'[q]
  <2>1. Sent(From(q, k), k)' = Sent(f, k)'
    BY <1>4 DEF Sent, Left, Inside, Bit
  <2> QED BY <1>1, <1>6, <2>1
<1>8. Inside(q)' /\ Noted(q, k)' => ~Awaited(q, k)'
  BY <1>1 DEF Awaited
<1> QED BY <1>7, <1>8 DEF ArrivedAt

LEMMA ArrivedRankStep ==
    ASSUME Types, QueueInv, MessageInv, ArrivedInv, BarrierInv,
           NEW r \in Rank, RankStep(r), NEW q \in Rank, NEW k \in Step
    PROVE  ArrivedAt(q, k)'
<1>0. /\ Inside(q) /\ k < step[q] => Noted(q, k)
      /\ Inside(q) /\ Noted(q, k) =>
           /\ Sent(From(q, k), k) >= calls[q]
           /\ \A m \in To(q) : m.step = k => m.call # calls[q]
  BY DEF ArrivedInv, ArrivedAt, Awaited
<1>1. CASE q = r /\ Enter(r)
  <2>1. /\ step'[r] = 0 /\ phase'[r] = 1 - phase[r]
        /\ arrived'[r] = arrived[r] \ ({1 - phase[r]} \X Step)
    BY <1>1 DEF Enter, Types, TypeOK
  <2>2. ~Noted(r, k)'
    BY <2>1 DEF Noted
  <2>3. ~(k < 0)
    BY StepFacts
  <2> QED BY <1>1, <2>1, <2>2, <2>3 DEF ArrivedAt
<1>2. ASSUME UNCHANGED <<pc, step, phase, arrived>>, ~(q = r /\ Enter(r)),
             Inside(q) /\ Noted(q, k) =>
               \A m \in To(q)' : m.step = k => m.call # calls[q]
      PROVE  ArrivedAt(q, k)'
  <2>1. /\ Inside(q)' <=> Inside(q)
        /\ Noted(q, k)' <=> Noted(q, k)
    BY <1>2 DEF Inside, Noted
  <2> QED BY <1>0, <1>2, <2>1, ArrivedKeep
<1>3. CASE Inject(r)
  <2>1. /\ step[r] \in Step /\ Message(r).call = calls[r]
        /\ Message(r).step = step[r]
        /\ Sent(r, step[r]) = calls[r] - 1
        /\ To(q)' = IF q = Fwd(r, step[r]) THEN To(q) \cup {Message(r)}
                                           ELSE To(q)
    BY <1>3, InjectTo
  <2>2. From(Fwd(r, step[r]), step[r]) = r
    BY <2>1, FwdFrom
  <2>3. /\ pc'[r] = "wait" /\ pc[r] = "send"
        /\ \A j \in Rank : j # r => pc'[j] = pc[j]
        /\ UNCHANGED <<step, phase, arrived>> /\ ~Enter(r)
    BY <1>3 DEF Inject, Enter, Types, TypeOK
  <2>4. /\ Inside(q)' <=> Inside(q)
        /\ Noted(q, k)' <=> Noted(q, k)
    BY <2>3 DEF Inside, Noted
  <2>5. ASSUME Inside(q), Noted(q, k), NEW m \in To(q)', m.step = k
        PROVE  m.call # calls[q]
    <3>1. CASE m \in To(q)
      BY <1>0, <2>5, <3>1
    <3>2. CASE m \notin To(q)
      <4>1. m = Message(r) /\ q = Fwd(r, step[r])
        BY <2>1, <3>2
      <4>2. k = step[r] /\ m.call = calls[r]
        BY <2>1, <2>5, <4>1
      <4>3. calls[r] - 1 >= calls[q]
        BY <1>0, <2>1, <2>2, <2>5, <4>1, <4>2
      <4> QED BY <4>2, <4>3, RankFacts
    <3> QED BY <3>1, <3>2
  <2> QED BY <1>0, <2>3, <2>4, <2>5, ArrivedKeep
<1>4. CASE PollNoDefer(r) \/ PollDefer(r)
  <2> DEFINE h == Head(cq[r])
  <2>1. /\ Poll(r) /\ UNCHANGED <<wire, pc, step, calls, phase>>
        /\ Inside(r) /\ ~Enter(r)
    BY <1>4 DEF PollNoDefer, PollDefer, Inside, Enter
  <2>2. /\ h \in To(r) /\ To(r)' = To(r) \ {h}
        /\ \A j \in Rank : j # r => To(j)' = To(j)
    BY <2>1, PollTo
  <2>3. /\ arrived'[r] = arrived[r] \cup {<<h.phase, h.step>>}
        /\ \A j \in Rank : j # r => arrived'[j] = arrived[j]
    BY <2>1 DEF Poll, NoteArrival, Types, TypeOK
  <2>4. /\ h.phase = phase[r] <=> h.call = calls[r]
        /\ h.src = From(r, h.step) /\ h.call <= Sent(h.src, h.step)
    BY <2>1, <2>2, NotedInPhase
  <2> HIDE DEF h
  <2>5. Inside(q)' <=> Inside(q)
    BY <2>1 DEF Inside
  <2>6. CASE q # r
    <3>1. Noted(q, k)' <=> Noted(q, k)
      BY <2>1, <2>3, <2>6 DEF Noted
    <3> QED BY <1>0, <2>1, <2>2, <2>5, <2>6, <3>1, ArrivedKeep
  <2>7. CASE q = r
    <3>1. /\ Noted(r, k) => Noted(r, k)'
          /\ Noted(r, k)' /\ ~Noted(r, k) => h.phase = phase[r] /\ h.step = k
      BY <2>1, <2>3 DEF Noted
    <3>2. ASSUME Noted(r, k)', ~Noted(r, k)
          PROVE  /\ Sent(From(r, k), k) >= calls[r]
                 /\ \A m \in To(r)' : m.step = k => m.call # calls[r]
      <4>1. h.step = k /\ h.call = calls[r]
        BY <2>4, <3>1, <3>2
      <4>2. Sent(From(r, k), k) >= calls[r]
        BY <2>4, <4>1, FwdFrom, SentFacts, RankFacts
      <4>3. ASSUME NEW m \in To(r)', m.step = k, m.call = calls[r]
            PROVE  FALSE
        <5>1. m \in To(r) /\ m # h
          BY <2>2
        <5>2. m = h
          BY <2>2, <4>1, <4>3, <5>1, OneMessage
        <5> QED BY <5>1, <5>2
      <4> QED BY <4>2, <4>3
    <3>3. Noted(r, k)' =>
            \A m \in To(r)' : m.step = k => m.call # calls[r]
      BY <1>0, <2>1, <2>2, <2>7, <3>2
    <3>4. k < step'[r] => Noted(r, k)'
      BY <1>0, <2>1, <2>7, <3>1
    <3> QED BY <2>1, <2>5, <2>7, <3>2, <3>3, <3>4, ArrivedKeep
  <2> QED BY <2>6, <2>7
<1>5. CASE NextStep(r)
  <2>1. /\ Inside(r) /\ Noted(r, step[r]) /\ ~Enter(r)
        /\ step'[r] = step[r] + 1
        /\ \A j \in Rank : j # r => step'[j] = step[j] /\ pc'[j] = pc[j]
        /\ UNCHANGED <<phase, arrived, wire, cq>>
    BY <1>5 DEF NextStep, Inside, Noted, Enter, Types, TypeOK
  <2>2. To(q)' = To(q)
    BY <2>1, QuietTo
  <2>3. Noted(q, k)' <=> Noted(q, k)
    BY <2>1 DEF Noted
  <2>4. Inside(q)' => Inside(q)
    BY <2>1 DEF Inside
  <2>5. Inside(q) /\ k < step'[q] => Noted(q, k)
    <3>1. k \in Nat /\ step[q] \in Nat
      BY RankFacts, StepFacts
    <3> QED BY <1>0, <2>1, <3>1
  <2> QED BY <1>0, <2>1, <2>2, <2>3, <2>4, <2>5, ArrivedKeep
<1>6. CASE Leave(r) \/ Enter(r)
  <2>1. /\ UNCHANGED <<wire, cq>>
        /\ Leave(r) => ~Inside(r)'
    BY <1>6 DEF Leave, Enter, Inside, Types, TypeOK
  <2>2. To(q)' = To(q)
    BY <2>1, QuietTo
  <2>3. CASE q = r
    BY <1>1, <1>6, <2>1, <2>3 DEF ArrivedAt
  <2>4. CASE q # r
    <3>1. SameRank(q)
      BY <2>4, OtherRank
    <3>2. /\ Inside(q)' <=> Inside(q)
          /\ Noted(q, k)' <=> Noted(q, k)
      BY <3>1 DEF SameRank, Inside, Noted
    <3> QED BY <1>0, <2>2, <2>4, <3>1, <3>2, ArrivedKeep DEF SameRank
  <2> QED BY <2>3, <2>4
<1> QED BY <1>3, <1>4, <1>5, <1>6 DEF RankStep

LEMMA ArrivedStep ==
    ASSUME Types, QueueInv, MessageInv, ArrivedInv, BarrierInv, [Next]_vars
    PROVE  ArrivedInv'
<1>1. ASSUME UNCHANGED rankVars, \A q \in Rank : To(q)' = To(q)
      PROVE  ArrivedInv'
  <2>1. ASSUME NEW q \in Rank, NEW k \in Step
        PROVE  ArrivedAt(q, k)'
    <3>1. ArrivedAt(q, k)
      BY DEF ArrivedInv
    <3>2. /\ Inside(q)' <=> Inside(q)
          /\ Noted(q, k)' <=> Noted(q, k)
          /\ Awaited(q, k)' <=> Awaited(q, k)
          /\ step'[q] = step[q] /\ calls'[q] = calls[q]
      BY <1>1 DEF rankVars, Inside, Noted, Awaited
    <3>3. Sent(From(q, k), k)' = Sent(From(q, k), k)
      BY <1>1 DEF rankVars, Sent, Left, Inside, Bit, From
    <3> QED BY <3>1, <3>2, <3>3 DEF ArrivedAt
  <2> QED BY <1>1, <2>1 DEF ArrivedInv, rankVars
<1>2. ASSUME NEW m \in wire, Receive(m)
      PROVE  ArrivedInv'
  BY <1>1, <1>2, ReceiveTo DEF Receive
<1>3. CASE UNCHANGED vars
  BY <1>1, <1>3, QuietTo DEF vars
<1>4. ASSUME NEW r \in Rank, RankStep(r)
      PROVE  ArrivedInv'
  BY <1>4, ArrivedRankStep, PhaseStep DEF ArrivedInv
<1> QED BY <1>2, <1>3, <1>4 DEF Next, Finished

-----------------------------------------------------------------------------
(* Dissemination.                                                          *)

(* Steps of no rank keep every rank's place.                               *)
LEMMA PlaceKept ==
    ASSUME UNCHANGED rankVars
    PROVE  /\ PassedInv => PassedInv'
           /\ WindowInv => WindowInv'
           /\ BarrierInv => BarrierInv'
  BY DEF rankVars, PassedInv, WindowInv, BarrierInv, Sent, Left, Inside, Bit,
         From, Behind

(* What a rank knows when it has the message it waits for: its sender is   *)
(* in the same barrier and as far, or has come out of it.                  *)
LEMMA MessageMeans ==
    ASSUME Types, ArrivedInv, NEW r \in Rank, Inside(r), step[r] \in Step,
           Noted(r, step[r])
    PROVE  /\ From(r, step[r]) \in Rank
           /\ \/ Left(From(r, step[r])) >= calls[r]
              \/ /\ Inside(From(r, step[r]))
                 /\ calls[From(r, step[r])] = calls[r]
                 /\ step[r] <= step[From(r, step[r])]
<1> DEFINE f == From(r, step[r])
<1>1. f \in Rank
  BY FwdFrom
<1>2. Sent(f, step[r]) >= calls[r]
  BY DEF ArrivedInv, ArrivedAt
<1> HIDE DEF f
<1>3. /\ calls[r] \in Nat /\ calls[f] \in Nat /\ Left(f) \in Nat
      /\ step[r] \in Nat /\ step[f] \in Nat /\ Sent(f, step[r]) \in Nat
  BY <1>1, RankFacts, SentFacts
<1>4. CASE Left(f) >= calls[r]
  BY <1>1, <1>4 DEF f
<1>5. CASE ~(Left(f) >= calls[r])
  <2>1. /\ Inside(f)
        /\ step[r] < step[f] \/ (step[r] = step[f] /\ pc[f] = "wait")
        /\ Sent(f, step[r]) = Left(f) + 1
    BY <1>2, <1>3, <1>5 DEF Sent, Bit
  <2>2. Left(f) = calls[f] - 1
    BY <2>1 DEF Left
  <2>3. calls[f] = calls[r]
    BY <1>2, <1>3, <1>5, <2>1, <2>2
  <2> QED BY <1>1, <1>3, <2>1, <2>3 DEF f
<1> QED BY <1>4, <1>5

(* A rank that has the message of step k knows twice as much.              *)
LEMMA WindowNext ==
    ASSUME Types, ArrivedInv, WindowInv, BarrierInv, NEW r \in Rank,
           Inside(r), step[r] \in Step, Noted(r, step[r]),
           NEW j \in Rank, Behind(r, j) < Dist[step[r] + 1]
    PROVE  calls[j] >= calls[r]
<1> DEFINE f == From(r, step[r])
<1>1. /\ f \in Rank
      /\ \/ Left(f) >= calls[r]
         \/ Inside(f) /\ calls[f] = calls[r] /\ step[r] <= step[f]
  BY MessageMeans
<1>2. Behind(r, j) < Dist[step[r]] \/ Behind(f, j) < Dist[step[r]]
  BY WindowDoubles
<1> HIDE DEF f
<1>3. /\ step[r] \in 0 .. NSteps /\ step[r] <= step[r]
      /\ calls[r] \in Nat /\ calls[j] \in Nat /\ Left(f) \in Nat
  BY <1>1, RankFacts, StepFacts
<1>4. CASE Behind(r, j) < Dist[step[r]]
  BY <1>3, <1>4 DEF WindowInv
<1>5. CASE Left(f) >= calls[r]
  BY <1>1, <1>3, <1>5 DEF BarrierInv
<1>6. CASE /\ Inside(f) /\ calls[f] = calls[r] /\ step[r] <= step[f]
           /\ Behind(f, j) < Dist[step[r]]
  BY <1>1, <1>3, <1>6 DEF WindowInv
<1> QED BY <1>1, <1>2, <1>4, <1>5, <1>6

(* A rank that has the last message knows that every rank has called       *)
(* barrier().                                                              *)
LEMMA AllCalled ==
    ASSUME Types, ArrivedInv, WindowInv, BarrierInv, NEW r \in Rank, Leave(r),
           NEW j \in Rank
    PROVE  calls[j] >= calls[r]
<1>1. /\ Inside(r) /\ Noted(r, step[r]) /\ step[r] = NSteps - 1
  BY DEF Leave, Inside, Noted, LastStep
<1>2. step[r] \in Step /\ step[r] + 1 = NSteps
  BY <1>1, RankFacts, StepFacts
<1> QED BY <1>1, <1>2, LastWindow, WindowNext

LEMMA CallsGrow ==
    ASSUME Types, NEW r \in Rank, RankStep(r), NEW q \in Rank
    PROVE  /\ calls[q] \in Nat /\ calls'[q] \in Nat
           /\ calls[q] <= calls'[q]
<1>1. calls[q] \in Nat
  BY RankFacts
<1>2. CASE Enter(r)
  <2>1. calls'[q] = IF q = r THEN calls[q] + 1 ELSE calls[q]
    BY <1>2 DEF Enter, Types, TypeOK
  <2>2. CASE q = r
    BY <1>1, <2>1, <2>2
  <2>3. CASE q # r
    BY <1>1, <2>1, <2>3
  <2> QED BY <2>2, <2>3
<1>3. CASE ~Enter(r)
  <2>1. calls' = calls
    BY <1>3 DEF RankStep, Inject, PollNoDefer, PollDefer, NextStep, Leave
  <2> QED BY <1>1, <2>1
<1> QED BY <1>2, <1>3

LEMMA WindowStep ==
    ASSUME Types, ArrivedInv, WindowInv, BarrierInv, [Next]_vars
    PROVE  WindowInv'
<1>1. CASE UNCHANGED rankVars
  BY <1>1, PlaceKept
<1>2. ASSUME NEW r \in Rank, RankStep(r)
      PROVE  WindowInv'
  <2> SUFFICES ASSUME NEW q \in Rank, NEW k \in 0 .. NSteps,
                      Inside(q)', k <= step'[q],
                      NEW j \in Rank, Behind(q, j) < Dist[k]
               PROVE  calls'[j] >= calls'[q]
    BY DEF WindowInv, Behind
  <2>1. /\ calls[j] \in Nat /\ calls[q] \in Nat /\ calls'[j] \in Nat
        /\ calls[j] <= calls'[j] /\ calls'[q] \in Nat
    BY <1>2, CallsGrow
  <2>2. CASE Inside(q) /\ k <= step[q] /\ calls'[q] = calls[q]
    BY <2>1, <2>2 DEF WindowInv
  <2>3. CASE q # r
    BY <1>2, <2>2, <2>3, OtherRank, SameRankPlace DEF SameRank
  <2>4. CASE q = r /\ Enter(r)
    <3>1. k = 0 /\ Dist[0] = 1
      BY <2>4, StepsAssumption DEF Enter, Types, TypeOK
    <3>2. j = r
      BY <2>4, <3>1, SizeAssumption DEF Behind, Rank
    <3> QED BY <2>1, <2>4, <3>2
  <2>5. CASE q = r /\ (Inject(r) \/ PollNoDefer(r) \/ PollDefer(r))
    BY <2>2, <2>5 DEF Inject, PollNoDefer, PollDefer, Inside
  <2>6. CASE q = r /\ NextStep(r)
    <3>1. /\ Inside(r) /\ Noted(r, step[r]) /\ calls' = calls
          /\ step'[r] = step[r] + 1
      BY <2>6 DEF NextStep, Inside, Noted, Types, TypeOK
    <3>2. step[r] \in Step /\ step[r] \in Nat
      BY <3>1, RankFacts
    <3>3. CASE k <= step[r]
      BY <2>2, <2>6, <3>1, <3>3
    <3>4. CASE k = step[r] + 1
      BY <2>6, <3>1, <3>2, <3>4, WindowNext
    <3> QED BY <2>6, <3>1, <3>2, <3>3, <3>4
  <2>7. CASE q = r /\ Leave(r)
    BY <2>7 DEF Leave, Inside, Types, TypeOK
  <2> QED BY <1>2, <2>3, <2>4, <2>5, <2>6, <2>7 DEF RankStep
<1>3. CASE UNCHANGED vars \/ \E m \in wire : Receive(m)
  BY <1>1, <1>3 DEF vars, Receive
<1> QED BY <1>2, <1>3 DEF Next, Finished

(* A step other than Leave(r) leaves Left alone.                           *)
LEMMA LeftStep ==
    ASSUME Types, NEW r \in Rank, RankStep(r), NEW q \in Rank
    PROVE  \/ Left(q)' = Left(q)
           \/ /\ q = r /\ Leave(r) /\ Left(r)' = calls[r]
              /\ Left(r) = calls[r] - 1 /\ UNCHANGED calls
<1>1. CASE q # r
  BY <1>1, OtherRank, SameRankPlace
<1>2. CASE q = r /\ Enter(r)
  <2>1. /\ ~Inside(r) /\ Inside(r)' /\ calls'[r] = calls[r] + 1
        /\ calls[r] \in Nat
    BY <1>2, RankFacts DEF Enter, Inside, Types, TypeOK
  <2> QED BY <1>2, <2>1 DEF Left
<1>3. CASE q = r /\ (\/ Inject(r) \/ PollNoDefer(r) \/ PollDefer(r)
                     \/ NextStep(r))
  <2>1. /\ Inside(r) /\ Inside(r)' /\ calls' = calls
    BY <1>3 DEF Inject, PollNoDefer, PollDefer, NextStep, Inside, Types, TypeOK
  <2> QED BY <1>3, <2>1 DEF Left
<1>4. CASE q = r /\ Leave(r)
  BY <1>4 DEF Leave, Left, Inside, Types, TypeOK
<1> QED BY <1>1, <1>2, <1>3, <1>4 DEF RankStep

LEMMA BarrierStep ==
    ASSUME Types, ArrivedInv, WindowInv, BarrierInv, PassedInv, [Next]_vars
    PROVE  BarrierInv' /\ PassedInv'
<1>1. CASE UNCHANGED rankVars
  BY <1>1, PlaceKept
<1>2. ASSUME NEW r \in Rank, RankStep(r)
      PROVE  BarrierInv'
  <2> SUFFICES ASSUME NEW q \in Rank, NEW j \in Rank
               PROVE  Left(q)' <= calls'[j]
    BY DEF BarrierInv
  <2>1. /\ calls[j] \in Nat /\ calls[j] <= calls'[j] /\ calls'[j] \in Nat
        /\ Left(q) \in Nat /\ Left(q) <= calls[j] /\ calls[q] \in Nat
    <3>1. calls[q] \in Nat /\ Left(q) \in Nat
      BY RankFacts
    <3> QED BY <1>2, <3>1, CallsGrow DEF BarrierInv
  <2>2. CASE Left(q)' = Left(q)
    BY <2>1, <2>2
  <2>3. CASE q = r /\ Leave(r) /\ Left(r)' = calls[r]
    BY <2>1, <2>3, AllCalled
  <2> QED BY <1>2, <2>2, <2>3, LeftStep
<1>3. ASSUME NEW r \in Rank, RankStep(r)
      PROVE  PassedInv'
  <2> SUFFICES ASSUME NEW q \in Rank, NEW k \in Step
               PROVE  Left(q)' <= Sent(From(q, k), k)'
    BY DEF PassedInv
  <2>1. PICK f \in Rank : f = From(q, k)
    BY FwdFrom
  <2>2. Sent(From(q, k), k)' = Sent(f, k)'
    BY <2>1 DEF From, Sent, Left, Inside, Bit
  <2>3. /\ Sent(f, k) <= Sent(f, k)' /\ Sent(f, k) \in Nat
        /\ Sent(f, k)' \in Nat /\ Left(q) \in Nat /\ calls[q] \in Nat
        /\ Left(q) <= Sent(f, k)
    BY <1>3, <2>1, PlaceAdvances, SentFacts, RankFacts DEF PassedInv
  <2>4. CASE Left(q)' = Left(q)
    BY <2>2, <2>3, <2>4
  <2>5. CASE q = r /\ Leave(r) /\ Left(r)' = calls[r]
    <3>1. /\ Inside(r) /\ Noted(r, step[r]) /\ step[r] = NSteps - 1
      BY <2>5 DEF Leave, Inside, Noted, LastStep
    <3>2. k < step[r] \/ k = step[r]
      BY <3>1, StepFacts
    <3>3. Sent(f, k) >= calls[r]
      BY <2>1, <2>5, <3>1, <3>2 DEF ArrivedInv, ArrivedAt
    <3> QED BY <2>2, <2>3, <2>5, <3>3
  <2> QED BY <1>3, <2>4, <2>5, LeftStep
<1>4. CASE UNCHANGED vars \/ \E m \in wire : Receive(m)
  BY <1>1, <1>4 DEF vars, Receive
<1> QED BY <1>2, <1>3, <1>4 DEF Next, Finished
-----------------------------------------------------------------------------
(* The buffers to be reposted.                                             *)

(* Sets of steps have at most NSteps elements, and a larger one has more.  *)
LEMMA StepSets ==
    ASSUME NEW S \in SUBSET Step, NEW T \in SUBSET Step, S \subseteq T
    PROVE  /\ Cardinality(S) \in Nat /\ Cardinality(T) \in Nat
           /\ Cardinality(S) <= Cardinality(T) /\ Cardinality(T) <= NSteps
           /\ \A k \in T : k \notin S => Cardinality(S) + 1 <= Cardinality(T)
<1>1. IsFiniteSet(Step) /\ Cardinality(Step) = NSteps
  BY StepFacts
<1>2. IsFiniteSet(T) /\ Cardinality(T) <= NSteps
  BY <1>1, FS_Subset
<1>3. IsFiniteSet(S) /\ Cardinality(S) <= Cardinality(T)
  BY <1>2, FS_Subset
<1>4. Cardinality(S) \in Nat /\ Cardinality(T) \in Nat
  BY <1>2, <1>3, FS_CardinalityType
<1>5. ASSUME NEW k \in T, k \notin S
      PROVE  Cardinality(S) + 1 <= Cardinality(T)
  <2>1. Cardinality(S \cup {k}) = Cardinality(S) + 1
    BY <1>3, <1>5, FS_AddElement
  <2>2. S \cup {k} \in SUBSET T
    BY <1>5
  <2>3. Cardinality(S \cup {k}) <= Cardinality(T)
    BY <1>2, <2>2, FS_Subset
  <2> QED BY <2>1, <2>3
<1> QED BY <1>2, <1>3, <1>4, <1>5

(* Inside a barrier, what is noted stays noted and what came early stays.  *)
LEMMA NowKept ==
    ASSUME Types, ArrivedInv, NEW r \in Rank, RankStep(r), NEW q \in Rank,
           ~(q = r /\ Enter(r))
    PROVE  Now(q) \subseteq Now(q)'
<1>1. phase'[q] = phase[q]
  BY PhaseStep
<1>2. arrived[q] \subseteq arrived'[q]
  <2>1. CASE q # r
    BY <2>1, OtherRank DEF SameRank
  <2>2. CASE q = r /\ (PollNoDefer(r) \/ PollDefer(r))
    BY <2>2 DEF PollNoDefer, PollDefer, Poll, NoteArrival, Types, TypeOK
  <2>3. CASE q = r /\ (Inject(r) \/ NextStep(r) \/ Leave(r))
    BY <2>3 DEF Inject, NextStep, Leave
  <2> QED BY <2>1, <2>2, <2>3 DEF RankStep
<1> QED BY <1>1, <1>2 DEF Now

IsEarly(q, k) ==
    /\ Sent(From(q, k), k) > calls[q]
    /\ \A m \in To(q) : m.step = k => m.call # calls[q] + 1

LEMMA EarlyKept ==
    ASSUME Types, QueueInv, MessageInv, ArrivedInv, BarrierInv,
           NEW r \in Rank, RankStep(r), NEW q \in Rank, NEW k \in Step,
           ~(q = r /\ Enter(r)), IsEarly(q, k)
    PROVE  IsEarly(q, k)'
<1>1. calls'[q] = calls[q]
  BY PhaseStep
<1>2. PICK f \in Rank : f = From(q, k)
  BY FwdFrom
<1>3. /\ Sent(f, k) \in Nat /\ Sent(f, k)' \in Nat /\ calls[q] \in Nat
      /\ Sent(f, k) <= Sent(f, k)' /\ Sent(f, k) > calls[q]
  BY <1>2, PlaceAdvances, SentFacts, RankFacts DEF IsEarly
<1>4. Sent(From(q, k), k)' = Sent(f, k)'
  BY <1>2 DEF From, Sent, Left, Inside, Bit
<1>5. ASSUME NEW m \in To(q)', m.step = k
      PROVE  m.call # calls[q] + 1
  <2>1. CASE m \in To(q)
    BY <1>5, <2>1 DEF IsEarly
  <2>2. CASE m \notin To(q)
    <3>1. Inject(r)
      <4>1. CASE PollNoDefer(r) \/ PollDefer(r)
        <5>1. Poll(r) /\ UNCHANGED wire
          BY <4>1 DEF PollNoDefer, PollDefer
        <5>2. /\ To(r)' = To(r) \ {Head(cq[r])}
              /\ \A j \in Rank : j # r => To(j)' = To(j)
          BY <5>1, PollTo
        <5> QED BY <1>5, <2>2, <5>2
      <4>2. CASE Enter(r) \/ NextStep(r) \/ Leave(r)
        <5>1. UNCHANGED <<wire, cq>>
          BY <4>2 DEF Enter, NextStep, Leave
        <5> QED BY <1>5, <2>2, <5>1, QuietTo
      <4> QED BY <4>1, <4>2 DEF RankStep
    <3>2. /\ Message(r).call = calls[r] /\ Message(r).step = step[r]
          /\ step[r] \in Step
          /\ Sent(r, step[r]) = calls[r] - 1
          /\ To(q)' = IF q = Fwd(r, step[r]) THEN To(q) \cup {Message(r)}
                                             ELSE To(q)
      BY <3>1, InjectTo
    <3>3. m = Message(r) /\ q = Fwd(r, step[r])
      BY <1>5, <2>2, <3>2
    <3>4. k = step[r] /\ m.call = calls[r]
      BY <1>5, <3>2, <3>3
    <3>5. f = r
      BY <1>2, <3>2, <3>3, <3>4, FwdFrom
    <3>6. calls[r] \in Nat /\ Sent(f, k) = calls[r] - 1
      BY <3>2, <3>4, <3>5, RankFacts
    <3> QED BY <1>3, <3>4, <3>6
  <2> QED BY <2>1, <2>2
<1>6. Sent(From(q, k), k)' > calls'[q]
  BY <1>1, <1>3, <1>4
<1> QED BY <1>1, <1>5, <1>6 DEF IsEarly

(* Polling while waiting notes a message of this barrier that was not      *)
(* noted, or one of the next that had not come.                            *)
LEMMA PollCounts ==
    ASSUME Types, QueueInv, MessageInv, ArrivedInv, BarrierInv,
           NEW r \in Rank, PollDefer(r)
    PROVE  \/ \E k \in Now(r)' : k \notin Now(r)
           \/ \E k \in Early(r)' : k \notin Early(r)
<1>1. /\ Poll(r) /\ UNCHANGED <<wire, pc, step, calls, phase>> /\ Inside(r)
      /\ RankStep(r)
  BY DEF PollDefer, Inside, RankStep
<1>2. PICK h \in To(r) : h = Head(cq[r]) /\ To(r)' = To(r) \ {h}
  <2>1. Head(cq[r]) \in To(r) /\ To(r)' = To(r) \ {Head(cq[r])}
    BY <1>1, PollTo
  <2> QED BY <2>1
<1>k. PICK k \in Step : k = h.step
  BY MessageFacts
<1>3. /\ h.call \in {calls[r], calls[r] + 1}
      /\ h.phase = phase[r] <=> h.call = calls[r]
      /\ h.src = From(r, k) /\ h.call <= Sent(h.src, k)
      /\ k \in Step /\ h.call \in Nat /\ calls[r] \in Nat
  BY <1>1, <1>k, NotedInPhase, MessageFacts, RankFacts
<1>4. arrived'[r] = arrived[r] \cup {<<h.phase, k>>} /\ phase'[r] = phase[r]
  BY <1>1, <1>2, <1>k DEF Poll, NoteArrival, Types, TypeOK
<1>5. \A m \in To(r)' : m.step = k => m.call # h.call
  BY <1>2, <1>k, OneMessage
<1>6. CASE h.call = calls[r]
  <2>1. ~Noted(r, k)
    BY <1>1, <1>k, <1>6 DEF ArrivedInv, ArrivedAt, Awaited
  <2>2. k \in Now(r)' /\ k \notin Now(r)
    BY <1>3, <1>4, <1>6, <2>1 DEF Now, Noted
  <2> QED BY <2>2
<1>7. CASE h.call = calls[r] + 1
  <2>1. k \notin Early(r)
    BY <1>k, <1>7 DEF Early
  <2>2. PICK f \in Rank : f = From(r, k)
    BY <1>3, FwdFrom
  <2>3. /\ Sent(f, k) \in Nat /\ Sent(f, k)' \in Nat
        /\ Sent(f, k) <= Sent(f, k)' /\ h.call <= Sent(f, k)
    BY <1>1, <1>3, <2>2, PlaceAdvances, SentFacts
  <2>4. Sent(From(r, k), k)' = Sent(f, k)'
    BY <1>1, <2>2 DEF From, Sent, Left, Inside, Bit
  <2>5. Sent(f, k)' > calls[r]
    BY <1>3, <1>7, <2>3
  <2>6. k \in Early(r)'
    BY <1>1, <1>3, <1>5, <1>7, <2>4, <2>5 DEF Early
  <2> QED BY <2>1, <2>6
<1> QED BY <1>3, <1>6, <1>7
LEMMA PendingRankStep ==
    ASSUME Types, QueueInv, MessageInv, ArrivedInv, BarrierInv, PendingInv,
           NEW r \in Rank, RankStep(r), NEW q \in Rank
    PROVE  /\ num_pending'[q] <= 2 * NSteps
           /\ Inside(q)' => num_pending'[q] <= Cardinality(Now(q)')
                                               + Cardinality(Early(q)')
<1>1. /\ NSteps \in Nat /\ num_pending[q] \in Nat
      /\ num_pending[q] <= 2 * NSteps
      /\ Inside(q) => num_pending[q] <= Cardinality(Now(q))
                                        + Cardinality(Early(q))
  BY StepFacts, RankFacts DEF PendingInv
<1>2. /\ Now(q) \in SUBSET Step /\ Now(q)' \in SUBSET Step
      /\ Early(q) \in SUBSET Step /\ Early(q)' \in SUBSET Step
  BY DEF Now, Early
<1>3. PICK a, b, c, d : /\ a = Now(q) /\ b = Now(q)'
                        /\ c = Early(q) /\ d = Early(q)'
  OBVIOUS
<1>4. CASE q = r /\ Enter(r)
  <2>1. num_pending'[q] = 0
    BY <1>4 DEF Enter, ClearPending, Types, TypeOK
  <2>2. Cardinality(b) \in Nat /\ Cardinality(d) \in Nat
    BY <1>2, <1>3, StepSets
  <2> QED BY <1>1, <1>3, <2>1, <2>2
<1>5. CASE ~(q = r /\ Enter(r))
  <2>1. Now(q) \subseteq Now(q)'
    BY <1>5, NowKept
  <2>2. Early(q) \subseteq Early(q)'
    <3>1. \A k \in Step : IsEarly(q, k) => IsEarly(q, k)'
      BY <1>5, EarlyKept
    <3> QED BY <3>1 DEF IsEarly, Early
  <2>3. /\ Cardinality(a) \in Nat /\ Cardinality(b) \in Nat
        /\ Cardinality(a) <= Cardinality(b) /\ Cardinality(b) <= NSteps
        /\ \A k \in b : k \notin a => Cardinality(a) + 1 <= Cardinality(b)
    BY <1>2, <1>3, <2>1, StepSets
  <2>4. /\ Cardinality(c) \in Nat /\ Cardinality(d) \in Nat
        /\ Cardinality(c) <= Cardinality(d) /\ Cardinality(d) <= NSteps
        /\ \A k \in d : k \notin c => Cardinality(c) + 1 <= Cardinality(d)
    BY <1>2, <1>3, <2>2, StepSets
  <2>5. CASE q = r /\ PollDefer(r)
    <3>1. num_pending'[q] = num_pending[q] + 1 /\ Inside(q)
      BY <2>5 DEF PollDefer, Inside, Types, TypeOK
    <3>2. (\E k \in b : k \notin a) \/ (\E k \in d : k \notin c)
      BY <1>3, <2>5, PollCounts
    <3>3. num_pending[q] + 1 <= Cardinality(b) + Cardinality(d)
      BY <1>1, <1>3, <2>3, <2>4, <3>1, <3>2
    <3> QED BY <1>1, <1>3, <2>3, <2>4, <3>1, <3>3
  <2>6. CASE ~(q = r /\ PollDefer(r))
    <3>1. num_pending'[q] = num_pending[q] /\ (Inside(q)' => Inside(q))
      <4>1. CASE q # r
        BY <4>1, OtherRank, SameRankPlace DEF SameRank
      <4>2. CASE q = r
        BY <1>5, <2>6, <4>2
           DEF RankStep, Inject, PollNoDefer, NextStep, Leave, Inside,
               Types, TypeOK
      <4> QED BY <4>1, <4>2
    <3>2. CASE Inside(q)
      BY <1>1, <1>3, <2>3, <2>4, <3>1, <3>2
    <3>3. CASE ~Inside(q)
      BY <1>1, <3>1, <3>3
    <3> QED BY <3>2, <3>3
  <2> QED BY <2>5, <2>6
<1> QED BY <1>4, <1>5

LEMMA PendingStep ==
    ASSUME Types, QueueInv, MessageInv, ArrivedInv, BarrierInv, PendingInv,
           [Next]_vars
    PROVE  PendingInv'
<1>1. ASSUME UNCHANGED rankVars, \A q \in Rank : To(q)' = To(q)
      PROVE  PendingInv'
  <2>1. ASSUME NEW q \in Rank
        PROVE  /\ Now(q)' = Now(q) /\ Early(q)' = Early(q)
               /\ Inside(q)' <=> Inside(q)
    BY <1>1 DEF rankVars, Now, Early, Sent, Left, Inside, Bit, From
  <2> QED BY <1>1, <2>1 DEF PendingInv, rankVars
<1>2. ASSUME NEW m \in wire, Receive(m)
      PROVE  PendingInv'
  BY <1>1, <1>2, ReceiveTo DEF Receive
<1>3. CASE UNCHANGED vars
  BY <1>1, <1>3, QuietTo DEF vars
<1>4. ASSUME NEW r \in Rank, RankStep(r)
      PROVE  PendingInv'
  BY <1>4, PendingRankStep DEF PendingInv
<1> QED BY <1>2, <1>3, <1>4 DEF Next, Finished
-----------------------------------------------------------------------------
(* Types.                                                                  *)
LEMMA PlaceTypes ==
    ASSUME Types, NEW r \in Rank, RankStep(r)
    PROVE  /\ calls' \in [Rank -> 0 .. MaxBarriers]
           /\ pc' \in [Rank -> {"out", "send", "wait"}]
           /\ step' \in [Rank -> Nat]
           /\ phase' \in [Rank -> Phase]
           /\ \A q \in Rank : Inside(q)' => step'[q] \in Step /\ calls'[q] > 0
<1>1. /\ calls \in [Rank -> 0 .. MaxBarriers] /\ MaxBarriers \in Nat
      /\ pc \in [Rank -> {"out", "send", "wait"}]
      /\ step \in [Rank -> Nat] /\ phase \in [Rank -> Phase]
      /\ \A q \in Rank : Inside(q) => step[q] \in Step /\ calls[q] > 0
  BY SizeAssumption DEF Types, TypeOK, Inside
<1>2. CASE Enter(r)
  <2>1. /\ calls' = [calls EXCEPT ![r] = calls[r] + 1]
        /\ calls[r] < MaxBarriers /\ calls[r] \in Nat
        /\ pc' = [pc EXCEPT ![r] = "send"]
        /\ step' = [step EXCEPT ![r] = 0]
        /\ phase' = [phase EXCEPT ![r] = 1 - phase[r]]
        /\ 1 - phase[r] \in Phase
    BY <1>1, <1>2 DEF Enter, Phase
  <2>2. 0 \in Step
    BY <1>2, SomeStep DEF Enter
  <2>3. ASSUME NEW q \in Rank, Inside(q)'
        PROVE  step'[q] \in Step /\ calls'[q] > 0
    <3>1. CASE q = r
      BY <1>1, <2>1, <2>2, <3>1
    <3>2. CASE q # r
      BY <1>1, <2>1, <2>3, <3>2 DEF Inside
    <3> QED BY <3>1, <3>2
  <2>4. calls[r] + 1 \in 0 .. MaxBarriers
    BY <1>1, <2>1
  <2> QED BY <1>1, <2>1, <2>3, <2>4
<1>3. CASE Inject(r) \/ Leave(r) \/ PollNoDefer(r) \/ PollDefer(r)
  <2>1. /\ UNCHANGED <<calls, step, phase>>
        /\ pc' \in [Rank -> {"out", "send", "wait"}]
        /\ \A q \in Rank : Inside(q)' => Inside(q)
    BY <1>1, <1>3 DEF Inject, Leave, PollNoDefer, PollDefer, Inside
  <2> QED BY <1>1, <2>1
<1>4. CASE NextStep(r)
  <2>1. /\ UNCHANGED <<calls, phase>>
        /\ pc' \in [Rank -> {"out", "send", "wait"}]
        /\ step' = [step EXCEPT ![r] = step[r] + 1]
        /\ \A q \in Rank : Inside(q)' => Inside(q)
        /\ Inside(r) /\ step[r] # NSteps - 1
    BY <1>1, <1>4 DEF NextStep, LastStep, Inside
  <2>2. step[r] + 1 \in Step
    BY <1>1, <2>1, StepFacts DEF Step
  <2>3. step[r] + 1 \in Nat
    BY <1>1
  <2> QED BY <1>1, <2>1, <2>2, <2>3
<1> QED BY <1>2, <1>3, <1>4 DEF RankStep

LEMMA DataTypes ==
    ASSUME Types, QueueInv, MessageInv, PoolInv, PoolInv',
           NEW r \in Rank, RankStep(r)
    PROVE  /\ arrived' \in [Rank -> SUBSET (Phase \X Step)]
           /\ cq' \in [Rank -> Seq(Messages)] /\ wire' \subseteq Messages
           /\ posted' \in [Rank -> Nat] /\ num_pending' \in [Rank -> Nat]
           /\ num_pending'[r] = num_pending[r] \/ num_pending'[r] = 0
                \/ Inside(r)'
<1>1. /\ arrived \in [Rank -> SUBSET (Phase \X Step)]
      /\ cq \in [Rank -> Seq(Messages)] /\ wire \subseteq Messages
      /\ posted \in [Rank -> Nat] /\ num_pending \in [Rank -> Nat]
      /\ posted[r] \in Nat /\ num_pending[r] \in Nat
  <2>1. /\ arrived \in [Rank -> SUBSET (Phase \X Step)]
        /\ cq \in [Rank -> Seq(Messages)] /\ wire \subseteq Messages
        /\ posted \in [Rank -> 0 .. RECV_POOL_SIZE]
        /\ num_pending \in [Rank -> 0 .. RECV_POOL_SIZE]
    BY DEF Types, TypeOK, Messages
  <2>2. \A n \in 0 .. RECV_POOL_SIZE : n \in Nat
    BY SizeAssumption
  <2> QED BY <2>1, <2>2
<1>2. CASE Enter(r)
  BY <1>1, <1>2 DEF Enter, ClearPending
<1>3. CASE Inject(r)
  BY <1>1, <1>3, InjectTo DEF Inject
<1>4. CASE PollNoDefer(r) \/ PollDefer(r)
  <2>1. /\ Poll(r) /\ UNCHANGED <<wire, pc>> /\ Inside(r)
        /\ posted' = [posted EXCEPT ![r] = @ + 1] \/ posted' = posted
        /\ \/ num_pending' = num_pending
           \/ num_pending' = [num_pending EXCEPT ![r] = @ + 1]
    BY <1>4 DEF PollNoDefer, PollDefer, Inside
  <2>2. PICK h : h = Head(cq[r]) /\ h \in To(r)
    BY <2>1, PollTo
  <2>3. h.phase \in Phase /\ h.step \in Step
    BY <2>2, MessageFacts DEF Messages
  <2>4. arrived' = [arrived EXCEPT ![r] = @ \cup {<<h.phase, h.step>>}]
    BY <2>1, <2>2 DEF Poll, NoteArrival
  <2>5. arrived' \in [Rank -> SUBSET (Phase \X Step)]
    BY <1>1, <2>3, <2>4
  <2>6. cq' \in [Rank -> Seq(Messages)]
    BY <2>1, PollTo
  <2>7. posted' \in [Rank -> Nat] /\ num_pending' \in [Rank -> Nat]
    <3>1. posted[r] + 1 \in Nat /\ num_pending[r] + 1 \in Nat
      BY <1>1
    <3> QED BY <1>1, <2>1, <3>1
  <2>8. Inside(r)'
    BY <2>1 DEF Inside
  <2> QED BY <1>1, <2>1, <2>5, <2>6, <2>7, <2>8
<1>5. CASE NextStep(r) \/ Leave(r)
  <2>1. posted[r] + num_pending[r] \in Nat
    BY <1>1
  <2> QED BY <1>1, <1>5, <2>1 DEF NextStep, Leave, Repost
<1> QED BY <1>2, <1>3, <1>4, <1>5 DEF RankStep

(* The counts of buffers are bounded by the pool.                          *)
LEMMA PoolBounds ==
    ASSUME Types, PoolInv', cq' \in [Rank -> Seq(Messages)],
           NEW q \in Rank, posted'[q] \in Nat, num_pending'[q] \in Nat,
           \/ num_pending'[q] = num_pending[q] \/ num_pending'[q] = 0
           \/ Inside(q)'
    PROVE  /\ posted'[q] \in 0 .. RECV_POOL_SIZE
           /\ num_pending'[q] \in 0 .. RECV_POOL_SIZE
<1>1. PICK n \in Nat : n = Len(cq'[q])
  <2>1. cq'[q] \in Seq(Messages)
    OBVIOUS
  <2> QED BY <2>1
<1>2. /\ posted'[q] + n + (IF Inside(q)' THEN num_pending'[q] ELSE 0)
           = RECV_POOL_SIZE
      /\ RECV_POOL_SIZE \in Nat
  BY <1>1, SizeAssumption DEF PoolInv
<1>3. num_pending[q] \in 0 .. RECV_POOL_SIZE
  BY DEF Types, TypeOK
<1> QED BY <1>1, <1>2, <1>3

LEMMA TypesStep ==
    ASSUME Types, QueueInv, MessageInv, PoolInv, MessageInv', PoolInv',
           [Next]_vars
    PROVE  Types'
<1>1. ASSUME cq' \in [Rank -> Seq(Messages)], NEW q \in Rank,
             NEW i \in 1 .. Len(cq'[q])
      PROVE  cq'[q][i].dst = q
  <2>1. cq'[q][i] \in To(q)'
    BY DEF To, Unpolled
  <2> QED BY <2>1 DEF MessageInv
<1>2. CASE UNCHANGED vars
  BY <1>2 DEF vars, rankVars, Types, TypeOK, Inside
<1>3. ASSUME NEW m \in wire, Receive(m)
      PROVE  Types'
  <2>1. /\ UNCHANGED rankVars /\ wire' \subseteq wire /\ m.dst \in Rank
        /\ cq' \in [Rank -> Seq(Messages)]
        /\ posted[m.dst] > 0
        /\ posted' = [posted EXCEPT ![m.dst] = @ - 1]
    BY <1>3, ReceiveTo DEF Receive
  <2>2. posted' \in [Rank -> 0 .. RECV_POOL_SIZE]
    <3>1. posted[m.dst] - 1 \in 0 .. RECV_POOL_SIZE
      BY <2>1, SizeAssumption DEF Types, TypeOK
    <3> QED BY <2>1, <3>1 DEF Types, TypeOK
  <2> QED BY <1>1, <2>1, <2>2 DEF rankVars, Types, TypeOK, Inside
<1>4. ASSUME NEW r \in Rank, RankStep(r)
      PROVE  Types'
  <2>1. /\ arrived' \in [Rank -> SUBSET (Phase \X Step)]
        /\ cq' \in [Rank -> Seq(Messages)] /\ wire' \subseteq Messages
        /\ posted' \in [Rank -> Nat] /\ num_pending' \in [Rank -> Nat]
        /\ \/ num_pending'[r] = num_pending[r] \/ num_pending'[r] = 0
           \/ Inside(r)'
    BY <1>4, DataTypes
  <2>2. ASSUME NEW q \in Rank
        PROVE  /\ posted'[q] \in 0 .. RECV_POOL_SIZE
               /\ num_pending'[q] \in 0 .. RECV_POOL_SIZE
    <3>1. \/ num_pending'[q] = num_pending[q] \/ num_pending'[q] = 0
          \/ Inside(q)'
      BY <1>4, <2>1, OtherRank DEF SameRank
    <3> QED BY <2>1, <3>1, PoolBounds
  <2>3. /\ posted' \in [Rank -> 0 .. RECV_POOL_SIZE]
        /\ num_pending' \in [Rank -> 0 .. RECV_POOL_SIZE]
    BY <2>1, <2>2
  <2>4. /\ calls' \in [Rank -> 0 .. MaxBarriers]
        /\ pc' \in [Rank -> {"out", "send", "wait"}]
        /\ step' \in [Rank -> Nat]
        /\ phase' \in [Rank -> Phase]
        /\ \A q \in Rank : Inside(q)' => step'[q] \in Step /\ calls'[q] > 0
    BY <1>4, PlaceTypes
  <2> QED BY <1>1, <2>1, <2>3, <2>4 DEF Types, TypeOK, Inside, Messages
<1> QED BY <1>2, <1>3, <1>4 DEF Next, Finished
-----------------------------------------------------------------------------
LEMMA InitHolds == Init => IInv
<1> SUFFICES ASSUME Init PROVE IInv
  OBVIOUS
<1>1. /\ MaxBarriers \in Nat /\ RECV_POOL_SIZE \in Nat /\ 0 \in Phase
      /\ 0 % 2 = 0 /\ NSteps \in Nat
  BY SizeAssumption, StepsAssumption DEF Phase
<1>2. \A r \in Rank : /\ ~Inside(r) /\ Left(r) = 0 /\ cq[r] = <<>>
                      /\ Len(cq[r]) = 0 /\ calls[r] = 0 /\ To(r) = {}
  BY DEF Init, Inside, Left, To, Unpolled
<1>3. \A r \in Rank, k \in Step : Sent(r, k) = 0
  BY <1>2 DEF Sent, Bit
<1>4. Types
  <2>1. cq \in [Rank -> Seq(Messages)]
    BY DEF Init
  <2>2. 0 \in 0 .. MaxBarriers /\ 0 \in 0 .. RECV_POOL_SIZE
        /\ RECV_POOL_SIZE \in 0 .. RECV_POOL_SIZE
    BY <1>1
  <2>3. \A r \in Rank : \A i \in 1 .. Len(cq[r]) : cq[r][i].dst = r
    BY <1>2
  <2>4. TypeOK
    BY <1>1, <1>2, <2>2, <2>3 DEF Init, TypeOK, Inside
  <2> QED BY <1>2, <2>1, <2>4 DEF Types
<1>5. QueueInv
  BY <1>2 DEF QueueInv, Unpolled
<1>6. MessageInv /\ WindowInv /\ BarrierInv
  BY <1>2 DEF MessageInv, WindowInv, BarrierInv
<1>7. ArrivedInv
  BY <1>1, <1>2 DEF ArrivedInv, ArrivedAt, Init
<1>8. PassedInv
  BY <1>2, <1>3, FwdFrom DEF PassedInv
<1>9. PoolInv /\ PendingInv
  <2>1. \A r \in Rank : posted[r] = RECV_POOL_SIZE /\ num_pending[r] = 0
    BY DEF Init
  <2> QED BY <1>1, <1>2, <2>1 DEF PoolInv, PendingInv
<1> QED BY <1>4, <1>5, <1>6, <1>7, <1>8, <1>9 DEF IInv

LEMMA QueueStep ==
    ASSUME Types, QueueInv, MessageInv, [Next]_vars
    PROVE  QueueInv'
<1>1. ASSUME NEW r \in Rank, RankStep(r)
      PROVE  QueueInv'
  <2>1. CASE PollNoDefer(r) \/ PollDefer(r)
    <3>1. Poll(r) /\ UNCHANGED wire
      BY <2>1 DEF PollNoDefer, PollDefer
    <3> QED BY <3>1, PollTo
  <2>2. CASE Inject(r)
    BY <2>2, InjectTo
  <2>3. CASE Enter(r) \/ NextStep(r) \/ Leave(r)
    <3>1. UNCHANGED <<wire, cq>>
      BY <2>3 DEF Enter, NextStep, Leave
    <3> QED BY <3>1, QuietTo
  <2> QED BY <1>1, <2>1, <2>2, <2>3 DEF RankStep
<1>2. ASSUME NEW m \in wire, Receive(m)
      PROVE  QueueInv'
  BY <1>2, ReceiveTo
<1>3. CASE UNCHANGED vars
  BY <1>3, QuietTo DEF vars
<1> QED BY <1>1, <1>2, <1>3 DEF Next, Finished

LEMMA InvStep == IInv /\ [Next]_vars => IInv'
<1> SUFFICES ASSUME IInv, [Next]_vars PROVE IInv'
  OBVIOUS
<1> USE DEF IInv
<1>1. QueueInv' /\ MessageInv' /\ ArrivedInv' /\ WindowInv' /\ BarrierInv'
      /\ PassedInv' /\ PoolInv' /\ PendingInv'
  BY QueueStep, MessageStep, ArrivedStep, WindowStep, BarrierStep, PoolStep,
     PendingStep
<1>2. Types'
  BY <1>1, TypesStep
<1> QED BY <1>1, <1>2

(* The inductive invariant of barrier(), poll_cq_defer(),                  *)
(* poll_cq_nodefer() and the receives they post.                           *)
THEOREM Invariance == Spec => []IInv
<1> QED BY InitHolds, InvStep, PTL DEF Spec

(* The step, the phase and the counts of receives stay in their ranges.    *)
THEOREM TypeCorrect == Spec => []TypeOK
<1>1. IInv => TypeOK
  BY DEF IInv, Types
<1> QED BY <1>1, Invariance, PTL

(* No receive buffer is lost or posted twice, and pending_repost[], which  *)
(* is written without a bounds check, needs two entries per step.          *)
THEOREM ReceivesTheorem == Spec => []ReceivesAccountedFor
<1>1. IInv => ReceivesAccountedFor
  <2> SUFFICES ASSUME IInv, NEW r \in Rank
               PROVE  /\ posted[r] + Len(cq[r])
                           + (IF pc[r] = "out" THEN 0 ELSE num_pending[r])
                             = RECV_POOL_SIZE
                      /\ num_pending[r] <= 2 * NSteps
    BY DEF ReceivesAccountedFor
  <2> QED BY DEF IInv, PoolInv, PendingInv, Inside
<1> QED BY <1>1, Invariance, PTL

(* One bit of phase tells the messages of this barrier from those of the   *)
(* next, in whatever order the fabric delivers them.                       *)
THEOREM PhaseTheorem == Spec => []PhaseIsEnough
<1>1. IInv => PhaseIsEnough
  <2> SUFFICES ASSUME IInv, NEW r \in Rank,
                      NEW m \in wire \cup {cq[r][i] : i \in 1 .. Len(cq[r])},
                      m.dst = r
               PROVE  /\ m.call \in {calls[r], calls[r] + 1}
                      /\ pc[r] = "out" => m.call = calls[r] + 1
    BY DEF PhaseIsEnough
  <2>1. m \in To(r)
    BY DEF To, Unpolled
  <2>2. m.call \in Nat /\ Left(r) < m.call /\ m.call <= calls[r] + 1
    BY <2>1, MessageCall DEF IInv
  <2>3. calls[r] \in Nat
    BY RankFacts DEF IInv
  <2> QED BY <2>2, <2>3 DEF Left, Inside
<1> QED BY <1>1, Invariance, PTL

(* The host barrier is a barrier: a rank comes out of its t-th only after  *)
(* every rank has gone into its t-th.                                      *)
LEMMA AbstractStep ==
    ASSUME IInv, [Next]_vars
    PROVE  [Abstract!Next]_(Abstract!vars)
<1> DEFINE out(r) == IF pc[r] = "out" THEN calls[r] ELSE calls[r] - 1
           left == [r \in Rank |-> out(r)]
<1>1. CASE UNCHANGED rankVars
  BY <1>1 DEF rankVars, Abstract!vars
<1>2. ASSUME NEW r \in Rank, RankStep(r)
      PROVE  [Abstract!Next]_(Abstract!vars)
  <2>1. /\ Types /\ ArrivedInv /\ WindowInv /\ BarrierInv
        /\ calls \in [Rank -> 0 .. MaxBarriers] /\ calls[r] \in Nat
    <3>1. Types /\ ArrivedInv /\ WindowInv /\ BarrierInv
      BY DEF IInv
    <3>2. calls[r] \in 0 .. MaxBarriers /\ MaxBarriers \in Nat
      BY <3>1, RankFacts
    <3>3. calls \in [Rank -> 0 .. MaxBarriers]
      BY <3>1 DEF Types, TypeOK
    <3> QED BY <3>1, <3>2, <3>3
  <2>2. \A q \in Rank : out(q) = Left(q) /\ out(q)' = Left(q)'
    BY DEF Left, Inside
  <2>3. CASE Enter(r)
    <3>1. /\ calls' = [calls EXCEPT ![r] = calls[r] + 1] /\ pc[r] = "out"
      BY <2>3 DEF Enter
    <3>2. \A q \in Rank : out(q)' = out(q)
      <4>1. ~Leave(r)
        BY <2>3 DEF Enter, Leave
      <4> QED BY <1>2, <2>1, <2>2, <4>1, LeftStep
    <3>3. left' = left /\ left[r] = calls[r]
      BY <3>1, <3>2
    <3>4. Abstract!Enter(r)
      BY <3>1, <3>3 DEF Abstract!Enter
    <3> QED BY <3>4 DEF Abstract!Next
  <2>4. CASE Leave(r)
    <3>1. /\ Left(r) = calls[r] - 1 /\ Left(r)' = calls[r]
          /\ \A q \in Rank : q # r => Left(q)' = Left(q)
          /\ calls' = calls
      <4>1. /\ Inside(r) /\ ~Inside(r)' /\ calls' = calls
        BY <2>1, <2>4 DEF Leave, Inside, Types, TypeOK
      <4> QED BY <1>2, <2>1, <4>1, LeftStep DEF Left
    <3>2. left[r] = calls[r] - 1 /\ left' = [left EXCEPT ![r] = left[r] + 1]
      <4>1. left[r] = calls[r] - 1
        BY <2>2, <3>1
      <4>2. left'[r] = left[r] + 1
        BY <2>1, <2>2, <3>1, <4>1
      <4>3. \A q \in Rank : q # r => left'[q] = left[q]
        BY <2>2, <3>1
      <4> QED BY <4>1, <4>2, <4>3
    <3>3. \A q \in Rank : calls[q] > left[r]
      <4>1. \A q \in Rank : calls[q] >= calls[r] /\ calls[q] \in Nat
        BY <2>1, <2>4, AllCalled, RankFacts
      <4> QED BY <2>1, <3>2, <4>1
    <3>4. Abstract!Leave(r)
      <4>1. calls[r] = left[r] + 1
        BY <2>1, <3>2
      <4> QED BY <3>1, <3>2, <3>3, <4>1 DEF Abstract!Leave
    <3> QED BY <3>4 DEF Abstract!Next
  <2>5. CASE ~Enter(r) /\ ~Leave(r)
    <3>1. calls' = calls
      BY <1>2, <2>5 DEF RankStep, Inject, PollNoDefer, PollDefer, NextStep
    <3>2. \A q \in Rank : out(q)' = out(q)
      BY <1>2, <2>1, <2>2, <2>5, LeftStep
    <3>3. left' = left
      BY <3>2
    <3> QED BY <3>1, <3>3 DEF Abstract!vars
  <2> QED BY <2>3, <2>4, <2>5
<1>3. CASE UNCHANGED vars \/ \E m \in wire : Receive(m)
  BY <1>1, <1>3 DEF vars, Receive
<1> QED BY <1>2, <1>3 DEF Next, Finished

THEOREM Refinement == Spec => ImplementsBarrier
<1>1. Init => Abstract!Init
  BY DEF Init, Abstract!Init
<1>2. IInv /\ [Next]_vars => [Abstract!Next]_(Abstract!vars)
  BY AbstractStep
<1> QED BY <1>1, <1>2, Invariance, PTL DEF Spec, ImplementsBarrier,
                                          Abstract!Spec
=============================================================================
