--------------------------- MODULE Mlx5Qp_proofs ---------------------------
(***************************************************************************)
(* quiet() waits for what was posted and no entry the NIC may still read   *)
(* is overwritten, for any sizes of the two rings and any length of the    *)
(* run, of a client that asks for a completion of every put and does not   *)
(* call quiet() when its 16-bit index is 0 again.                          *)
(***************************************************************************)
EXTENDS Mlx5Qp, TLAPS

(* What the doorbell says is somewhere between what was executed and what  *)
(* was posted, with or without such a client.                              *)
Indices ==
    /\ prod_idx = (IF pc = "ring" THEN posted - 1 ELSE posted) % IndexSpan
    /\ pc = "ring" => posted > 0
    /\ \E d \in completed .. posted : dbrec = d % IndexSpan

TypeInv == TypeOK /\ Indices

(* The client of the theorems.                                             *)
Client == FALSE \notin Signals /\ ~QuietAtWrap

(* Every entry executed has its CQE; those of the next round of the ring   *)
(* still have the bit of the round before.                                 *)
OwnerAt(p) == (p \div NCqes) % 2
Completions ==
    /\ cqes = completed
    /\ \A p \in completed .. completed + NCqes - 1 :
           cq[p % NCqes] = 1 - OwnerAt(p)

(* No more than a ring is under way, and the ring holds it.                *)
Outstanding == quieted <= completed /\ posted - quieted <= NWqes
EntryBuilt(n) == wq[(n - 1) % NWqes] = [put |-> n, signaled |-> TRUE]
Entries ==
    /\ executed
    /\ \A n \in completed + 1 .. posted : EntryBuilt(n)

Polling == pc = "poll" => expected = prod_idx /\ expected # 0

IInv == TypeInv /\ Completions /\ Outstanding /\ Entries /\ Polling

-----------------------------------------------------------------------------
(* Quotients and remainders.                                               *)

LEMMA Quotient ==
    ASSUME NEW a \in Nat, NEW n \in Nat \ {0}
    PROVE  /\ a \div n \in Nat /\ a % n \in 0 .. n - 1
           /\ a = n * (a \div n) + (a % n)
  OBVIOUS

LEMMA QuotientUnique ==
    ASSUME NEW a \in Nat, NEW n \in Nat \ {0}, NEW q \in Int,
           NEW r \in 0 .. n - 1, a = n * q + r
    PROVE  a \div n = q /\ a % n = r
<1> DEFINE p == a \div n
           s == a % n
<1>1. p \in Nat /\ s \in 0 .. n - 1 /\ a = n * p + s
  BY Quotient
<1> HIDE DEF p, s
<1>2. n * (q - p) = s - r
  BY <1>1
<1>3. CASE q - p <= -1
  <2>1. n * (q - p) <= -n
    BY <1>1, <1>3
  <2> QED BY <1>1, <1>2, <2>1
<1>4. CASE q - p >= 1
  <2>1. n * (q - p) >= n
    BY <1>1, <1>4
  <2> QED BY <1>1, <1>2, <2>1
<1>5. CASE q = p
  BY <1>1, <1>2, <1>5 DEF p, s
<1> QED BY <1>1, <1>3, <1>4, <1>5

LEMMA Divides ==
    ASSUME NEW m \in Nat \ {0}, NEW n \in Nat \ {0}, m % n = 0
    PROVE  \E k \in Nat : m = n * k
<1>1. PICK k \in Nat : k = m \div n
  BY Quotient
<1>2. m = n * (m \div n) + (m % n)
  BY ONLY m \in Nat \ {0}, n \in Nat \ {0}, Quotient
<1>3. m = n * k
  BY <1>1, <1>2
<1> QED BY <1>3

(* The index after a put, as NewProd computes it from the one before.      *)
LEMMA NextRemainder ==
    ASSUME NEW a \in Nat, NEW n \in Nat \ {0}
    PROVE  ((a % n) + 1) % n = (a + 1) % n
<1> DEFINE q == a \div n
           r == a % n
<1>1. q \in Nat /\ r \in 0 .. n - 1 /\ a = n * q + r
  BY Quotient
<1> HIDE DEF q, r
<1>2. CASE r + 1 < n
  <2>1. a + 1 = n * q + (r + 1) /\ r + 1 \in 0 .. n - 1
    BY <1>1, <1>2
  <2>2. r + 1 = n * 0 + (r + 1)
    BY <1>1
  <2>3. (a + 1) % n = r + 1
    BY <1>1, <2>1, QuotientUnique
  <2>4. (r + 1) % n = r + 1
    BY <1>1, <2>1, <2>2, QuotientUnique
  <2> QED BY <2>3, <2>4 DEF r
<1>3. CASE r + 1 = n
  <2>1. a + 1 = n * (q + 1) + 0 /\ 0 \in 0 .. n - 1
    BY <1>1, <1>3
  <2>2. n = n * 1 + 0
    OBVIOUS
  <2>3. (a + 1) % n = 0
    BY <1>1, <2>1, QuotientUnique
  <2>4. (r + 1) % n = 0
    BY <1>3, <2>1, <2>2, QuotientUnique
  <2> QED BY <2>3, <2>4 DEF r
<1> QED BY <1>1, <1>2, <1>3

(* The slot and the owner bit may be computed from an index that has been  *)
(* reduced modulo m, when m is a number of rounds of the ring.             *)
LEMMA NestedRemainder ==
    ASSUME NEW m \in Nat \ {0}, NEW n \in Nat \ {0}, NEW k \in Nat, m = n * k
    PROVE  \A a \in Nat : /\ (a % m) % n = a % n
                          /\ a \div n = k * (a \div m) + ((a % m) \div n)
<1> TAKE a \in Nat
<1> DEFINE q == a \div m
           r == a % m
           p == r \div n
           s == r % n
<1>1. q \in Nat /\ r \in 0 .. m - 1 /\ a = m * q + r
  BY ONLY a \in Nat, m \in Nat \ {0}, Quotient
<1>2. PICK b \in Nat : b = r
  <2>1. r \in Nat
    BY <1>1
  <2> QED BY ONLY <2>1
<1>3. p \in Nat /\ s \in 0 .. n - 1 /\ r = n * p + s
  <2>1. b \div n \in Nat /\ b % n \in 0 .. n - 1 /\ b = n * (b \div n) + (b % n)
    BY ONLY b \in Nat, n \in Nat \ {0}, Quotient
  <2> QED BY <1>2, <2>1
<1> HIDE DEF q, r, p, s
<1>4. m * q = n * (k * q)
  BY <1>1
<1>5. n * (k * q) + n * p = n * (k * q + p) /\ k * q + p \in Nat
  BY <1>1, <1>3
<1>6. a = n * (k * q + p) + s
  <2>1. m * q \in Nat /\ n * p \in Nat
    BY <1>1, <1>3
  <2>2. a = m * q + (n * p + s)
    BY <1>1, <1>3
  <2> QED BY ONLY <1>3, <1>4, <1>5, <2>1, <2>2
<1>7. a \div n = k * q + p /\ a % n = s
  BY <1>3, <1>5, <1>6, QuotientUnique
<1> QED BY <1>7 DEF q, r, p, s

(* Less than n apart, two numbers have different remainders.               *)
LEMMA RemaindersDiffer ==
    ASSUME NEW n \in Nat \ {0}, NEW i \in Nat, NEW j \in Nat, i < j, j < i + n
    PROVE  i % n # j % n
<1> DEFINE q == i \div n
           r == i % n
           p == j \div n
<1>1. SUFFICES ASSUME j % n = r PROVE FALSE
  OBVIOUS
<1>2. q \in Nat /\ r \in 0 .. n - 1 /\ i = n * q + r /\ p \in Nat /\ j = n * p + r
  BY <1>1, Quotient
<1> HIDE DEF q, r, p
<1>3. j - i = n * (p - q)
  BY <1>2
<1>4. CASE p - q <= 0
  BY <1>2, <1>3, <1>4
<1>5. CASE p - q >= 1
  BY <1>2, <1>3, <1>5
<1> QED BY <1>2, <1>4, <1>5

-----------------------------------------------------------------------------
(* The same of the rings and of the producer index.                        *)

LEMMA Sizes ==
    /\ IndexSpan \in Nat \ {0} /\ NWqes \in Nat \ {0} /\ NCqes \in Nat \ {0}
    /\ NWqes <= NCqes /\ MaxPuts \in Nat
  BY SizeAssumption

(* IndexSpan is a number of rounds of the work queue, and an even number   *)
(* of rounds of the completion queue.                                      *)
LEMMA Rounds ==
    /\ \E k \in Nat : IndexSpan = NWqes * k
    /\ \E k \in Nat : IndexSpan = NCqes * (2 * k)
<1>1. PICK m \in Nat \ {0} : m = 2 * NCqes
  BY Sizes
<1>2. IndexSpan % NWqes = 0 /\ IndexSpan % m = 0
  BY <1>1, SizeAssumption
<1>3. PICK j \in Nat, k \in Nat : IndexSpan = NWqes * j /\ IndexSpan = m * k
  <2>1. \E j \in Nat : IndexSpan = NWqes * j
    BY ONLY <1>2, Sizes, Divides
  <2>2. \E k \in Nat : IndexSpan = m * k
    BY ONLY <1>2, m \in Nat \ {0}, Sizes, Divides
  <2> QED BY <2>1, <2>2
<1>4. m * k = NCqes * (2 * k)
  BY <1>1, <1>3, Sizes
<1> QED BY <1>3, <1>4

LEMMA SlotOfIndex ==
    ASSUME NEW a \in Nat
    PROVE  SlotOf(a % IndexSpan) = a % NWqes
<1>1. PICK k \in Nat : IndexSpan = NWqes * k
  BY Rounds
<1>2. IndexSpan \in Nat \ {0} /\ NWqes \in Nat \ {0}
  BY Sizes
<1>3. (a % IndexSpan) % NWqes = a % NWqes
  BY ONLY a \in Nat, k \in Nat, <1>1, <1>2, NestedRemainder, Zenon
<1> QED BY <1>3 DEF SlotOf

LEMMA OwnerOfIndex ==
    ASSUME NEW a \in Nat
    PROVE  /\ (a % IndexSpan) % NCqes = a % NCqes
           /\ OwnerAt(a % IndexSpan) = OwnerAt(a)
<1>1. PICK k \in Nat : IndexSpan = NCqes * (2 * k)
  BY Rounds
<1> DEFINE q == a \div IndexSpan
           p == (a % IndexSpan) \div NCqes
<1>2. /\ (a % IndexSpan) % NCqes = a % NCqes
      /\ a \div NCqes = (2 * k) * q + p
  <2>1. PICK j \in Nat : j = 2 * k
    OBVIOUS
  <2>2. IndexSpan = NCqes * j
    BY <1>1, <2>1
  <2>3. /\ (a % IndexSpan) % NCqes = a % NCqes
        /\ a \div NCqes = j * (a \div IndexSpan) + ((a % IndexSpan) \div NCqes)
    <3>1. IndexSpan \in Nat \ {0} /\ NCqes \in Nat \ {0}
      BY Sizes
    <3>2. \A b \in Nat :
              /\ (b % IndexSpan) % NCqes = b % NCqes
              /\ b \div NCqes = j * (b \div IndexSpan) + ((b % IndexSpan) \div NCqes)
      <4> HIDE DEF q, p
      <4> QED BY ONLY j \in Nat, <2>2, <3>1, NestedRemainder, Zenon
    <3> QED BY ONLY a \in Nat, <3>2, Zenon
  <2> QED BY <2>1, <2>3
<1>3. q \in Nat /\ p \in Nat
  <2>1. q \in Nat /\ a % IndexSpan \in Nat
    BY Sizes, Quotient
  <2>2. PICK b \in Nat : b = a % IndexSpan
    BY <2>1
  <2>3. b \div NCqes \in Nat
    BY Sizes, Quotient
  <2> QED BY <2>1, <2>2, <2>3
<1> HIDE DEF q, p
<1>4. PICK j \in Nat : j = k * q
  BY <1>3
<1>5. (2 * k) * q = 2 * j
  BY <1>3, <1>4
<1>6. a \div NCqes = 2 * j + p
  BY <1>2, <1>5
<1>7. (2 * j + p) % 2 = p % 2
  BY <1>3, <1>4
<1> QED BY <1>2, <1>6, <1>7 DEF OwnerAt, p

(* One round later the bit is the other one.                               *)
LEMMA OwnerToggles ==
    ASSUME NEW a \in Nat
    PROVE  /\ (a + NCqes) % NCqes = a % NCqes
           /\ OwnerAt(a) \in {0, 1}
           /\ OwnerAt(a + NCqes) = 1 - OwnerAt(a)
<1> DEFINE q == a \div NCqes
           r == a % NCqes
<1>1. q \in Nat /\ r \in 0 .. NCqes - 1 /\ a = NCqes * q + r
  BY Sizes, Quotient
<1>2. (a + NCqes) \div NCqes = q + 1 /\ (a + NCqes) % NCqes = r
  <2> HIDE DEF q, r
  <2>1. a + NCqes = NCqes * (q + 1) + r /\ a + NCqes \in Nat
    BY <1>1, Sizes
  <2> QED BY <1>1, <2>1, Sizes, QuotientUnique
<1>3. q % 2 \in {0, 1} /\ (q + 1) % 2 = 1 - (q % 2)
  <2> HIDE DEF q
  <2> QED BY <1>1
<1> QED BY <1>2, <1>3 DEF OwnerAt

LEMMA InRange ==
    ASSUME NEW a \in Nat
    PROVE  /\ a % IndexSpan \in 0 .. IndexSpan - 1
           /\ a % NWqes \in 0 .. NWqes - 1 /\ a % NCqes \in 0 .. NCqes - 1
           /\ NewProd(a % IndexSpan) = (a + 1) % IndexSpan
  BY Sizes, Quotient, NextRemainder DEF NewProd

-----------------------------------------------------------------------------
(* The indices, whatever the client does.                                  *)

(* A put is built in the slot of its number.                               *)
LEMMA Built ==
    ASSUME TypeInv, NEW signaled \in Signals, BuildWqe(signaled)
    PROVE  /\ posted' = posted + 1 /\ posted' \in 0 .. MaxPuts
           /\ pc = "idle" /\ prod_idx = posted % IndexSpan
           /\ posted % NWqes \in 0 .. NWqes - 1
           /\ wq' = [wq EXCEPT ![posted % NWqes] =
                         [put |-> posted + 1, signaled |-> signaled]]
           /\ wq' \in [0 .. NWqes - 1 -> [put : 0 .. MaxPuts, signaled : BOOLEAN]]
<1>1. posted \in 0 .. MaxPuts /\ posted \in Nat
  BY Sizes DEF TypeInv, TypeOK
<1>2. /\ pc = "idle" /\ posted < MaxPuts /\ posted' = posted + 1
      /\ prod_idx = posted % IndexSpan
  BY DEF BuildWqe, TypeInv, Indices
<1>3. SlotOf(prod_idx) = posted % NWqes /\ posted % NWqes \in 0 .. NWqes - 1
  BY <1>1, <1>2, SlotOfIndex, InRange
<1>4. wq' = [wq EXCEPT ![posted % NWqes] =
                 [put |-> posted + 1, signaled |-> signaled]]
  BY <1>3 DEF BuildWqe
<1>5. posted + 1 \in 0 .. MaxPuts /\ signaled \in BOOLEAN
  BY <1>1, <1>2, Sizes, ClientAssumption
<1>6. wq' \in [0 .. NWqes - 1 -> [put : 0 .. MaxPuts, signaled : BOOLEAN]]
  BY <1>3, <1>4, <1>5 DEF TypeInv, TypeOK
<1> QED BY <1>1, <1>2, <1>3, <1>4, <1>5, <1>6

(* The NIC executes an entry only when one is posted that it has not       *)
(* executed: the doorbell never names an index of the next time round.     *)
LEMMA ExecutesPosted ==
    ASSUME TypeInv, Execute
    PROVE  completed \in Nat /\ completed < posted
<1>1. PICK d \in completed .. posted : dbrec = d % IndexSpan
  BY DEF TypeInv, Indices
<1>2. completed \in Nat /\ posted \in Nat
  BY Sizes DEF TypeInv, TypeOK
<1>3. d # completed
  BY <1>1 DEF Execute
<1> QED BY <1>1, <1>2, <1>3

LEMMA TypeInit == Init => TypeInv
<1> SUFFICES ASSUME Init PROVE TypeInv
  OBVIOUS
<1> USE DEF Init
<1>1. 0 % IndexSpan = 0 /\ 0 \in 0 .. IndexSpan - 1
  <2>1. 0 = IndexSpan * 0 + 0 /\ 0 \in 0 .. IndexSpan - 1
    BY Sizes
  <2> QED BY <2>1, Sizes, QuotientUnique
<1>2. Indices
  BY <1>1 DEF Indices
<1>3. /\ wq \in [0 .. NWqes - 1 -> [put : 0 .. MaxPuts, signaled : BOOLEAN]]
      /\ cq \in [0 .. NCqes - 1 -> {0, 1}]
  BY Sizes
<1>4. 0 \in 0 .. MaxPuts
  BY Sizes
<1> HIDE DEF Init
<1>5. /\ pc = "idle" /\ prod_idx = 0 /\ expected = 0 /\ dbrec = 0
      /\ qp_error = FALSE /\ cqes = 0 /\ posted = 0 /\ completed = 0 /\ quieted = 0
  BY DEF Init
<1>6. {prod_idx, expected, dbrec} \subseteq 0 .. IndexSpan - 1
  BY <1>1, <1>5
<1>7. completed \in 0 .. posted /\ quieted \in 0 .. posted /\ cqes <= completed
  BY <1>5
<1> QED BY <1>2, <1>3, <1>4, <1>5, <1>6, <1>7 DEF TypeInv, TypeOK

LEMMA TypeStep == TypeInv /\ [Next]_vars => TypeInv'
<1> SUFFICES ASSUME TypeInv, [Next]_vars PROVE TypeInv'
  OBVIOUS
<1>1. /\ posted \in Nat /\ completed \in Nat /\ quieted \in Nat /\ cqes \in Nat
      /\ completed <= posted /\ quieted <= posted /\ posted <= MaxPuts
      /\ cqes <= completed /\ MaxPuts \in Nat
  BY Sizes DEF TypeInv, TypeOK
<1>2. PICK d \in completed .. posted : dbrec = d % IndexSpan
  BY DEF TypeInv, Indices
<1>3. ASSUME NEW signaled \in Signals, Put(signaled) PROVE TypeInv'
  <2>1. /\ posted' = posted + 1 /\ posted' \in 0 .. MaxPuts
        /\ prod_idx = posted % IndexSpan
        /\ wq' \in [0 .. NWqes - 1 -> [put : 0 .. MaxPuts, signaled : BOOLEAN]]
    BY <1>3, Built DEF Put
  <2>2. /\ pc' = "ring"
        /\ UNCHANGED <<prod_idx, expected, dbrec, quieted, cq, cqes, qp_error, completed>>
    BY <1>3 DEF Put, nicVars
  <2>3. d \in completed' .. posted' /\ posted' - 1 = posted /\ posted' > 0
    BY <1>1, <1>2, <2>1, <2>2
  <2>4. Indices'
    BY <1>2, <2>1, <2>2, <2>3 DEF Indices
  <2>5. completed' \in 0 .. posted' /\ quieted' \in 0 .. posted'
    BY <1>1, <2>1, <2>2
  <2> QED BY <2>1, <2>2, <2>4, <2>5 DEF TypeInv, TypeOK
<1>4. ASSUME NEW signaled \in Signals, PutNoDb(signaled) PROVE TypeInv'
  <2>1. /\ posted' = posted + 1 /\ posted' \in 0 .. MaxPuts
        /\ prod_idx = posted % IndexSpan /\ pc = "idle"
        /\ wq' \in [0 .. NWqes - 1 -> [put : 0 .. MaxPuts, signaled : BOOLEAN]]
    BY <1>4, Built DEF PutNoDb
  <2>2. /\ prod_idx' = NewProd(prod_idx)
        /\ UNCHANGED <<pc, expected, dbrec, quieted, cq, cqes, qp_error, completed>>
    BY <1>4 DEF PutNoDb, nicVars
  <2>3. prod_idx' = posted' % IndexSpan /\ prod_idx' \in 0 .. IndexSpan - 1
    BY <1>1, <2>1, <2>2, InRange
  <2>4. d \in completed' .. posted'
    BY <1>1, <1>2, <2>1, <2>2
  <2>5. Indices'
    BY <1>2, <2>1, <2>2, <2>3, <2>4 DEF Indices
  <2>6. completed' \in 0 .. posted' /\ quieted' \in 0 .. posted'
    BY <1>1, <2>1, <2>2
  <2> QED BY <2>1, <2>2, <2>3, <2>5, <2>6 DEF TypeInv, TypeOK
<1> USE DEF TypeInv, TypeOK, Indices
<1>5. CASE RingDoorbell
  <2>1. posted - 1 \in Nat /\ prod_idx = (posted - 1) % IndexSpan
    BY <1>1, <1>5 DEF RingDoorbell
  <2>2. NewProd(prod_idx) = posted % IndexSpan /\ posted % IndexSpan \in 0 .. IndexSpan - 1
    BY <1>1, <2>1, InRange
  <2>3. posted \in completed .. posted
    BY <1>1
  <2>4. Indices'
    BY <1>5, <2>2, <2>3 DEF RingDoorbell, nicVars
  <2> QED BY <1>5, <2>2, <2>4 DEF RingDoorbell, nicVars
<1>6. CASE Flush
  <2>1. posted \in completed .. posted /\ prod_idx = posted % IndexSpan
    BY <1>1, <1>6 DEF Flush
  <2> QED BY <1>6, <2>1 DEF Flush, nicVars
<1>7. CASE QuietNothing
  BY <1>1, <1>7 DEF QuietNothing, nicVars
<1>8. CASE QuietBegin
  BY <1>1, <1>8 DEF QuietBegin, nicVars
<1>9. CASE QuietEnd
  BY <1>1, <1>9 DEF QuietEnd, nicVars
<1>10. CASE Execute
  <2>1. completed < posted /\ completed' = completed + 1
    BY <1>10, ExecutesPosted DEF Execute
  <2>2. d # completed
    BY <1>2, <1>10 DEF Execute
  <2>3. d \in completed' .. posted' /\ completed' \in 0 .. posted'
    BY <1>1, <2>1, <2>2, <1>10 DEF Execute, gpuVars
  <2>4. Indices'
    BY <1>2, <1>10, <2>3 DEF Execute, gpuVars
  <2>5. OwnerAt(cqes) \in {0, 1} /\ cqes % NCqes \in 0 .. NCqes - 1
    BY <1>1, OwnerToggles, InRange
  <2>6. \/ UNCHANGED <<cq, cqes>>
        \/ cqes' = cqes + 1 /\ cq' = [cq EXCEPT ![cqes % NCqes] = OwnerAt(cqes)]
    BY <1>10 DEF Execute, OwnerAt
  <2>7. cq' \in [0 .. NCqes - 1 -> {0, 1}]
    BY <2>5, <2>6
  <2>8. cqes' \in 0 .. MaxPuts /\ cqes' <= completed'
    BY ONLY <1>1, <2>1, <2>6
  <2>9. qp_error' \in BOOLEAN
    BY <1>10 DEF Execute
  <2> QED BY <1>10, <2>3, <2>4, <2>7, <2>8, <2>9 DEF Execute, gpuVars
<1>11. CASE UNCHANGED vars
  BY <1>11 DEF vars, gpuVars, nicVars
<1> QED BY <1>3, <1>4, <1>5, <1>6, <1>7, <1>8, <1>9, <1>10, <1>11
           DEF Next, Gpu, Stopped

(* The type invariant, of any client: the producer index and the doorbell  *)
(* keep their 16 bits (device_opt.cuh:609), each ring is written inside    *)
(* its bounds, and the NIC completes no more puts than were posted.        *)
THEOREM TypeCorrect == Spec => []TypeOK
<1>1. TypeInv => TypeOK
  BY DEF TypeInv
<1> QED BY <1>1, TypeInit, TypeStep, PTL DEF Spec

-----------------------------------------------------------------------------
(* The rings, of a client that keeps to the contract.                      *)

LEMMA InvTypes ==
    ASSUME IInv
    PROVE  /\ posted \in Nat /\ completed \in Nat /\ quieted \in Nat
           /\ completed <= posted /\ quieted <= completed
           /\ posted - quieted <= NWqes /\ posted - completed <= NWqes
           /\ wq \in [0 .. NWqes - 1 -> [put : 0 .. MaxPuts, signaled : BOOLEAN]]
           /\ cq \in [0 .. NCqes - 1 -> {0, 1}]
           /\ cqes = completed
<1>1. /\ posted \in Nat /\ completed \in Nat /\ quieted \in Nat
      /\ completed <= posted
      /\ wq \in [0 .. NWqes - 1 -> [put : 0 .. MaxPuts, signaled : BOOLEAN]]
      /\ cq \in [0 .. NCqes - 1 -> {0, 1}]
  BY Sizes DEF IInv, TypeInv, TypeOK
<1>2. quieted <= completed /\ posted - quieted <= NWqes /\ cqes = completed
  BY DEF IInv, Outstanding, Completions
<1> QED BY <1>1, <1>2, Sizes

LEMMA InitInv == Init => IInv
<1> SUFFICES ASSUME Init PROVE IInv
  OBVIOUS
<1>1. TypeInv
  BY TypeInit
<1>2. /\ pc = "idle" /\ posted = 0 /\ completed = 0 /\ quieted = 0 /\ cqes = 0
      /\ cq = [i \in 0 .. NCqes - 1 |-> 1] /\ executed
  BY DEF Init
<1>3. ASSUME NEW p \in 0 .. NCqes - 1 PROVE cq[p % NCqes] = 1 - OwnerAt(p)
  <2>1. p \in Nat /\ p = NCqes * 0 + p
    BY Sizes
  <2>2. p % NCqes = p /\ p \div NCqes = 0
    BY <2>1, Sizes, QuotientUnique
  <2> QED BY <1>2, <2>2 DEF OwnerAt
<1>4. Completions
  <2>1. completed .. completed + NCqes - 1 = 0 .. NCqes - 1
    BY <1>2, Sizes
  <2> QED BY <1>2, <1>3, <2>1 DEF Completions
<1>5. Outstanding /\ Polling /\ Entries
  BY <1>2, Sizes DEF Outstanding, Polling, Entries
<1> QED BY <1>1, <1>4, <1>5 DEF IInv

(* What a step of the GPU leaves to the NIC, and which of them moves what. *)
LEMMA Frames ==
    ASSUME [Next]_vars, ~Execute
    PROVE  /\ UNCHANGED nicVars
           /\ \/ UNCHANGED <<wq, posted>>
              \/ \E signaled \in Signals : BuildWqe(signaled) /\ UNCHANGED quieted
  BY DEF Next, Gpu, Stopped, vars, gpuVars, Put, PutNoDb, RingDoorbell, Flush,
         QuietNothing, QuietBegin, QuietEnd

(* The NIC executes a signaled entry, as it was built.                     *)
LEMMA Executed ==
    ASSUME IInv, Execute
    PROVE  /\ completed < posted /\ completed' = completed + 1
           /\ cqes' = cqes + 1
           /\ cq' = [cq EXCEPT ![completed % NCqes] = OwnerAt(completed)]
           /\ executed'
           /\ UNCHANGED gpuVars
<1>1. completed < posted /\ completed \in Nat
  BY ExecutesPosted DEF IInv
<1>2. wq[completed % NWqes] = [put |-> completed + 1, signaled |-> TRUE]
  <2>1. completed + 1 \in completed + 1 .. posted /\ (completed + 1) - 1 = completed
    BY <1>1, InvTypes
  <2>2. EntryBuilt(completed + 1)
    BY <2>1 DEF IInv, Entries
  <2> QED BY <2>1, <2>2 DEF EntryBuilt
<1>3. cqes = completed
  BY InvTypes
<1>4. executed'
  <2>1. wq[completed % NWqes].put = completed + 1 /\ executed
    BY <1>2 DEF IInv, Entries
  <2>2. executed' = (executed /\ wq[completed % NWqes].put = completed + 1)
    BY DEF Execute
  <2> QED BY <2>1, <2>2
<1>5. cqes' = cqes + 1 /\ cq' = [cq EXCEPT ![completed % NCqes] = OwnerAt(completed)]
  BY <1>2, <1>3 DEF Execute, OwnerAt
<1>6. completed' = completed + 1 /\ UNCHANGED gpuVars
  BY DEF Execute
<1> QED BY <1>1, <1>4, <1>5, <1>6

LEMMA CompletionsStep ==
    ASSUME IInv, [Next]_vars PROVE Completions'
<1>1. CASE ~Execute
  BY <1>1, Frames DEF IInv, Completions, nicVars
<1>2. CASE Execute
  <2>1. /\ completed' = completed + 1 /\ cqes' = completed'
        /\ cq' = [cq EXCEPT ![completed % NCqes] = OwnerAt(completed)]
        /\ completed \in Nat /\ cq \in [0 .. NCqes - 1 -> {0, 1}]
        /\ completed % NCqes \in 0 .. NCqes - 1
    BY <1>2, Executed, InvTypes, InRange
  <2>2. ASSUME NEW p \in completed + 1 .. completed + NCqes
        PROVE  cq'[p % NCqes] = 1 - OwnerAt(p)
    <3>1. p \in Nat /\ p % NCqes \in 0 .. NCqes - 1
      <4>1. p \in Nat
        BY <2>1, Sizes
      <4> QED BY ONLY <4>1, InRange
    <3>2. CASE p = completed + NCqes
      <4>1. /\ p % NCqes = completed % NCqes /\ OwnerAt(p) = 1 - OwnerAt(completed)
            /\ OwnerAt(completed) \in {0, 1}
        BY <2>1, <3>2, OwnerToggles
      <4>2. cq'[p % NCqes] = OwnerAt(completed)
        BY <2>1, <4>1
      <4> QED BY <4>1, <4>2
    <3>3. CASE p # completed + NCqes
      <4>1. p \in completed .. completed + NCqes - 1 /\ completed < p
            /\ p < completed + NCqes
        BY <2>1, <3>1, <3>3, Sizes
      <4>2. p % NCqes # completed % NCqes
        BY <2>1, <3>1, <4>1, Sizes, RemaindersDiffer
      <4>3. cq'[p % NCqes] = cq[p % NCqes]
        BY <2>1, <3>1, <4>2
      <4> QED BY <4>1, <4>3 DEF IInv, Completions
    <3> QED BY <3>2, <3>3
  <2>3. completed' .. completed' + NCqes - 1 = completed + 1 .. completed + NCqes
    BY <2>1, Sizes
  <2> QED BY <2>1, <2>2, <2>3 DEF Completions
<1> QED BY <1>1, <1>2

(* The poll ends with the completion of the last put: until then its slot  *)
(* holds the bit of the round before.                                      *)
LEMMA PollEnds ==
    ASSUME IInv, QuietEnd PROVE completed = posted
<1>1. /\ posted \in Nat /\ completed \in Nat /\ completed <= posted
      /\ posted - completed <= NWqes
  BY InvTypes
<1>2. /\ pc = "poll" /\ expected = posted % IndexSpan /\ expected # 0
      /\ cq[CqeIdx] = ExpectedOwner
  BY DEF QuietEnd, IInv, Polling, TypeInv, Indices
<1>3. SUFFICES ASSUME completed < posted PROVE FALSE
  BY <1>1
<1>4. posted - 1 \in Nat /\ posted - 1 \in completed .. completed + NCqes - 1
  BY <1>1, <1>3, Sizes
<1>5. expected - 1 = (posted - 1) % IndexSpan
  <2>1. PICK x \in Nat : x = (posted - 1) % IndexSpan
    BY <1>4, InRange
  <2>2. x < IndexSpan /\ NewProd(x) = posted % IndexSpan
    <3>1. (posted - 1) + 1 = posted
      BY <1>1
    <3>2. /\ (posted - 1) % IndexSpan \in 0 .. IndexSpan - 1
          /\ NewProd((posted - 1) % IndexSpan) = ((posted - 1) + 1) % IndexSpan
      BY ONLY <1>4, InRange
    <3> QED BY <2>1, <3>1, <3>2, Sizes
  <2>3. CASE x + 1 < IndexSpan
    <3>1. x + 1 = IndexSpan * 0 + (x + 1) /\ x + 1 \in 0 .. IndexSpan - 1
      BY <2>3, Sizes
    <3>2. (x + 1) % IndexSpan = x + 1
      BY <3>1, Sizes, QuotientUnique
    <3> QED BY <1>2, <2>1, <2>2, <3>2 DEF NewProd
  <2>4. CASE x + 1 = IndexSpan
    <3>1. x + 1 = IndexSpan * 1 + 0 /\ 0 \in 0 .. IndexSpan - 1
      BY <2>4, Sizes
    <3>2. (x + 1) % IndexSpan = 0
      BY <3>1, Sizes, QuotientUnique
    <3> QED BY <1>2, <2>2, <3>2 DEF NewProd
  <2> QED BY <2>1, <2>2, <2>3, <2>4, Sizes
<1>6. CqeIdx = (posted - 1) % NCqes /\ ExpectedOwner = OwnerAt(posted - 1)
  BY <1>4, <1>5, OwnerOfIndex DEF CqeIdx, ExpectedOwner, OwnerAt
<1>7. cq[(posted - 1) % NCqes] = 1 - OwnerAt(posted - 1)
  BY <1>4 DEF IInv, Completions
<1>8. OwnerAt(posted - 1) \in {0, 1}
  BY <1>4, OwnerToggles
<1> QED BY <1>2, <1>6, <1>7, <1>8

LEMMA OutstandingStep ==
    ASSUME IInv, Client, [Next]_vars PROVE Outstanding'
<1>1. /\ posted \in Nat /\ completed \in Nat /\ quieted \in Nat
      /\ completed <= posted /\ quieted <= completed
      /\ posted - quieted <= NWqes
  BY InvTypes
<1>2. ASSUME NEW signaled \in Signals, BuildWqe(signaled), UNCHANGED quieted,
             UNCHANGED nicVars
      PROVE  Outstanding'
  BY <1>1, <1>2, Sizes DEF BuildWqe, nicVars, Outstanding
<1>3. CASE RingDoorbell \/ Flush \/ QuietBegin \/ UNCHANGED vars
  BY <1>1, <1>3 DEF RingDoorbell, Flush, QuietBegin, vars, gpuVars, nicVars, Outstanding
<1>4. CASE QuietNothing
  BY <1>1, <1>4, Sizes DEF QuietNothing, Client, nicVars, Outstanding
<1>5. CASE QuietEnd
  BY <1>1, <1>5, PollEnds, Sizes DEF QuietEnd, nicVars, Outstanding
<1>6. CASE Execute
  BY <1>1, <1>6, Executed DEF gpuVars, Outstanding
<1> QED BY <1>2, <1>3, <1>4, <1>5, <1>6 DEF Next, Gpu, Stopped, Put, PutNoDb, nicVars

(* A put is built in a slot that no entry still to be executed occupies.   *)
LEMMA EntriesStep ==
    ASSUME IInv, Client, [Next]_vars PROVE Entries'
<1>1. /\ posted \in Nat /\ completed \in Nat /\ completed <= posted
      /\ quieted \in Nat /\ quieted <= completed
      /\ wq \in [0 .. NWqes - 1 -> [put : 0 .. MaxPuts, signaled : BOOLEAN]]
  BY InvTypes
<1>2. executed /\ \A n \in completed + 1 .. posted : EntryBuilt(n)
  BY DEF IInv, Entries
<1>3. CASE Execute
  <2>1. /\ completed' = completed + 1 /\ executed'
        /\ posted' = posted /\ wq' = wq
    BY <1>3, Executed DEF gpuVars
  <2>2. ASSUME NEW n \in completed' + 1 .. posted' PROVE EntryBuilt(n)'
    <3>1. n \in completed + 1 .. posted
      BY <1>1, <2>1
    <3> QED BY <1>2, <2>1, <3>1 DEF EntryBuilt
  <2> QED BY <1>2, <2>1, <2>2 DEF Entries
<1>4. CASE ~Execute /\ UNCHANGED <<wq, posted>>
  BY <1>2, <1>4, Frames DEF nicVars, Entries, EntryBuilt
<1>5. ASSUME ~Execute, NEW signaled \in Signals, BuildWqe(signaled)
      PROVE  Entries'
  <2>1. /\ posted' = posted + 1 /\ posted % NWqes \in 0 .. NWqes - 1
        /\ wq' = [wq EXCEPT ![posted % NWqes] =
                      [put |-> posted + 1, signaled |-> TRUE]]
    <3>1. signaled = TRUE
      BY ClientAssumption DEF Client
    <3> QED BY <1>5, <3>1, Built DEF IInv
  <2>2. completed' = completed /\ executed' = executed
    BY <1>5, Frames DEF nicVars
  <2>3. posted < completed + NWqes
    BY <1>1, <1>5, Sizes DEF BuildWqe
  <2>4. ASSUME NEW n \in completed + 1 .. posted + 1 PROVE EntryBuilt(n)'
    <3>1. n - 1 \in Nat /\ (n - 1) % NWqes \in 0 .. NWqes - 1
      <4>1. n - 1 \in Nat
        BY <1>1
      <4> QED BY ONLY <4>1, InRange
    <3>2. CASE n = posted + 1
      <4>1. n - 1 = posted
        BY <1>1, <3>2
      <4> QED BY <1>1, <2>1, <3>2, <4>1 DEF EntryBuilt
    <3>3. CASE n # posted + 1
      <4>1. n \in completed + 1 .. posted /\ n - 1 < posted /\ posted < (n - 1) + NWqes
        BY <1>1, <2>3, <3>3, Sizes
      <4>2. (n - 1) % NWqes # posted % NWqes
        BY <1>1, <3>1, <4>1, Sizes, RemaindersDiffer
      <4>3. wq'[(n - 1) % NWqes] = wq[(n - 1) % NWqes]
        BY <1>1, <2>1, <3>1, <4>2
      <4> QED BY <1>2, <4>1, <4>3 DEF EntryBuilt
    <3> QED BY <3>2, <3>3
  <2> QED BY <1>2, <2>1, <2>2, <2>4 DEF Entries
<1> QED BY <1>3, <1>4, <1>5, Frames

LEMMA PollingStep ==
    ASSUME IInv, [Next]_vars PROVE Polling'
<1>1. Polling
  BY DEF IInv
<1> QED BY <1>1 DEF Polling, Next, Gpu, Stopped, vars, gpuVars, Put, PutNoDb,
                    RingDoorbell, Flush, QuietNothing, QuietBegin, QuietEnd,
                    BuildWqe, Execute

LEMMA InvStep == Client /\ IInv /\ [Next]_vars => IInv'
<1> SUFFICES ASSUME Client, IInv, [Next]_vars PROVE IInv'
  OBVIOUS
<1>1. TypeInv'
  BY TypeStep DEF IInv
<1> QED BY <1>1, CompletionsStep, OutstandingStep, EntriesStep, PollingStep DEF IInv

(* The inductive invariant, for any sizes of the rings.                    *)
THEOREM Invariance == ASSUME Client PROVE Spec => []IInv
<1>1. IInv /\ [Next]_vars => IInv'
  BY InvStep
<1> QED BY <1>1, InitInv, PTL DEF Spec

(* quiet() returns only when every put before it is complete               *)
(* (mlx5_device.cuh:86), across every wrap of the two rings and of the     *)
(* 16-bit index and whether or not an entry failed.                        *)
THEOREM QuietTheorem == ASSUME Client PROVE Spec => []QuietIsCompletion
<1>1. IInv => QuietIsCompletion
  BY DEF IInv, Outstanding, QuietIsCompletion
<1> QED BY <1>1, Invariance, PTL

(* The NIC executes every put once, in order and as it was built, and no   *)
(* entry it may still read is overwritten (device_opt.cuh:191-194).        *)
THEOREM EntriesTheorem == ASSUME Client PROVE Spec => []EntriesExecutedAsBuilt
<1>1. IInv => EntriesExecutedAsBuilt
  <2> SUFFICES ASSUME IInv PROVE EntriesExecutedAsBuilt
    OBVIOUS
  <2>1. executed /\ \A n \in completed + 1 .. posted : EntryBuilt(n)
    BY DEF IInv, Entries
  <2>2. ASSUME NEW n \in completed + 1 .. posted PROVE wq[(n - 1) % NWqes].put = n
    <3>1. wq[(n - 1) % NWqes] = [put |-> n, signaled |-> TRUE]
      BY <2>1 DEF EntryBuilt
    <3> QED BY ONLY <3>1
  <2> QED BY <2>1, <2>2 DEF EntriesExecutedAsBuilt
<1> QED BY <1>1, Invariance, PTL

=============================================================================
