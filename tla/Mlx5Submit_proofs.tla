------------------------- MODULE Mlx5Submit_proofs -------------------------
(***************************************************************************)
(* The shared send path keeps its invariant and implements the abstract    *)
(* send queue, for any number of threads, any ring and any batch size.     *)
(***************************************************************************)
EXTENDS Mlx5Submit, TLAPS

(* A reservation and the state its thread is in.                           *)
InQueue(t) == pc[t] \notin {"idle", "build"}
Reservation(t) ==
    /\ pc[t] = "idle" => base[t] = 0 /\ num[t] = 0 /\ todo[t] = {}
    /\ pc[t] # "idle" => num[t] > 0 /\ New(t) <= resv_head
    /\ pc[t] = "build" =>
           /\ ready_head <= base[t]
           /\ \A i \in todo[t] : base[t] <= i /\ i < New(t)
           /\ \A k \in base[t] + 1 .. New(t) : claims[k] = t
    /\ InQueue(t) => todo[t] = {} /\ New(t) <= ready_head

(* What is reserved and not yet published is being built, by one thread.   *)
Building ==
    /\ \A t, u \in Thread : t # u /\ pc[t] = "build" /\ pc[u] = "build" =>
           New(t) <= base[u] \/ New(u) <= base[t]
    /\ \A i \in ready_head .. resv_head - 1 :
           \E t \in Thread : pc[t] = "build" /\ base[t] <= i /\ i < New(t)

(* The ring holds what was built and not yet executed.                     *)
InRing(i) == wq[SlotOf(i)].by = claims[i + 1]
Ring ==
    /\ resv_head <= executed + NWqes
    /\ \A i \in executed .. resv_head - 1 :
           (\A t \in Thread : i \notin todo[t]) => InRing(i)

(* One thread has the lock, and how far it has come says what the doorbell *)
(* record and register hold.                                               *)
Doorbells ==
    /\ \A t, u \in Thread : pc[t] \in Posting /\ pc[u] \in Posting => t = u
    /\ \A t \in Thread : pc[t] \in Posting => post_send_lock
    /\ post_send_lock => \E t \in Thread : pc[t] \in Posting
    /\ ~post_send_lock => dbrec = Low(prod_idx) /\ bf_reg = Low(prod_idx)
    /\ \A t \in Thread : pc[t] \in {"raise", "unlock"} =>
           dbrec = Low(prod_idx) /\ bf_reg = Low(prod_idx)
    /\ \A t \in Thread : pc[t] \in {"dbr", "ring"} => prod_idx = New(t)
    /\ \A t \in Thread : pc[t] = "ring" => dbrec = Low(prod_idx)
    /\ \E n \in executed .. prod_idx : bf_reg = Low(n)

(* A thread that will post the last published entry is on its way.         *)
LastOnItsWay ==
    prod_idx < ready_head /\ ready_head = resv_head =>
        \E t \in Thread : pc[t] \in {"decide", "lock", "raise"} /\ New(t) = ready_head

IInv ==
    /\ Types
    /\ \A t \in Thread : Reservation(t)
    /\ Building
    /\ Ring
    /\ Doorbells
    /\ LastOnItsWay

-----------------------------------------------------------------------------
(* Facts about the operators.                                              *)

LEMMA LowRange == ASSUME NEW i \in Nat PROVE Low(i) \in 0 .. IndexSpan - 1
  BY SizeAssumption DEF Low

LEMMA SlotRange == ASSUME NEW i \in Nat PROVE SlotOf(i) \in 0 .. NWqes - 1
  BY SizeAssumption DEF SlotOf

(* Less than a ring apart, two entries are in different slots.             *)
LEMMA SlotsDiffer ==
    ASSUME NEW i \in Nat, NEW j \in Nat, i < j, j < i + NWqes
    PROVE  SlotOf(i) # SlotOf(j)
<1> DEFINE qi == i \div NWqes
           qj == j \div NWqes
<1>1. NWqes \in Nat \ {0}
  BY SizeAssumption
<1>2. /\ i = NWqes * qi + SlotOf(i) /\ qi \in Nat
      /\ j = NWqes * qj + SlotOf(j) /\ qj \in Nat
  BY <1>1 DEF SlotOf
<1> HIDE DEF qi, qj
<1>3. SUFFICES ASSUME SlotOf(i) = SlotOf(j) PROVE FALSE
  OBVIOUS
<1>4. j - i = NWqes * (qj - qi)
  BY <1>1, <1>2, <1>3, SlotRange
<1>5. CASE qj - qi <= 0
  BY <1>1, <1>2, <1>4, <1>5
<1>6. CASE qj - qi >= 1
  BY <1>1, <1>2, <1>4, <1>6
<1> QED BY <1>2, <1>5, <1>6

(* What Reserve appends to claims.                                         *)
LEMMA Appended ==
    ASSUME NEW s \in Seq(Thread), NEW t \in Thread, NEW n \in Nat,
           NEW r, r = s \o [k \in 1 .. n |-> t]
    PROVE  /\ r \in Seq(Thread) /\ Len(r) = Len(s) + n
           /\ \A k \in 1 .. Len(s) : r[k] = s[k]
           /\ \A k \in Len(s) + 1 .. Len(s) + n : r[k] = t
<1> DEFINE u == [k \in 1 .. n |-> t]
<1>1. u \in Seq(Thread) /\ Len(u) = n
  OBVIOUS
<1>2. \A k \in 1 .. n : u[k] = t
  OBVIOUS
<1> HIDE DEF u
<1>3. \A k \in Len(s) + 1 .. Len(s) + n : (s \o u)[k] = t
  <2> TAKE k \in Len(s) + 1 .. Len(s) + n
  <2>1. k - Len(s) \in 1 .. n
    OBVIOUS
  <2> QED BY ONLY <1>1, <1>2, <2>1, s \in Seq(Thread),
                  k \in Len(s) + 1 .. Len(s) + n, n \in Nat
<1>4. /\ s \o u \in Seq(Thread) /\ Len(s \o u) = Len(s) + n
      /\ \A k \in 1 .. Len(s) : (s \o u)[k] = s[k]
  BY ONLY <1>1, s \in Seq(Thread), n \in Nat
<1>5. r = s \o u
  BY DEF u
<1> QED BY <1>3, <1>4, <1>5

LEMMA ClaimsAfter ==
    ASSUME Types, NEW t \in Thread, NEW n \in Nat, Reserve(t, n)
    PROVE  /\ claims' \in Seq(Thread) /\ Len(claims') = resv_head + n
           /\ \A k \in 1 .. resv_head : claims'[k] = claims[k]
           /\ \A k \in resv_head + 1 .. resv_head + n : claims'[k] = t
<1>1. PICK s \in Seq(Thread) : s = claims /\ Len(s) = resv_head
  BY DEF Types
<1>2. PICK c : c = claims'
  OBVIOUS
<1>3. c = s \o [k \in 1 .. n |-> t]
  BY <1>1, <1>2 DEF Reserve
<1>4. /\ c \in Seq(Thread) /\ Len(c) = Len(s) + n
      /\ \A k \in 1 .. Len(s) : c[k] = s[k]
      /\ \A k \in Len(s) + 1 .. Len(s) + n : c[k] = t
  BY <1>3, Appended
<1> QED BY <1>1, <1>2, <1>4

-----------------------------------------------------------------------------
(* The heads, the doorbells and the ring keep their types and their order. *)
LEMMA TypeStep == IInv /\ [Next]_vars => Types'
<1> SUFFICES ASSUME IInv, [Next]_vars PROVE Types'
  OBVIOUS
<1>1. Types /\ (\A t \in Thread : Reservation(t))
  BY DEF IInv
<1> USE DEF Types
<1>2. ASSUME NEW t \in Thread, NEW n \in Sizes, Reserve(t, n) PROVE Types'
  <2>1. n \in Nat \ {0}
    BY SizeAssumption
  <2>2. claims' \in Seq(Thread) /\ Len(claims') = Len(claims) + n
    BY <1>1, <1>2, <2>1, ClaimsAfter
  <2>3. pc' \in [Thread -> Pcs]
    BY <1>1, <1>2 DEF Reserve, Goto, Pcs
  <2>4. /\ base' \in [Thread -> Nat] /\ num' \in [Thread -> Nat]
        /\ todo' \in [Thread -> SUBSET Nat]
    BY <1>1, <1>2, <2>1 DEF Reserve
  <2>5. resv_head' = resv_head + n /\ UNCHANGED <<ready_head, postVars, wq, log>>
    BY <1>2 DEF Reserve
  <2>6. resv_head \in Nat /\ ready_head \in Nat /\ ready_head <= resv_head
        /\ Len(claims) = resv_head
    BY <1>1
  <2>7. resv_head' \in Nat /\ ready_head' <= resv_head' /\ Len(claims') = resv_head'
    BY <2>1, <2>2, <2>5, <2>6
  <2> QED BY <1>1, <2>2, <2>3, <2>4, <2>5, <2>7 DEF postVars
<1>3. ASSUME NEW t \in Thread, NEW i \in todo[t], BuildWqe(t, i) PROVE Types'
  <2>1. i \in Nat
    BY <1>1
  <2>2. wq' \in [0 .. NWqes - 1 -> [idx : Nat, by : Thread \cup {"none"}]]
    BY <1>1, <1>3, <2>1 DEF BuildWqe
  <2> QED BY <1>1, <1>3, <2>1, <2>2 DEF BuildWqe, headVars, postVars
<1>4. ASSUME NEW t \in Thread, Submit(t) PROVE Types'
  <2>0. New(t) \in Nat
    BY <1>1 DEF New
  <2>1. CASE Publish(t)
    <3>1. pc[t] = "build" /\ ready_head = base[t] /\ ready_head' = New(t)
      BY <2>1 DEF Publish, Goto, MyTurn
    <3>2. ready_head <= New(t) /\ New(t) <= resv_head
      BY <1>1, <3>1 DEF Reservation, New
    <3>3. pc' \in [Thread -> Pcs]
      BY <1>1, <2>1 DEF Publish, Goto, Pcs
    <3> QED BY <1>1, <2>0, <2>1, <3>1, <3>2, <3>3 DEF Publish, postVars
  <2>2. CASE LeaveToOthers(t)
    BY <1>1, <2>2 DEF LeaveToOthers, Return, Goto, Pcs, headVars, postVars
  <2>3. CASE DecideToPost(t)
    BY <1>1, <2>3 DEF DecideToPost, Goto, Pcs, headVars, postVars
  <2>4. CASE Lock(t)
    BY <1>1, <2>4 DEF Lock, Goto, Pcs, headVars
  <2>5. CASE Raise(t)
    <3>1. New(t) <= ready_head
      BY <1>1, <2>5 DEF Reservation, InQueue, Raise, Goto
    <3> QED BY <1>1, <2>0, <2>5, <3>1 DEF Raise, Goto, Pcs, headVars
  <2>6. CASE AlreadyPosted(t)
    BY <1>1, <2>6 DEF AlreadyPosted, Goto, Pcs, headVars, postVars
  <2>7. CASE UpdateDbr(t)
    BY <1>1, <2>0, <2>7, LowRange DEF UpdateDbr, Goto, Pcs, headVars
  <2>8. CASE RingDb(t)
    BY <1>1, <2>0, <2>8, LowRange DEF RingDb, Goto, Pcs, headVars
  <2>9. CASE Unlock(t)
    BY <1>1, <2>9 DEF Unlock, Return, Goto, Pcs, headVars
  <2> QED BY <1>4, <2>1, <2>2, <2>3, <2>4, <2>5, <2>6, <2>7, <2>8, <2>9 DEF Submit
<1>5. ASSUME Execute PROVE Types'
  <2>1. SlotOf(executed) \in 0 .. NWqes - 1
    BY <1>1, SlotRange DEF executed
  <2>2. log' \in Seq(Thread \cup {"none"})
    BY <1>1, <1>5, <2>1 DEF Execute
  <2> QED BY <1>1, <1>5, <2>2 DEF Execute, threadVars, headVars, postVars
<1>6. CASE UNCHANGED vars
  BY <1>1, <1>6 DEF vars, threadVars, headVars, postVars
<1> QED BY <1>2, <1>3, <1>4, <1>5, <1>6 DEF Next, Step, Stopped

(* A reservation stays where it is, ahead of what is published.            *)
LEMMA ReservationStep ==
    IInv /\ [Next]_vars => \A t \in Thread : Reservation(t)'
<1> SUFFICES ASSUME IInv, [Next]_vars, NEW u \in Thread PROVE Reservation(u)'
  OBVIOUS
<1>1. Types /\ (\A t \in Thread : Reservation(t)) /\ Building
  BY DEF IInv
<1> USE DEF Types, Reservation, InQueue, New
<1>2. ASSUME NEW t \in Thread, NEW n \in Sizes, Reserve(t, n) PROVE Reservation(u)'
  <2>1. n \in Nat \ {0}
    BY SizeAssumption
  <2>2. /\ \A k \in 1 .. resv_head : claims'[k] = claims[k]
        /\ \A k \in resv_head + 1 .. resv_head + n : claims'[k] = t
    BY <1>1, <1>2, <2>1, ClaimsAfter
  <2>3. CASE u = t
    BY <1>1, <1>2, <2>1, <2>2, <2>3 DEF Reserve, Goto
  <2>4. CASE u # t
    <3>1. /\ pc'[u] = pc[u] /\ base'[u] = base[u] /\ num'[u] = num[u]
          /\ todo'[u] = todo[u] /\ ready_head' = ready_head
          /\ resv_head' = resv_head + n
      BY <1>1, <1>2, <2>4 DEF Reserve, Goto
    <3>2. pc[u] = "build" =>
              \A k \in base[u] + 1 .. New(u) : k \in 1 .. resv_head
      <4>1. base[u] \in Nat /\ num[u] \in Nat /\ resv_head \in Nat
        BY <1>1
      <4>2. pc[u] = "build" => New(u) <= resv_head
        BY <1>1
      <4> QED BY <4>1, <4>2
    <3>3. pc[u] = "build" => \A k \in base[u] + 1 .. New(u) : claims'[k] = u
      BY <1>1, <2>2, <3>2
    <3>4. /\ pc[u] # "idle" => New(u) <= resv_head' /\ num[u] > 0
          /\ New(u)' = New(u)
      BY <1>1, <2>1, <3>1
    <3> QED BY <1>1, <3>1, <3>3, <3>4
  <2> QED BY <2>3, <2>4
<1>3. ASSUME NEW t \in Thread, NEW i \in todo[t], BuildWqe(t, i) PROVE Reservation(u)'
  BY <1>1, <1>3 DEF BuildWqe, headVars
<1>4. ASSUME NEW t \in Thread, Submit(t) PROVE Reservation(u)'
  <2>1. CASE Publish(t)
    <3>1. pc[t] = "build" /\ todo[t] = {} /\ ready_head = base[t] /\ ready_head' = New(t)
      BY <2>1 DEF Publish, Goto, MyTurn, Built
    <3>2. CASE u = t
      BY <1>1, <2>1, <3>1, <3>2 DEF Publish, Goto
    <3>3. CASE u # t /\ pc[u] = "build"
      <4>1. New(t) <= base[u] \/ New(u) <= base[t]
        BY <1>1, <3>1, <3>3 DEF Building
      <4>2. New(t) <= base[u]
        BY <1>1, <3>1, <3>3, <4>1
      <4> QED BY <1>1, <2>1, <3>1, <3>3, <4>2 DEF Publish, Goto
    <3>4. CASE u # t /\ pc[u] # "build"
      <4>1. /\ pc'[u] = pc[u] /\ New(t) \in Nat /\ New(u) \in Nat
            /\ ready_head <= New(t)
            /\ UNCHANGED <<base, num, todo, resv_head, claims>>
        BY <1>1, <2>1, <3>1, <3>4 DEF Publish, Goto
      <4>2. /\ pc[u] = "idle" => base[u] = 0 /\ num[u] = 0 /\ todo[u] = {}
            /\ pc[u] # "idle" => num[u] > 0 /\ New(u) <= resv_head
            /\ InQueue(u) => todo[u] = {} /\ New(u) <= ready_head
            /\ ready_head \in Nat
        BY <1>1
      <4>3. New(u) <= ready_head => New(u) <= New(t)
        BY <4>1, <4>2
      <4> HIDE DEF Types
      <4> QED BY <3>1, <3>4, <4>1, <4>2, <4>3
    <3> QED BY <3>2, <3>3, <3>4
  <2>2. CASE LeaveToOthers(t)
    BY <1>1, <2>2 DEF LeaveToOthers, Return, Goto, headVars
  <2>3. CASE DecideToPost(t)
    BY <1>1, <2>3 DEF DecideToPost, Goto, headVars
  <2>4. CASE Lock(t)
    BY <1>1, <2>4 DEF Lock, Goto, headVars
  <2>5. CASE Raise(t)
    BY <1>1, <2>5 DEF Raise, Goto, headVars
  <2>6. CASE AlreadyPosted(t)
    BY <1>1, <2>6 DEF AlreadyPosted, Goto, headVars
  <2>7. CASE UpdateDbr(t)
    BY <1>1, <2>7 DEF UpdateDbr, Goto, headVars
  <2>8. CASE RingDb(t)
    BY <1>1, <2>8 DEF RingDb, Goto, headVars
  <2>9. CASE Unlock(t)
    BY <1>1, <2>9 DEF Unlock, Return, Goto, headVars
  <2> QED BY <1>4, <2>1, <2>2, <2>3, <2>4, <2>5, <2>6, <2>7, <2>8, <2>9 DEF Submit
<1>5. CASE Execute
  BY <1>1, <1>5 DEF Execute, threadVars, headVars
<1>6. CASE UNCHANGED vars
  BY <1>1, <1>6 DEF vars, threadVars, headVars
<1> QED BY <1>2, <1>3, <1>4, <1>5, <1>6 DEF Next, Step, Stopped

(* What is reserved and not published has one builder.                     *)
LEMMA BuildingStep == IInv /\ [Next]_vars => Building'
<1> SUFFICES ASSUME IInv, [Next]_vars PROVE Building'
  OBVIOUS
<1>1. Types /\ (\A t \in Thread : Reservation(t)) /\ Building
  BY DEF IInv
<1> USE DEF Building, New
<1>2. ASSUME NEW t \in Thread, NEW n \in Sizes, Reserve(t, n) PROVE Building'
  <2>1. n \in Nat \ {0}
    BY SizeAssumption
  <2>2. /\ pc[t] = "idle" /\ pc'[t] = "build"
        /\ base'[t] = resv_head /\ num'[t] = n
        /\ resv_head' = resv_head + n /\ ready_head' = ready_head
        /\ resv_head \in Nat /\ ready_head \in Nat /\ ready_head <= resv_head
    BY <1>1, <1>2 DEF Reserve, Goto, Types
  <2>3. \A u \in Thread \ {t} :
            pc'[u] = pc[u] /\ base'[u] = base[u] /\ num'[u] = num[u]
    BY <1>1, <1>2 DEF Reserve, Goto, Types
  <2>4. \A u \in Thread : pc[u] = "build" => New(u) <= resv_head
    BY <1>1 DEF Reservation
  <2>5. ASSUME NEW i \in ready_head' .. resv_head' - 1
        PROVE  \E u \in Thread : pc'[u] = "build" /\ base'[u] <= i /\ i < New(u)'
    <3>1. CASE i >= resv_head
      BY <2>1, <2>2, <2>5, <3>1
    <3>2. CASE i < resv_head
      <4>1. PICK u \in Thread : pc[u] = "build" /\ base[u] <= i /\ i < New(u)
        BY <1>1, <2>2, <2>5, <3>2
      <4>2. u # t
        BY <2>2, <4>1
      <4> QED BY <2>3, <4>1, <4>2
    <3> QED BY <2>2, <2>5, <3>1, <3>2
  <2>6. ASSUME NEW u \in Thread, NEW v \in Thread,
               u # v, pc'[u] = "build", pc'[v] = "build"
        PROVE  New(u)' <= base'[v] \/ New(v)' <= base'[u]
    <3>1. CASE u = t
      BY <2>2, <2>3, <2>4, <2>6, <3>1
    <3>2. CASE v = t
      BY <2>2, <2>3, <2>4, <2>6, <3>2
    <3>3. CASE u # t /\ v # t
      BY <1>1, <2>3, <2>6, <3>3
    <3> QED BY <3>1, <3>2, <3>3
  <2> QED BY <2>5, <2>6
<1>3. ASSUME NEW t \in Thread, NEW i \in todo[t], BuildWqe(t, i) PROVE Building'
  BY <1>1, <1>3 DEF BuildWqe, headVars
<1>4. ASSUME NEW t \in Thread, Publish(t) PROVE Building'
  <2>1. /\ pc[t] = "build" /\ pc'[t] # "build" /\ ready_head = base[t]
        /\ ready_head' = New(t) /\ resv_head' = resv_head
        /\ \A u \in Thread \ {t} : pc'[u] = pc[u]
        /\ base' = base /\ num' = num
    BY <1>1, <1>4 DEF Publish, Goto, MyTurn, Types
  <2>2. ASSUME NEW i \in ready_head' .. resv_head' - 1
        PROVE  \E u \in Thread : pc'[u] = "build" /\ base'[u] <= i /\ i < New(u)'
    <3>1. i \in ready_head .. resv_head - 1
      BY <1>1, <2>1, <2>2 DEF Types
    <3>2. PICK u \in Thread : pc[u] = "build" /\ base[u] <= i /\ i < New(u)
      BY <1>1, <3>1
    <3>3. u # t
      BY <1>1, <2>1, <2>2, <3>2 DEF Types
    <3> QED BY <2>1, <3>2, <3>3
  <2> QED BY <1>1, <2>1, <2>2
<1>5. ASSUME NEW t \in Thread, Submit(t), ~Publish(t) PROVE Building'
  <2>1. /\ UNCHANGED headVars
        /\ pc[t] # "build" /\ pc'[t] # "build"
        /\ \A u \in Thread \ {t} :
               pc'[u] = pc[u] /\ base'[u] = base[u] /\ num'[u] = num[u]
    BY <1>1, <1>5 DEF Submit, LeaveToOthers, DecideToPost, Lock, Raise,
        AlreadyPosted, UpdateDbr, RingDb, Unlock, Return, Goto, Types
  <2> QED BY <1>1, <2>1 DEF headVars
<1>6. CASE Execute
  BY <1>1, <1>6 DEF Execute, threadVars, headVars
<1>7. CASE UNCHANGED vars
  BY <1>1, <1>7 DEF vars, threadVars, headVars
<1> QED BY <1>2, <1>3, <1>4, <1>5, <1>6, <1>7 DEF Next, Step, Stopped

(* What has been executed was published.                                   *)
LEMMA NicBehind ==
    IInv => executed \in Nat /\ executed <= prod_idx /\ executed <= ready_head
BY DEF IInv, Types, Doorbells, executed

(* No step of the submit path touches the ring or a reservation's entries. *)
LEMMA SubmitFrame ==
    ASSUME NEW t \in Thread, Submit(t)
    PROVE  UNCHANGED <<todo, resv_head, claims, wq, log>>
BY DEF Submit, Publish, LeaveToOthers, DecideToPost, Lock, Raise, AlreadyPosted,
    UpdateDbr, RingDb, Unlock, Return, headVars, postVars

(* The ring keeps every entry that is built and not executed.              *)
LEMMA RingStep == IInv /\ [Next]_vars => Ring'
<1> SUFFICES ASSUME IInv, [Next]_vars PROVE Ring'
  OBVIOUS
<1>1. Types /\ (\A t \in Thread : Reservation(t)) /\ Ring
  BY DEF IInv
<1>2. /\ executed \in Nat /\ executed <= ready_head
      /\ ready_head \in Nat /\ resv_head \in Nat /\ NWqes \in Nat
  BY <1>1, NicBehind, SizeAssumption DEF Types
<1>3. ASSUME NEW t \in Thread, NEW n \in Sizes, Reserve(t, n) PROVE Ring'
  <2>1. n \in Nat \ {0}
    BY SizeAssumption
  <2>2. /\ resv_head + n <= executed + NWqes /\ resv_head' = resv_head + n
        /\ pc[t] = "idle" /\ todo[t] = {}
        /\ todo' = [todo EXCEPT ![t] = resv_head .. resv_head + n - 1]
        /\ wq' = wq /\ executed' = executed
    BY <1>1, <1>3 DEF Reserve, Goto, Reservation, executed
  <2>3. \A k \in 1 .. resv_head : claims'[k] = claims[k]
    BY <1>1, <1>3, <2>1, Appended DEF Reserve, Types
  <2>4. ASSUME NEW i \in executed' .. resv_head' - 1,
               \A u \in Thread : i \notin todo'[u]
        PROVE  InRing(i)'
    <3>1. i \in executed .. resv_head - 1
      BY <1>1, <1>2, <2>1, <2>2, <2>4 DEF Types
    <3>2. \A u \in Thread : i \notin todo[u]
      BY <1>1, <2>2, <2>4 DEF Types
    <3>3. InRing(i) /\ claims'[i + 1] = claims[i + 1]
      BY <1>1, <1>2, <2>3, <3>1, <3>2 DEF Ring
    <3> QED BY <2>2, <3>3 DEF InRing
  <2> QED BY <2>2, <2>4 DEF Ring
<1>4. ASSUME NEW t \in Thread, NEW i \in todo[t], BuildWqe(t, i) PROVE Ring'
  <2>0. /\ i \in Nat /\ base[t] \in Nat /\ New(t) \in Nat /\ pc[t] = "build"
    BY <1>1, <1>4 DEF BuildWqe, New, Types
  <2>a. /\ ready_head <= base[t] /\ base[t] <= i /\ i < New(t) /\ New(t) <= resv_head
        /\ \A k \in base[t] + 1 .. New(t) : claims[k] = t
    BY <1>1, <2>0 DEF Reservation
  <2>1. /\ i \in Nat /\ executed <= i /\ i < resv_head /\ claims[i + 1] = t
    BY <1>2, <2>0, <2>a
  <2>2. /\ wq' = [wq EXCEPT ![SlotOf(i)] = [idx |-> i, by |-> t]]
        /\ todo' = [todo EXCEPT ![t] = @ \ {i}]
        /\ resv_head' = resv_head /\ claims' = claims /\ executed' = executed
    BY <1>4 DEF BuildWqe, headVars, executed
  <2>3. DOMAIN wq = 0 .. NWqes - 1
    BY <1>1 DEF Types
  <2>4. ASSUME NEW j \in executed .. resv_head - 1,
               \A u \in Thread : j \notin todo'[u]
        PROVE  InRing(j)'
    <3>1. j \in Nat
      BY <1>2
    <3>2. CASE j = i
      BY <2>1, <2>2, <2>3, <3>2, SlotRange DEF InRing
    <3>3. CASE j # i
      <4>1. \A u \in Thread : j \notin todo[u]
        BY <1>1, <2>2, <2>4, <3>3 DEF Types
      <4>2. InRing(j)
        BY <1>1, <4>1 DEF Ring
      <4>3. i < j + NWqes /\ j < i + NWqes
        BY <1>1, <1>2, <2>1, <3>1 DEF Ring
      <4>4. SlotOf(j) # SlotOf(i)
        BY <2>1, <3>1, <3>3, <4>3, SlotsDiffer
      <4> QED BY <2>2, <2>3, <3>1, <4>2, <4>4, SlotRange DEF InRing
    <3> QED BY <3>2, <3>3
  <2> QED BY <1>1, <2>2, <2>4 DEF Ring
<1>5. ASSUME NEW t \in Thread, Submit(t) PROVE Ring'
  BY <1>1, <1>5, SubmitFrame DEF Ring, InRing, executed
<1>6. CASE Execute
  <2>1. executed' = executed + 1 /\ UNCHANGED <<todo, resv_head, claims, wq>>
    BY <1>1, <1>6 DEF Execute, executed, Types, threadVars, headVars
  <2> QED BY <1>1, <1>2, <2>1 DEF Ring, InRing
<1>7. CASE UNCHANGED vars
  BY <1>1, <1>7 DEF Ring, InRing, executed, vars, threadVars, headVars
<1> QED BY <1>3, <1>4, <1>5, <1>6, <1>7 DEF Next, Step, Stopped

(* The doorbells follow prod_idx, under the lock.                          *)
LEMMA DoorbellsStep == IInv /\ [Next]_vars => Doorbells'
<1> SUFFICES ASSUME IInv, [Next]_vars PROVE Doorbells'
  OBVIOUS
<1>1. Types /\ (\A t \in Thread : Reservation(t)) /\ Doorbells
  BY DEF IInv
<1>2. /\ executed \in Nat /\ prod_idx \in Nat /\ executed <= prod_idx
      /\ \A t \in Thread : New(t) \in Nat
  BY <1>1, NicBehind DEF Types, New
<1> USE DEF Doorbells, Posting
<1>3. ASSUME NEW t \in Thread, NEW n \in Sizes, Reserve(t, n) PROVE Doorbells'
  <2>1. /\ UNCHANGED <<postVars, log>> /\ pc'[t] = "build" /\ pc[t] = "idle"
        /\ \A u \in Thread \ {t} : pc'[u] = pc[u] /\ New(u)' = New(u)
    BY <1>1, <1>3 DEF Reserve, Goto, Types, New
  <2> QED BY <1>1, <2>1 DEF postVars, executed
<1>4. ASSUME NEW t \in Thread, NEW i \in todo[t], BuildWqe(t, i) PROVE Doorbells'
  BY <1>1, <1>4 DEF BuildWqe, headVars, postVars, New, executed
<1>5. ASSUME NEW t \in Thread, Submit(t) PROVE Doorbells'
  <2>1. /\ executed' = executed
        /\ \A u \in Thread \ {t} : pc'[u] = pc[u] /\ New(u)' = New(u)
        /\ pc'[t] # "idle" => New(t)' = New(t)
    BY <1>1, <1>5 DEF Submit, Publish, LeaveToOthers, DecideToPost, Lock, Raise,
        AlreadyPosted, UpdateDbr, RingDb, Unlock, Return, Goto, Types, New, executed
  <2>2. CASE Publish(t) \/ LeaveToOthers(t) \/ DecideToPost(t)
    <3>1. UNCHANGED postVars /\ pc[t] \notin Posting /\ pc'[t] \notin Posting
      BY <1>1, <2>2 DEF Publish, LeaveToOthers, DecideToPost, Return, Goto, Types
    <3> QED BY <1>1, <2>1, <3>1 DEF postVars
  <2>3. CASE Lock(t)
    <3>1. /\ ~post_send_lock /\ post_send_lock' /\ pc'[t] = "raise"
          /\ UNCHANGED <<prod_idx, dbrec, bf_reg>>
      BY <1>1, <2>3 DEF Lock, LockFree, Goto, Types
    <3>2. \A u \in Thread : pc[u] \notin Posting
      BY <1>1, <3>1
    <3> QED BY <1>1, <2>1, <3>1, <3>2
  <2>4. CASE Raise(t)
    <3>1. /\ pc[t] = "raise" /\ pc'[t] = "dbr" /\ New(t) > prod_idx
          /\ prod_idx' = New(t) /\ UNCHANGED <<post_send_lock, dbrec, bf_reg>>
      BY <1>1, <2>4 DEF Raise, IsNew, Goto, Types
    <3>2. \A u \in Thread \ {t} : pc'[u] \notin Posting
      BY <1>1, <2>1, <3>1
    <3>3. PICK n \in executed .. prod_idx : bf_reg = Low(n)
      BY <1>1
    <3>4. n \in executed' .. prod_idx' /\ bf_reg' = Low(n)
      BY <1>2, <2>1, <3>1, <3>3
    <3> QED BY <1>1, <2>1, <3>1, <3>2, <3>4
  <2>5. CASE AlreadyPosted(t)
    <3>1. /\ pc[t] = "raise" /\ pc'[t] = "unlock" /\ UNCHANGED postVars
      BY <1>1, <2>5 DEF AlreadyPosted, Goto, Types
    <3> QED BY <1>1, <2>1, <3>1 DEF postVars
  <2>6. CASE UpdateDbr(t)
    <3>1. /\ pc[t] = "dbr" /\ pc'[t] = "ring" /\ prod_idx = New(t)
          /\ dbrec' = Low(New(t)) /\ UNCHANGED <<prod_idx, post_send_lock, bf_reg>>
      BY <1>1, <2>6 DEF UpdateDbr, Goto, Types
    <3>2. \A u \in Thread \ {t} : pc'[u] \notin Posting
      BY <1>1, <2>1, <3>1
    <3> QED BY <1>1, <2>1, <3>1, <3>2
  <2>7. CASE RingDb(t)
    <3>1. /\ pc[t] = "ring" /\ pc'[t] = "unlock" /\ prod_idx = New(t)
          /\ bf_reg' = Low(prod_idx) /\ dbrec = Low(prod_idx)
          /\ UNCHANGED <<prod_idx, post_send_lock, dbrec>>
      BY <1>1, <2>7 DEF RingDb, Goto, Types
    <3>2. \A u \in Thread \ {t} : pc'[u] \notin Posting
      BY <1>1, <2>1, <3>1
    <3>3. prod_idx' \in executed' .. prod_idx'
      BY <1>2, <2>1, <3>1
    <3> QED BY <1>1, <2>1, <3>1, <3>2, <3>3
  <2>8. CASE Unlock(t)
    <3>1. /\ pc[t] = "unlock" /\ pc'[t] = "idle" /\ ~post_send_lock'
          /\ UNCHANGED <<prod_idx, dbrec, bf_reg>>
      BY <1>1, <2>8 DEF Unlock, Return, Goto, Types
    <3>2. \A u \in Thread : pc'[u] \notin Posting
      BY <1>1, <2>1, <3>1
    <3> QED BY <1>1, <2>1, <3>1, <3>2
  <2> QED BY <1>5, <2>2, <2>3, <2>4, <2>5, <2>6, <2>7, <2>8 DEF Submit
<1>6. CASE Execute
  <2>1. /\ Low(executed) # bf_reg /\ executed' = executed + 1
        /\ UNCHANGED <<threadVars, postVars>>
    BY <1>1, <1>6 DEF Execute, executed, Types
  <2>2. PICK n \in executed .. prod_idx : bf_reg = Low(n)
    BY <1>1
  <2>3. n \in executed' .. prod_idx'
    BY <1>2, <2>1, <2>2 DEF postVars
  <2> QED BY <1>1, <2>1, <2>2, <2>3 DEF threadVars, postVars, New
<1>7. CASE UNCHANGED vars
  BY <1>1, <1>7 DEF vars, threadVars, postVars, New, executed
<1> QED BY <1>3, <1>4, <1>5, <1>6, <1>7 DEF Next, Step, Stopped

(* Whoever publishes last posts, or leaves it to a later reservation.      *)
LEMMA LastStep == IInv /\ [Next]_vars => LastOnItsWay'
<1> SUFFICES ASSUME IInv, [Next]_vars, (prod_idx < ready_head /\ ready_head = resv_head)'
             PROVE  \E u \in Thread :
                        pc'[u] \in {"decide", "lock", "raise"} /\ New(u)' = ready_head'
  BY DEF LastOnItsWay
<1>1. Types /\ (\A t \in Thread : Reservation(t)) /\ LastOnItsWay
  BY DEF IInv
<1>2. /\ prod_idx \in Nat /\ ready_head \in Nat /\ resv_head \in Nat
      /\ ready_head <= resv_head /\ \A t \in Thread : New(t) \in Nat
  BY <1>1 DEF Types, New
<1> USE DEF LastOnItsWay
<1>4. ASSUME NEW t \in Thread, NEW n \in Sizes, Reserve(t, n) PROVE FALSE
  <2>1. n \in Nat \ {0}
    BY SizeAssumption
  <2> QED BY <1>2, <1>4, <2>1 DEF Reserve
<1>5. ASSUME NEW t \in Thread, NEW i \in todo[t], BuildWqe(t, i)
      PROVE  \E u \in Thread :
                 pc'[u] \in {"decide", "lock", "raise"} /\ New(u)' = ready_head'
  BY <1>1, <1>5 DEF BuildWqe, headVars, postVars, New
<1>6. ASSUME NEW t \in Thread, Submit(t)
      PROVE  \E u \in Thread :
                 pc'[u] \in {"decide", "lock", "raise"} /\ New(u)' = ready_head'
  <2>1. \A u \in Thread \ {t} : pc'[u] = pc[u] /\ New(u)' = New(u)
    BY <1>1, <1>6 DEF Submit, Publish, LeaveToOthers, DecideToPost, Lock, Raise,
        AlreadyPosted, UpdateDbr, RingDb, Unlock, Return, Goto, Types, New
  <2>2. CASE Publish(t)
    BY <1>1, <2>2 DEF Publish, Goto, Types, New
  <2>3. CASE ~Publish(t)
    <3>1. /\ UNCHANGED headVars /\ prod_idx <= prod_idx'
      BY <1>2, <1>6, <2>3 DEF Submit, LeaveToOthers, DecideToPost, Lock, Raise, IsNew,
          AlreadyPosted, UpdateDbr, RingDb, Unlock, headVars, postVars
    <3>2. prod_idx < ready_head /\ ready_head = resv_head
      <4>1. prod_idx' \in Nat
        BY TypeStep DEF Types
      <4> QED BY <1>2, <3>1, <4>1 DEF headVars
    <3>3. PICK u \in Thread :
              pc[u] \in {"decide", "lock", "raise"} /\ New(u) = ready_head
      BY <1>1, <3>2
    <3>4. CASE u # t
      BY <2>1, <3>1, <3>3, <3>4 DEF headVars
    <3>5. CASE u = t
      <4>1. ~LeaveToOthers(t)
        BY <3>2, <3>3, <3>5 DEF LeaveToOthers, DoPostSend, NobodyElse
      <4>2. ~AlreadyPosted(t)
        BY <1>2, <3>2, <3>3, <3>5 DEF AlreadyPosted, IsNew
      <4>3. ~Raise(t)
        BY <1>2, <3>1, <3>3, <3>5 DEF Raise, headVars
      <4>4. DecideToPost(t) \/ Lock(t)
        BY <1>6, <2>3, <3>3, <3>5, <4>1, <4>2, <4>3 DEF Submit, UpdateDbr, RingDb, Unlock, Return, Goto
      <4>5. pc'[t] \in {"lock", "raise"} /\ New(t)' = New(t)
        BY <1>1, <4>4 DEF DecideToPost, Lock, Goto, Types, New
      <4> QED BY <3>1, <3>3, <3>5, <4>5 DEF headVars
    <3> QED BY <3>4, <3>5
  <2> QED BY <2>2, <2>3
<1>7. CASE Execute
  BY <1>1, <1>7 DEF Execute, threadVars, headVars, postVars, New
<1>8. CASE UNCHANGED vars
  BY <1>1, <1>8 DEF vars, threadVars, headVars, postVars, New
<1> QED BY <1>4, <1>5, <1>6, <1>7, <1>8 DEF Next, Step, Stopped

-----------------------------------------------------------------------------
(* The invariant holds at the start.                                       *)
LEMMA InitInv == Init => IInv
<1> SUFFICES ASSUME Init PROVE IInv
  OBVIOUS
<1>1. executed = 0 /\ Low(0) = 0
  BY SizeAssumption DEF Init, executed, Low
<1>2. Types
  <2>1. claims \in Seq(Thread) /\ log \in Seq(Thread \cup {"none"}) /\ Len(claims) = 0
    BY DEF Init
  <2>2. wq \in [0 .. NWqes - 1 -> [idx : Nat, by : Thread \cup {"none"}]]
    BY DEF Init, NoWqe
  <2>3. 0 \in 0 .. IndexSpan - 1
    BY SizeAssumption
  <2>4. /\ pc \in [Thread -> Pcs] /\ base \in [Thread -> Nat]
        /\ num \in [Thread -> Nat] /\ todo \in [Thread -> SUBSET Nat]
    BY DEF Init, Pcs
  <2>5. /\ resv_head = 0 /\ ready_head = 0 /\ prod_idx = 0
        /\ post_send_lock = FALSE /\ dbrec = 0 /\ bf_reg = 0
    BY DEF Init
  <2>6. Len(claims) = resv_head /\ dbrec \in 0 .. IndexSpan - 1
        /\ bf_reg \in 0 .. IndexSpan - 1
    BY <2>1, <2>3, <2>5
  <2>7. post_send_lock \in BOOLEAN
    BY <2>5
  <2>8. /\ resv_head \in Nat /\ ready_head \in Nat /\ prod_idx \in Nat
        /\ prod_idx <= ready_head /\ ready_head <= resv_head
    BY <2>5
  <2> QED BY <2>1, <2>2, <2>4, <2>6, <2>7, <2>8 DEF Types
<1>3. \A t \in Thread : Reservation(t)
  BY DEF Init, Reservation, InQueue
<1>4. Building /\ Ring /\ LastOnItsWay
  BY <1>1, SizeAssumption DEF Init, Building, Ring, LastOnItsWay
<1>5. Doorbells
  <2>1. 0 \in executed .. prod_idx /\ bf_reg = Low(0)
    BY <1>1 DEF Init
  <2> QED BY <1>1, <2>1 DEF Init, Doorbells, Posting
<1> QED BY <1>2, <1>3, <1>4, <1>5 DEF IInv

(* The invariant of the shared send path: every reservation lies ahead of  *)
(* what is published, the ring keeps what the NIC still needs, the         *)
(* doorbells follow prod_idx (device_nvshmem.cuh:307-372).                 *)
THEOREM Invariance == Spec => []IInv
<1>1. IInv /\ [Next]_vars => IInv'
  BY TypeStep, ReservationStep, BuildingStep, RingStep, DoorbellsStep, LastStep DEF IInv
<1> QED BY InitInv, <1>1, PTL DEF Spec

(* The three heads keep their order, prod_idx <= ready_head <= resv_head   *)
(* (device_nvshmem.cuh:136-138), reservations lie below resv_head, and the *)
(* lock is never held by two threads (:153-163).                           *)
THEOREM TypeCorrect == Spec => []TypeOK
<1>1. IInv => TypeOK
  BY DEF IInv, TypeOK, Reservation, Doorbells
<1> QED BY <1>1, Invariance, PTL

(* The doorbell names a published entry that the NIC has not passed: the   *)
(* lock and atomicMax keep it from going back (device_nvshmem.cuh:310-323).*)
THEOREM DoorbellForward == Spec => []DoorbellInRange
<1>1. IInv => DoorbellInRange
  BY DEF IInv, Types, Doorbells, DoorbellInRange, executed
<1> QED BY <1>1, Invariance, PTL

(* Outside the lock both doorbells hold prod_idx (:316-323).               *)
THEOREM DoorbellsTogether == Spec => []DoorbellsAgree
<1>1. IInv => DoorbellsAgree
  BY DEF IInv, Doorbells, DoorbellsAgree
<1> QED BY <1>1, Invariance, PTL

(* When the last thread leaves, everything reserved has its doorbell: the  *)
(* batching rule strands nothing (:364-367).                               *)
THEOREM AllPosted == Spec => []NothingStranded
<1>1. ASSUME IInv, AllIdle PROVE prod_idx = resv_head /\ bf_reg = Low(resv_head)
  <2>1. /\ Types /\ Building /\ Doorbells /\ LastOnItsWay
        /\ \A t \in Thread : pc[t] = "idle"
    BY <1>1 DEF IInv, AllIdle
  <2>2. ready_head \in Nat /\ resv_head \in Nat /\ prod_idx \in Nat
        /\ prod_idx <= ready_head /\ ready_head <= resv_head
    BY <2>1 DEF Types
  <2>3. ready_head = resv_head
    BY <2>1, <2>2 DEF Building
  <2>4. prod_idx = ready_head
    BY <2>1, <2>2, <2>3 DEF LastOnItsWay
  <2>5. bf_reg = Low(prod_idx)
    BY <2>1 DEF Doorbells, Posting
  <2> QED BY <2>3, <2>4, <2>5
<1>2. IInv => NothingStranded
  BY <1>1 DEF NothingStranded
<1> QED BY <1>2, Invariance, PTL

-----------------------------------------------------------------------------
(* The refinement, step by step.                                           *)

LEMMA ReserveClaims ==
    ASSUME IInv, NEW t \in Thread, NEW n \in Sizes, Reserve(t, n)
    PROVE  Queue!Claim(t, n)
<1>1. Types /\ Reservation(t)
  BY DEF IInv
<1>2. n \in Nat \ {0} /\ resv_head \in Nat
  BY <1>1, SizeAssumption DEF Types
<1>3. /\ todo[t] = {} /\ resv_head' = resv_head + n
      /\ todo' = [todo EXCEPT ![t] = resv_head .. resv_head + n - 1]
  BY <1>1 DEF Reserve, Goto, Reservation
<1>4. /\ todo'[t] = resv_head .. resv_head + n - 1
      /\ \A u \in Thread \ {t} : todo'[u] = todo[u]
  BY <1>1, <1>3 DEF Types
<1>5. filled' = {i \in 0 .. resv_head + n - 1 : \A u \in Thread : i \notin todo'[u]}
  <2>1. resv_head' - 1 = resv_head + n - 1
    BY <1>2, <1>3
  <2>2. filled' = {i \in 0 .. resv_head' - 1 : \A u \in Thread : i \notin todo'[u]}
    BY DEF filled
  <2> QED BY <2>1, <2>2, Zenon
<1>6. filled' = filled
  <2>1. \A i \in 0 .. resv_head + n - 1 :
            (\A u \in Thread : i \notin todo'[u]) =>
                i \in 0 .. resv_head - 1 /\ \A u \in Thread : i \notin todo[u]
    BY <1>2, <1>3, <1>4
  <2>2. \A i \in 0 .. resv_head - 1 :
            (\A u \in Thread : i \notin todo[u]) =>
                i \in 0 .. resv_head + n - 1 /\ \A u \in Thread : i \notin todo'[u]
    BY <1>2, <1>3, <1>4
  <2> QED BY <1>5, <2>1, <2>2 DEF filled
<1> QED BY <1>6 DEF Reserve, Queue!Claim

LEMMA BuildFills ==
    ASSUME IInv, NEW t \in Thread, NEW i \in todo[t], BuildWqe(t, i)
    PROVE  Queue!Fill(i)
<1>1. Types /\ Building /\ \A u \in Thread : Reservation(u)
  BY DEF IInv
<1>2. /\ i \in Nat /\ pc[t] = "build" /\ resv_head \in Nat
      /\ base[t] <= i /\ i < New(t) /\ New(t) <= resv_head
      /\ \A u \in Thread : base[u] \in Nat /\ New(u) \in Nat
  BY <1>1 DEF BuildWqe, Reservation, Types, New
<1>3. ASSUME NEW u \in Thread \ {t} PROVE i \notin todo[u]
  <2>1. SUFFICES ASSUME i \in todo[u] PROVE FALSE
    OBVIOUS
  <2>2. pc[u] = "build" /\ base[u] <= i /\ i < New(u)
    BY <1>1, <2>1 DEF Reservation, InQueue
  <2>3. New(t) <= base[u] \/ New(u) <= base[t]
    BY <1>1, <1>2, <2>2 DEF Building
  <2> QED BY <1>2, <2>2, <2>3
<1>4. /\ todo'[t] = todo[t] \ {i} /\ resv_head' = resv_head
      /\ \A u \in Thread \ {t} : todo'[u] = todo[u]
  BY <1>1 DEF BuildWqe, headVars, Types
<1>5. filled' = filled \cup {i}
  BY <1>2, <1>3, <1>4 DEF filled
<1>6. i \notin filled /\ i \in 0 .. Len(claims) - 1
  BY <1>1, <1>2 DEF filled, Types
<1> QED BY <1>5, <1>6 DEF BuildWqe, headVars, Queue!Fill

LEMMA NicExecutes == ASSUME IInv, Execute PROVE Queue!Execute
<1>1. Types /\ Ring /\ Doorbells /\ \A t \in Thread : Reservation(t)
  BY DEF IInv
<1>2. PICK n \in executed .. prod_idx : bf_reg = Low(n)
  BY <1>1 DEF Doorbells
<1>3. /\ executed \in Nat /\ executed < prod_idx
      /\ prod_idx <= ready_head /\ ready_head <= resv_head
      /\ prod_idx \in Nat /\ ready_head \in Nat /\ resv_head \in Nat
  BY <1>1, <1>2, NicBehind DEF Execute, Types
<1>4. ASSUME NEW t \in Thread PROVE executed \notin todo[t]
  <2>1. base[t] \in Nat
    BY <1>1 DEF Types
  <2>2. CASE pc[t] = "build"
    BY <1>1, <1>3, <2>1, <2>2 DEF Reservation
  <2>3. CASE pc[t] # "build"
    BY <1>1, <2>3 DEF Reservation, InQueue
  <2> QED BY <2>2, <2>3
<1>5. executed \in 0 .. resv_head - 1 /\ executed \in executed .. resv_head - 1
  BY <1>3
<1>6. executed \in filled
  BY <1>4, <1>5 DEF filled
<1>7. wq[SlotOf(executed)].by = claims[executed + 1]
  BY <1>1, <1>4, <1>5 DEF Ring, InRing
<1>8. UNCHANGED <<claims, filled>>
  BY DEF Execute, threadVars, headVars, filled
<1> QED BY <1>6, <1>7, <1>8 DEF Execute, Queue!Execute, executed

(* The shared send path implements the abstract send queue: each entry is  *)
(* executed once, in the order of reservation and as its thread built it.  *)
THEOREM Refinement == Spec => ImplementsSendQueue
<1>1. Init => Queue!Init
  BY SizeAssumption DEF Init, Queue!Init, filled
<1>2. IInv /\ [Next]_vars => [Queue!Next]_(Queue!vars)
  <2> SUFFICES ASSUME IInv, [Next]_vars PROVE [Queue!Next]_(Queue!vars)
    OBVIOUS
  <2>1. ASSUME NEW t \in Thread, NEW n \in Sizes, Reserve(t, n) PROVE Queue!Next
    BY <2>1, ReserveClaims DEF Queue!Next
  <2>2. ASSUME NEW t \in Thread, NEW i \in todo[t], BuildWqe(t, i) PROVE Queue!Next
    <3>1. Queue!Fill(i)
      BY <2>2, BuildFills
    <3>2. i \in 0 .. Len(claims) - 1
      BY <3>1 DEF Queue!Fill
    <3> QED BY <3>1, <3>2 DEF Queue!Next
  <2>3. ASSUME NEW t \in Thread, Submit(t) PROVE UNCHANGED Queue!vars
    BY <2>3, SubmitFrame DEF Queue!vars, filled
  <2>4. ASSUME Execute PROVE Queue!Next
    BY <2>4, NicExecutes DEF Queue!Next
  <2>5. CASE UNCHANGED vars
    BY <2>5 DEF vars, threadVars, headVars, Queue!vars, filled
  <2> QED BY <2>1, <2>2, <2>3, <2>4, <2>5 DEF Next, Step, Stopped
<1> QED BY <1>1, <1>2, Invariance, PTL DEF Spec, ImplementsSendQueue, Queue!Spec
=============================================================================
