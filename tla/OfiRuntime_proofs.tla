------------------------- MODULE OfiRuntime_proofs -------------------------
(***************************************************************************)
(* The safety invariants of the OFI runtime, for a pool of any size and    *)
(* any number of batches.                                                  *)
(***************************************************************************)
EXTENDS OfiRuntime, TLAPS

Work == [batch : 0 .. MaxBatches, slot : Slot,
         op : {"write", "atomic"}, st : {"queued", "fired"}]

(* The NIC has work of this batch only, one write and one atomic a slot.   *)
Works ==
    /\ \A w \in dwq : w.batch = batch /\ w.slot < my_n_ops
    /\ \A v, w \in dwq : v.slot = w.slot /\ v.op = w.op => v = w

(* A counter that has counted stands for a work of this batch that is done.*)
Counts ==
    \A s \in Slot :
        /\ completion_cntr[s] >= 1 =>
               /\ s < my_n_ops /\ <<batch, s>> \in complete
               /\ \A w \in dwq : ~(w.slot = s /\ w.op = "write")
        /\ atomic_completion_cntr[s] >= 1 =>
               /\ s < my_n_ops
               /\ \A w \in dwq : ~(w.slot = s /\ w.op = "atomic")

Pending == \A s \in Slot : s < my_n_ops => <<batch, s>> \in my_pending

(* Nothing starts before the kernel of this batch has flushed.             *)
Started ==
    /\ trigger_cntr > 0 =>
           pc = "launched" /\ kernel_batch = batch /\ kernel # "flush"
    /\ \A w \in dwq : w.st = "fired" => trigger_cntr > 0
    /\ \A s \in Slot : completion_cntr[s] >= 1 \/ atomic_completion_cntr[s] >= 1
                           => trigger_cntr > 0

Kernels ==
    /\ kernel = "flush" => pc = "launched" /\ kernel_batch = batch /\ poll = 0
    /\ kernel = "quiet" => ctx.completion
    /\ pc \in {"prepared", "launched"} => my_n_ops > 0

(* The slots that a kernel polls were cleared for it, and hold what its own*)
(* batch has completed.                                                    *)
Slots ==
    /\ pc = "prepared" /\ ctx.completion =>
           \A s \in Slot : s < ctx.n_ops => slot_pool[s] = 0
    /\ kernel # "idle" /\ ctx.completion =>
           \A s \in Slot : s < ctx.n_ops /\ slot_pool[s] >= 1
                               => <<kernel_batch, s>> \in complete

(* What bounds the slots that prepare_trigger() never clears.              *)
Bounded ==
    /\ my_n_ops > 0 => batch < MaxBatches
    /\ \A s \in Slot : /\ slot_pool[s] <= batch + 1
                       /\ s >= my_n_ops => slot_pool[s] <= batch
    /\ \A w \in dwq : w.op = "atomic" /\ w.st = "queued"
                          => slot_pool[w.slot] <= batch

IInv ==
    /\ TypeOK /\ Works /\ Counts /\ Pending /\ Started /\ Kernels
    /\ Slots /\ Bounded /\ CompletionsAreFresh

-----------------------------------------------------------------------------
(* Firing a work changes its state only.                                   *)
LEMMA FiredIs ==
    ASSUME NEW w \in Work, NEW S \in SUBSET Work
    PROVE  LET f == [w EXCEPT !.st = "fired"]
           IN /\ f \in Work /\ f.batch = w.batch /\ f.slot = w.slot
              /\ f.op = w.op /\ f.st = "fired"
BY DEF Work

LEMMA WorkIs ==
    ASSUME TypeOK, NEW w \in dwq
    PROVE  /\ w \in Work /\ w.slot \in Slot /\ w.slot \in Nat
           /\ w.slot < POOL_SIZE /\ w.op \in {"write", "atomic"}
<1>1. w \in Work
  BY DEF TypeOK, Work
<1>2. w.slot \in Slot /\ w.op \in {"write", "atomic"}
  BY <1>1 DEF Work
<1> QED BY <1>1, <1>2, SizeAssumption DEF Slot

(* The counters are numbers, and a pool's slots are numbers below its size.*)
LEMMA Numbers ==
    ASSUME TypeOK
    PROVE  /\ batch \in Nat /\ my_n_ops \in Nat /\ trigger_cntr \in Nat
           /\ poll \in Nat /\ kernel_batch \in Nat /\ ctx.n_ops \in Nat
           /\ POOL_SIZE \in Nat /\ MaxBatches \in Nat
           /\ \A s \in Slot : /\ s \in Nat /\ s < POOL_SIZE
                              /\ completion_cntr[s] \in Nat
                              /\ atomic_completion_cntr[s] \in Nat
                              /\ slot_pool[s] \in Nat
<1>1. /\ batch \in Nat /\ my_n_ops \in Nat /\ trigger_cntr \in Nat
      /\ poll \in Nat /\ kernel_batch \in Nat
      /\ POOL_SIZE \in Nat /\ MaxBatches \in Nat
  BY SizeAssumption DEF TypeOK
<1>2. ctx.n_ops \in Nat
  <2>1. ctx.n_ops \in 0 .. POOL_SIZE
    BY DEF TypeOK
  <2> QED BY <1>1, <2>1
<1>3. ASSUME NEW s \in Slot
      PROVE  /\ s \in Nat /\ s < POOL_SIZE
             /\ completion_cntr[s] \in Nat
             /\ atomic_completion_cntr[s] \in Nat
             /\ slot_pool[s] \in Nat
  <2>1. s \in Nat /\ s < POOL_SIZE
    BY <1>1 DEF Slot
  <2>2. /\ completion_cntr[s] \in 0 .. 1 /\ atomic_completion_cntr[s] \in 0 .. 1
        /\ slot_pool[s] \in 0 .. MaxBatches
    BY DEF TypeOK
  <2> QED BY <1>1, <2>1, <2>2
<1> QED BY <1>1, <1>2, <1>3

(* reset() finds that the NIC has nothing left to do, and that nobody has  *)
(* reset before the kernel flushed.                                        *)
LEMMA ResetFacts ==
    ASSUME IInv, Reset
    PROVE  /\ dwq = {} /\ dwq' = {}
           /\ kernel # "flush" /\ my_n_ops > 0
           /\ trigger_cntr' = 0 /\ my_n_ops' = 0 /\ batch' = batch + 1
           /\ completion_cntr' = [s \in Slot |-> 0]
           /\ atomic_completion_cntr' = [s \in Slot |-> 0]
<1>1. TypeOK /\ Works /\ Counts /\ Started /\ Kernels
  BY DEF IInv
<1>2. dwq = {}
  <2> SUFFICES ASSUME NEW w \in dwq PROVE FALSE
    OBVIOUS
  <2>1. w.slot \in Slot /\ w.slot < my_n_ops /\ w.op \in {"write", "atomic"}
    BY <1>1, WorkIs DEF Works
  <2>2. completion_cntr[w.slot] >= 1 /\ atomic_completion_cntr[w.slot] >= 1
    BY <2>1 DEF Reset, Drained
  <2> QED BY <1>1, <2>1, <2>2 DEF Counts
<1>3. my_n_ops > 0
  BY <1>1 DEF Reset, Kernels
<1>4. kernel # "flush"
  <2>1. 0 \in Slot
    BY SizeAssumption DEF Slot
  <2>2. completion_cntr[0] >= 1
    BY <1>3, <2>1 DEF Reset, Drained
  <2> QED BY <1>1, <2>1, <2>2 DEF Started
<1>5. \A s \in Slot : ~(s < my_n_ops) =>
        completion_cntr[s] = 0 /\ atomic_completion_cntr[s] = 0
  <2>1. \A s \in Slot : /\ completion_cntr[s] \in Nat
                        /\ atomic_completion_cntr[s] \in Nat
    BY <1>1, Numbers
  <2>2. \A s \in Slot : ~(s < my_n_ops) =>
          ~(completion_cntr[s] >= 1) /\ ~(atomic_completion_cntr[s] >= 1)
    BY <1>1 DEF Counts
  <2> QED BY <2>1, <2>2
<1>6. /\ completion_cntr' = [s \in Slot |-> 0]
      /\ atomic_completion_cntr' = [s \in Slot |-> 0]
  <2>1. completion_cntr' = [s \in Slot |-> IF s < my_n_ops THEN 0 ELSE completion_cntr[s]]
    BY DEF Reset, ClearCounters, Cleared
  <2>2. atomic_completion_cntr' =
          [s \in Slot |-> IF s < my_n_ops THEN 0 ELSE atomic_completion_cntr[s]]
    BY DEF Reset, ClearCounters, Cleared
  <2> QED BY <1>5, <2>1, <2>2
<1> QED BY <1>2, <1>3, <1>4, <1>6 DEF Reset, ClearCounters

-----------------------------------------------------------------------------
LEMMA TypeStep == IInv /\ [Next]_vars => TypeOK'
<1> SUFFICES ASSUME IInv, [Next]_vars PROVE TypeOK'
  OBVIOUS
<1> USE SizeAssumption
<1>0. TypeOK /\ Works /\ Counts /\ Bounded
  BY DEF IInv
<1>n. /\ batch \in Nat /\ my_n_ops \in Nat /\ my_n_ops <= POOL_SIZE
      /\ POOL_SIZE \in Nat /\ MaxBatches \in Nat
  BY <1>0 DEF TypeOK
<1>1. CASE PutNoDb
  <2>1. CASE my_n_ops >= POOL_SIZE
    BY <1>0, <1>1, <2>1 DEF PutNoDb, TypeOK, gpuVars, cntrVars
  <2>2. CASE my_n_ops < POOL_SIZE
    <3>1. my_n_ops \in Slot /\ my_n_ops + 1 \in 0 .. POOL_SIZE
      BY <1>n, <2>2 DEF Slot
    <3>2. batch \in 0 .. MaxBatches
      BY <1>0 DEF TypeOK
    <3>3. Put(my_n_ops) \in Work /\ Atomic(my_n_ops) \in Work
      BY <3>1, <3>2 DEF Put, Atomic, Work
    <3>4. /\ dwq' = dwq \cup {Put(my_n_ops), Atomic(my_n_ops)}
          /\ my_pending' = my_pending \cup {<<batch, my_n_ops>>}
          /\ my_n_ops' = my_n_ops + 1 /\ pc' = pc
      BY <1>1, <1>n, <2>2 DEF PutNoDb
    <3>5. dwq' \subseteq Work
      BY <1>0, <3>3, <3>4 DEF TypeOK, Work
    <3>6. my_pending' \subseteq (0 .. MaxBatches) \X Slot
      BY <1>0, <3>1, <3>2, <3>4 DEF TypeOK
    <3> QED BY <1>0, <1>1, <3>1, <3>4, <3>5, <3>6
            DEF PutNoDb, TypeOK, gpuVars, cntrVars, Work
  <2> QED BY <1>n, <2>1, <2>2
<1>2. CASE Prepare
  <2>1. slot_pool' \in [Slot -> 0 .. MaxBatches]
    BY <1>0, <1>2 DEF Prepare, ClearSlots, TypeOK
  <2>2. ctx' \in [trigger_val : 0 .. POOL_SIZE, completion : BOOLEAN,
                  n_ops : 0 .. POOL_SIZE]
    BY <1>0, <1>2 DEF Prepare, TypeOK
  <2> QED BY <1>0, <1>2, <2>1, <2>2 DEF Prepare, TypeOK, gpuVars, cntrVars
<1>3. CASE PrepareTrigger
  <2>1. ctx' \in [trigger_val : 0 .. POOL_SIZE, completion : BOOLEAN,
                  n_ops : 0 .. POOL_SIZE]
    BY <1>0, <1>3 DEF PrepareTrigger, TypeOK
  <2> QED BY <1>0, <1>3, <2>1 DEF PrepareTrigger, TypeOK, gpuVars, cntrVars
<1>4. CASE Launch
  BY <1>0, <1>4 DEF Launch, TypeOK, cntrVars
<1>5. ASSUME NEW s \in Slot, Wait(s) PROVE TypeOK'
  BY <1>0, <1>5 DEF Wait, TypeOK, gpuVars, cntrVars
<1>6. CASE Reset
  <2>1. /\ trigger_cntr' = 0 /\ my_n_ops' = 0 /\ batch' = batch + 1
        /\ completion_cntr' = [s \in Slot |-> 0]
        /\ atomic_completion_cntr' = [s \in Slot |-> 0] /\ my_n_ops > 0
    BY <1>6, ResetFacts
  <2>2. batch' \in 0 .. MaxBatches
    BY <1>0, <1>n, <2>1 DEF Bounded
  <2> QED BY <1>0, <1>6, <2>1, <2>2 DEF Reset, TypeOK, gpuVars
<1>7. CASE Destroy
  BY <1>0, <1>7 DEF Destroy, TypeOK, gpuVars, cntrVars
<1>8. CASE Flush
  <2>1. trigger_cntr' \in 0 .. POOL_SIZE
    BY <1>0, <1>8 DEF Flush, TypeOK
  <2> QED BY <1>0, <1>8, <2>1 DEF Flush, TypeOK, hostVars
<1>9. CASE QuietPoll
  <2>1. ctx.n_ops \in 0 .. POOL_SIZE
    BY <1>0 DEF TypeOK
  <2>2. poll' \in 0 .. POOL_SIZE
    BY <1>0, <1>9, <2>1 DEF QuietPoll, TypeOK
  <2> QED BY <1>0, <1>9, <2>2 DEF QuietPoll, TypeOK, hostVars, cntrVars
<1>10. CASE QuietDone
  BY <1>0, <1>10 DEF QuietDone, TypeOK, hostVars, cntrVars
<1>11. ASSUME NEW w \in dwq, FirePut(w) PROVE TypeOK'
  <2>1. dwq' \subseteq Work
    BY <1>0, <1>11, WorkIs, FiredIs DEF FirePut, Fired, TypeOK, Work
  <2> QED BY <1>0, <1>11, <2>1 DEF FirePut, TypeOK, Work, hostVars, gpuVars, cntrVars
<1>12. ASSUME NEW w \in dwq, CompletePut(w) PROVE TypeOK'
  <2>1. w.slot \in Slot
    BY <1>0, WorkIs
  <2>2. completion_cntr[w.slot] = 0
    <3>1. completion_cntr[w.slot] \in 0 .. 1
      BY <1>0, <2>1 DEF TypeOK
    <3>2. ~(completion_cntr[w.slot] >= 1)
      BY <1>0, <1>12, <2>1 DEF Counts, CompletePut
    <3> QED BY <3>1, <3>2
  <2>3. completion_cntr' \in [Slot -> 0 .. 1]
    BY <1>0, <1>12, <2>1, <2>2 DEF CompletePut, TypeOK
  <2> QED BY <1>0, <1>12, <2>3 DEF CompletePut, TypeOK, hostVars, gpuVars
<1>13. ASSUME NEW w \in dwq, FireAtomic(w) PROVE TypeOK'
  <2>1. dwq' \subseteq Work /\ w.slot \in Slot /\ w.slot < my_n_ops
    BY <1>0, <1>13, WorkIs, FiredIs DEF FireAtomic, Fired, TypeOK, Work, Works
  <2>2. slot_pool[w.slot] + 1 \in 0 .. MaxBatches
    <3>1. slot_pool[w.slot] <= batch /\ my_n_ops > 0 /\ slot_pool[w.slot] \in Nat
      BY <1>0, <1>13, <2>1, <1>n, WorkIs, Numbers DEF FireAtomic, Bounded
    <3> QED BY <1>0, <1>n, <3>1 DEF Bounded
  <2>3. slot_pool' \in [Slot -> 0 .. MaxBatches]
    BY <1>0, <1>13, <2>1, <2>2 DEF FireAtomic, TypeOK
  <2> QED BY <1>0, <1>13, <2>1, <2>3
          DEF FireAtomic, TypeOK, Work, hostVars, gpuVars, cntrVars
<1>14. ASSUME NEW w \in dwq, CompleteAtomic(w) PROVE TypeOK'
  <2>1. w.slot \in Slot
    BY <1>0, WorkIs
  <2>2. atomic_completion_cntr[w.slot] = 0
    <3>1. atomic_completion_cntr[w.slot] \in 0 .. 1
      BY <1>0, <2>1 DEF TypeOK
    <3>2. ~(atomic_completion_cntr[w.slot] >= 1)
      BY <1>0, <1>14, <2>1 DEF Counts, CompleteAtomic
    <3> QED BY <3>1, <3>2
  <2>3. atomic_completion_cntr' \in [Slot -> 0 .. 1]
    BY <1>0, <1>14, <2>1, <2>2 DEF CompleteAtomic, TypeOK
  <2> QED BY <1>0, <1>14, <2>3 DEF CompleteAtomic, TypeOK, hostVars, gpuVars
<1>15. CASE UNCHANGED vars
  BY <1>0, <1>15 DEF vars, hostVars, gpuVars, cntrVars, TypeOK
<1> QED BY <1>1, <1>2, <1>3, <1>4, <1>5, <1>6, <1>7, <1>8, <1>9, <1>10, <1>11,
           <1>12, <1>13, <1>14, <1>15 DEF Next, Host, Gpu, Nic, Stopped

LEMMA WorksStep == IInv /\ [Next]_vars => Works'
<1> SUFFICES ASSUME IInv, [Next]_vars PROVE Works'
  OBVIOUS
<1>0. TypeOK /\ Works
  BY DEF IInv
<1>1. CASE PutNoDb
  <2>1. CASE my_n_ops >= POOL_SIZE
    BY <1>0, <1>1, <2>1 DEF PutNoDb, Works
  <2>2. CASE ~(my_n_ops >= POOL_SIZE)
    <3>1. /\ dwq' = dwq \cup {Put(my_n_ops), Atomic(my_n_ops)}
          /\ my_n_ops' = my_n_ops + 1 /\ batch' = batch
      BY <1>1, <2>2 DEF PutNoDb
    <3>2. \A w \in dwq : w.batch = batch /\ w.slot < my_n_ops /\ w.slot \in Nat
      BY <1>0, WorkIs DEF Works
    <3>3. /\ Put(my_n_ops).batch = batch /\ Put(my_n_ops).slot = my_n_ops
          /\ Atomic(my_n_ops).batch = batch /\ Atomic(my_n_ops).slot = my_n_ops
          /\ Put(my_n_ops).op = "write" /\ Atomic(my_n_ops).op = "atomic"
      BY DEF Put, Atomic
    <3>4. \A w \in dwq : w.slot # my_n_ops
      BY <1>0, <3>2, Numbers
    <3>5. \A w \in dwq' : w.batch = batch' /\ w.slot < my_n_ops'
      BY <1>0, <3>1, <3>2, <3>3, Numbers
    <3>6. \A v, w \in dwq' : v.slot = w.slot /\ v.op = w.op => v = w
      BY <1>0, <3>1, <3>3, <3>4 DEF Works
    <3> QED BY <3>5, <3>6 DEF Works
  <2> QED BY <2>1, <2>2
<1>2. CASE Reset
  BY <1>2, ResetFacts DEF Works
<1>3. ASSUME NEW w \in dwq, FirePut(w) \/ FireAtomic(w) PROVE Works'
  <2> DEFINE f == [w EXCEPT !.st = "fired"]
  <2>1. f.batch = w.batch /\ f.slot = w.slot /\ f.op = w.op
    BY <1>0, WorkIs, FiredIs
  <2>2. /\ dwq' = (dwq \ {w}) \cup {f}
        /\ batch' = batch /\ my_n_ops' = my_n_ops
    BY <1>3 DEF FirePut, FireAtomic, Fired, hostVars
  <2> HIDE DEF f
  <2> QED BY <1>0, <2>1, <2>2 DEF Works
<1>4. ASSUME NEW w \in dwq, CompletePut(w) \/ CompleteAtomic(w) PROVE Works'
  <2>1. dwq' \subseteq dwq /\ batch' = batch /\ my_n_ops' = my_n_ops
    BY <1>4 DEF CompletePut, CompleteAtomic, hostVars
  <2> QED BY <1>0, <2>1 DEF Works
<1>5. CASE UNCHANGED <<dwq, batch, my_n_ops>>
  BY <1>0, <1>5 DEF Works
<1>6. CASE \/ Prepare \/ PrepareTrigger \/ Launch \/ Destroy
           \/ \E s \in Slot : Wait(s)
           \/ Flush \/ QuietPoll \/ QuietDone \/ UNCHANGED vars
  BY <1>5, <1>6 DEF Prepare, PrepareTrigger, Launch, Destroy, Wait, Flush,
                    QuietPoll, QuietDone, vars, hostVars
<1> QED BY <1>1, <1>2, <1>3, <1>4, <1>6 DEF Next, Host, Gpu, Nic, Stopped

LEMMA CountsStep == IInv /\ [Next]_vars => Counts'
<1> SUFFICES ASSUME IInv, [Next]_vars PROVE Counts'
  OBVIOUS
<1>0. TypeOK /\ Works /\ Counts
  BY DEF IInv
<1>1. CASE PutNoDb
  <2>1. CASE my_n_ops >= POOL_SIZE
    BY <1>0, <1>1, <2>1 DEF PutNoDb, Counts, cntrVars
  <2>2. CASE ~(my_n_ops >= POOL_SIZE)
    <3>1. /\ dwq' = dwq \cup {Put(my_n_ops), Atomic(my_n_ops)}
          /\ my_n_ops' = my_n_ops + 1
          /\ UNCHANGED <<batch, completion_cntr, atomic_completion_cntr, complete>>
      BY <1>1, <2>2 DEF PutNoDb, cntrVars
    <3>2. Put(my_n_ops).slot = my_n_ops /\ Atomic(my_n_ops).slot = my_n_ops
      BY DEF Put, Atomic
    <3>3. ASSUME NEW s \in Slot, s < my_n_ops
          PROVE  s # my_n_ops /\ s < my_n_ops + 1
      BY <1>0, <3>3, Numbers
    <3> QED BY <1>0, <3>1, <3>2, <3>3 DEF Counts
  <2> QED BY <2>1, <2>2
<1>2. CASE Reset
  <2>1. \A s \in Slot : completion_cntr'[s] = 0 /\ atomic_completion_cntr'[s] = 0
    BY <1>2, ResetFacts
  <2> QED BY <2>1 DEF Counts
<1>3. ASSUME NEW w \in dwq, FirePut(w) \/ FireAtomic(w) PROVE Counts'
  <2> DEFINE f == [w EXCEPT !.st = "fired"]
  <2>1. f.slot = w.slot /\ f.op = w.op
    BY <1>0, WorkIs, FiredIs
  <2>2. /\ dwq' = (dwq \ {w}) \cup {f}
        /\ UNCHANGED <<batch, my_n_ops, completion_cntr,
                       atomic_completion_cntr, complete>>
    BY <1>3 DEF FirePut, FireAtomic, Fired, hostVars, cntrVars
  <2> HIDE DEF f
  <2> QED BY <1>0, <2>1, <2>2 DEF Counts
<1>4. ASSUME NEW w \in dwq, CompletePut(w) PROVE Counts'
  <2>1. /\ w.slot \in Slot /\ w.slot < my_n_ops /\ w.batch = batch
        /\ w.op = "write"
    BY <1>0, <1>4, WorkIs DEF Works, CompletePut
  <2>2. /\ dwq' = dwq \ {w} /\ complete' = complete \cup {<<w.batch, w.slot>>}
        /\ completion_cntr' =
              [completion_cntr EXCEPT ![w.slot] = completion_cntr[w.slot] + 1]
        /\ UNCHANGED <<batch, my_n_ops, atomic_completion_cntr>>
    BY <1>4 DEF CompletePut, hostVars
  <2>3. \A v \in dwq' : ~(v.slot = w.slot /\ v.op = "write")
    BY <1>0, <2>1, <2>2 DEF Works
  <2>4. \A s \in Slot \ {w.slot} : completion_cntr'[s] = completion_cntr[s]
    BY <1>0, <2>2 DEF TypeOK
  <2> QED BY <1>0, <2>1, <2>2, <2>3, <2>4 DEF Counts
<1>5. ASSUME NEW w \in dwq, CompleteAtomic(w) PROVE Counts'
  <2>1. w.slot \in Slot /\ w.slot < my_n_ops /\ w.op = "atomic"
    BY <1>0, <1>5, WorkIs DEF Works, CompleteAtomic
  <2>2. /\ dwq' = dwq \ {w}
        /\ atomic_completion_cntr' = [atomic_completion_cntr EXCEPT ![w.slot] =
               atomic_completion_cntr[w.slot] + 1]
        /\ UNCHANGED <<batch, my_n_ops, completion_cntr, complete>>
    BY <1>5 DEF CompleteAtomic, hostVars
  <2>3. \A v \in dwq' : ~(v.slot = w.slot /\ v.op = "atomic")
    BY <1>0, <2>1, <2>2 DEF Works
  <2>4. \A s \in Slot \ {w.slot} :
           atomic_completion_cntr'[s] = atomic_completion_cntr[s]
    BY <1>0, <2>2 DEF TypeOK
  <2> QED BY <1>0, <2>1, <2>2, <2>3, <2>4 DEF Counts
<1>6. CASE UNCHANGED <<dwq, batch, my_n_ops, completion_cntr,
                       atomic_completion_cntr, complete>>
  BY <1>0, <1>6 DEF Counts
<1>7. CASE \/ Prepare \/ PrepareTrigger \/ Launch \/ Destroy
           \/ \E s \in Slot : Wait(s)
           \/ Flush \/ QuietPoll \/ QuietDone \/ UNCHANGED vars
  BY <1>6, <1>7 DEF Prepare, PrepareTrigger, Launch, Destroy, Wait, Flush,
                    QuietPoll, QuietDone, vars, hostVars, cntrVars
<1> QED BY <1>1, <1>2, <1>3, <1>4, <1>5, <1>7 DEF Next, Host, Gpu, Nic, Stopped

LEMMA PendingStep == IInv /\ [Next]_vars => Pending'
<1> SUFFICES ASSUME IInv, [Next]_vars PROVE Pending'
  OBVIOUS
<1>0. TypeOK /\ Pending
  BY DEF IInv
<1>1. CASE PutNoDb
  <2>1. CASE my_n_ops >= POOL_SIZE
    BY <1>0, <1>1, <2>1 DEF PutNoDb, Pending
  <2>2. CASE ~(my_n_ops >= POOL_SIZE)
    <3>1. /\ my_pending' = my_pending \cup {<<batch, my_n_ops>>}
          /\ my_n_ops' = my_n_ops + 1 /\ batch' = batch
      BY <1>1, <2>2 DEF PutNoDb
    <3>2. \A s \in Slot : s < my_n_ops + 1 => s < my_n_ops \/ s = my_n_ops
      BY <1>0, Numbers
    <3> QED BY <1>0, <3>1, <3>2 DEF Pending
  <2> QED BY <2>1, <2>2
<1>2. ASSUME my_n_ops' = 0 PROVE Pending'
  <2>1. \A s \in Slot : ~(s < 0)
    BY <1>0, Numbers
  <2> QED BY <1>2, <2>1 DEF Pending
<1>3. CASE Reset \/ Destroy
  BY <1>2, <1>3, ResetFacts DEF Destroy
<1>4. CASE UNCHANGED <<batch, my_n_ops, my_pending>>
  BY <1>0, <1>4 DEF Pending
<1>5. CASE Prepare \/ PrepareTrigger \/ Launch \/ (\E s \in Slot : Wait(s))
           \/ Gpu \/ Nic \/ UNCHANGED vars
  BY <1>4, <1>5 DEF Prepare, PrepareTrigger, Launch, Wait, Gpu, Flush, QuietPoll,
                    QuietDone, Nic, FirePut, CompletePut, FireAtomic,
                    CompleteAtomic, vars, hostVars
<1> QED BY <1>1, <1>3, <1>5 DEF Next, Host, Stopped

LEMMA StartedStep == IInv /\ [Next]_vars => Started'
<1> SUFFICES ASSUME IInv, [Next]_vars PROVE Started'
  OBVIOUS
<1>0. TypeOK /\ Started /\ Kernels /\ Works /\ Counts
  BY DEF IInv
<1>n. trigger_cntr \in Nat /\ \A s \in Slot : /\ completion_cntr[s] \in Nat
                                              /\ atomic_completion_cntr[s] \in Nat
  BY <1>0, Numbers
<1>1. CASE PutNoDb
  <2>1. UNCHANGED <<trigger_cntr, completion_cntr, atomic_completion_cntr>>
    BY <1>1 DEF PutNoDb, cntrVars
  <2>2. trigger_cntr = 0
    BY <1>0, <1>1, <1>n DEF PutNoDb, Started
  <2>3. \A w \in dwq' : w \in dwq \/ w.st = "queued"
    BY <1>1 DEF PutNoDb, Put, Atomic
  <2> QED BY <1>0, <2>1, <2>2, <2>3 DEF Started
<1>2. CASE Reset
  <2>1. \A s \in Slot : completion_cntr'[s] = 0 /\ atomic_completion_cntr'[s] = 0
    BY <1>2, ResetFacts
  <2>2. dwq' = {} /\ trigger_cntr' = 0
    BY <1>2, ResetFacts
  <2> QED BY <2>1, <2>2 DEF Started
<1>3. CASE Prepare \/ PrepareTrigger \/ Launch \/ Destroy
  <2>1. trigger_cntr = 0
    BY <1>0, <1>3, <1>n DEF Prepare, PrepareTrigger, Launch, Destroy, Started
  <2>2. UNCHANGED <<trigger_cntr, completion_cntr, atomic_completion_cntr, dwq>>
    BY <1>3 DEF Prepare, PrepareTrigger, Launch, Destroy, cntrVars
  <2> QED BY <1>0, <2>1, <2>2 DEF Started
<1>4. CASE Flush
  <2>1. pc' = "launched" /\ kernel_batch' = batch' /\ kernel' # "flush"
    BY <1>0, <1>4 DEF Flush, Kernels, hostVars
  <2>2. trigger_cntr = 0
    BY <1>0, <1>4, <1>n DEF Flush, Started
  <2>3. UNCHANGED <<completion_cntr, atomic_completion_cntr, dwq>>
    BY <1>4 DEF Flush
  <2> QED BY <1>0, <2>1, <2>2, <2>3 DEF Started
<1>5. CASE QuietPoll \/ QuietDone
  <2>1. UNCHANGED <<pc, batch, kernel_batch, cntrVars, dwq>>
    BY <1>5 DEF QuietPoll, QuietDone, hostVars
  <2>2. kernel' # "flush"
    BY <1>5 DEF QuietPoll, QuietDone
  <2> QED BY <1>0, <2>1, <2>2 DEF Started, cntrVars
<1>6. ASSUME NEW w \in dwq, FirePut(w) \/ FireAtomic(w) PROVE Started'
  <2>1. trigger_cntr > 0
    <3>1. w.slot \in Nat /\ w.slot \in Slot
      BY <1>0, WorkIs
    <3>2. CASE FirePut(w)
      BY <1>n, <3>1, <3>2 DEF FirePut
    <3>3. CASE FireAtomic(w)
      BY <1>0, <3>1, <3>3 DEF FireAtomic, Started
    <3> QED BY <1>6, <3>2, <3>3
  <2>2. UNCHANGED <<pc, batch, gpuVars, cntrVars>>
    BY <1>6 DEF FirePut, FireAtomic, hostVars
  <2> QED BY <1>0, <2>1, <2>2 DEF Started, gpuVars, cntrVars
<1>7. ASSUME NEW w \in dwq, CompletePut(w) \/ CompleteAtomic(w) PROVE Started'
  <2>1. trigger_cntr > 0
    BY <1>0, <1>7 DEF CompletePut, CompleteAtomic, Started
  <2>2. UNCHANGED <<pc, batch, gpuVars, trigger_cntr>>
    BY <1>7 DEF CompletePut, CompleteAtomic, hostVars
  <2> QED BY <1>0, <2>1, <2>2 DEF Started, gpuVars
<1>8. CASE UNCHANGED <<pc, batch, gpuVars, cntrVars, dwq>>
  BY <1>0, <1>8 DEF Started, gpuVars, cntrVars
<1>9. CASE UNCHANGED vars \/ \E s \in Slot : Wait(s)
  BY <1>8, <1>9 DEF vars, hostVars, Wait
<1> QED BY <1>1, <1>2, <1>3, <1>4, <1>5, <1>6, <1>7, <1>9
        DEF Next, Host, Gpu, Nic, Stopped

LEMMA KernelsStep == IInv /\ [Next]_vars => Kernels'
<1> SUFFICES ASSUME IInv, [Next]_vars PROVE Kernels'
  OBVIOUS
<1>0. TypeOK /\ Kernels /\ Started
  BY DEF IInv
<1>1. CASE PutNoDb
  BY <1>0, <1>1 DEF PutNoDb, Kernels, gpuVars
<1>2. CASE Prepare
  BY <1>0, <1>2 DEF Prepare, ClearSlots, Kernels, gpuVars
<1>3. CASE PrepareTrigger
  BY <1>0, <1>3 DEF PrepareTrigger, Kernels, gpuVars
<1>4. CASE Launch
  BY <1>0, <1>4 DEF Launch, Kernels
<1>5. CASE Reset
  BY <1>0, <1>5, ResetFacts DEF Reset, Kernels, gpuVars
<1>6. CASE Destroy
  BY <1>0, <1>6 DEF Destroy, Kernels, gpuVars
<1>7. CASE Flush
  BY <1>0, <1>7 DEF Flush, Kernels, hostVars
<1>8. CASE QuietPoll \/ QuietDone
  BY <1>0, <1>8 DEF QuietPoll, QuietDone, Kernels, hostVars
<1>9. CASE (\E s \in Slot : Wait(s)) \/ Nic \/ UNCHANGED vars
  <2>1. UNCHANGED <<pc, batch, my_n_ops, ctx, kernel, kernel_batch, poll>>
    BY <1>9 DEF Wait, Nic, FirePut, CompletePut, FireAtomic, CompleteAtomic,
                vars, hostVars, gpuVars
  <2> QED BY <1>0, <2>1 DEF Kernels
<1> QED BY <1>1, <1>2, <1>3, <1>4, <1>5, <1>6, <1>7, <1>8, <1>9
        DEF Next, Host, Gpu, Stopped

LEMMA SlotsStep == IInv /\ [Next]_vars => Slots'
<1> SUFFICES ASSUME IInv, [Next]_vars PROVE Slots'
  OBVIOUS
<1>0. TypeOK /\ Works /\ Counts /\ Started /\ Kernels /\ Slots
  BY DEF IInv
<1>n. /\ trigger_cntr \in Nat
      /\ \A s \in Slot : s \in Nat /\ slot_pool[s] \in Nat
  BY <1>0, Numbers
<1>1. CASE Prepare
  <2>1. \A s \in Slot : s < my_n_ops => slot_pool'[s] = 0
    BY <1>1 DEF Prepare, ClearSlots
  <2>2. kernel' = "idle" /\ ctx'.n_ops = my_n_ops
    BY <1>1 DEF Prepare, ClearSlots, gpuVars
  <2> QED BY <2>1, <2>2 DEF Slots
<1>2. CASE PrepareTrigger
  <2>1. ctx'.completion = FALSE
    BY <1>2 DEF PrepareTrigger
  <2> QED BY <2>1 DEF Slots
<1>3. CASE Launch
  <2>1. /\ ctx.completion => \A s \in Slot : s < ctx.n_ops => slot_pool[s] = 0
        /\ pc' = "launched" /\ UNCHANGED <<ctx, slot_pool>>
    BY <1>0, <1>3 DEF Launch, Slots
  <2> QED BY <2>1 DEF Slots
<1>4. CASE UNCHANGED <<ctx, slot_pool, kernel_batch, complete>>
           /\ pc' # "prepared" /\ (kernel' # "idle" => kernel # "idle")
  BY <1>0, <1>4 DEF Slots
<1>5. CASE UNCHANGED <<ctx, slot_pool, kernel_batch, complete, pc>>
           /\ (kernel' # "idle" => kernel # "idle")
  BY <1>0, <1>5 DEF Slots
<1>6. CASE PutNoDb \/ Reset \/ Destroy
  BY <1>4, <1>6 DEF PutNoDb, Reset, Destroy, gpuVars
<1>7. CASE Gpu \/ (\E s \in Slot : Wait(s)) \/ UNCHANGED vars
  BY <1>5, <1>7 DEF Gpu, Flush, QuietPoll, QuietDone, Wait, vars, hostVars, gpuVars
<1>8. ASSUME NEW w \in dwq, FirePut(w) \/ CompleteAtomic(w) PROVE Slots'
  BY <1>5, <1>8 DEF FirePut, CompleteAtomic, hostVars, gpuVars
<1>9. ASSUME NEW w \in dwq, CompletePut(w) PROVE Slots'
  <2>1. /\ UNCHANGED <<ctx, slot_pool, kernel_batch, pc, kernel>>
        /\ complete \subseteq complete'
    BY <1>9 DEF CompletePut, hostVars, gpuVars
  <2> QED BY <1>0, <2>1 DEF Slots
<1>10. ASSUME NEW w \in dwq, FireAtomic(w) PROVE Slots'
  <2>1. w.slot \in Slot /\ completion_cntr[w.slot] >= 1
    BY <1>0, <1>10, WorkIs DEF FireAtomic
  <2>2. pc = "launched" /\ kernel_batch = batch
    BY <1>0, <2>1 DEF Started
  <2>3. <<kernel_batch, w.slot>> \in complete
    BY <1>0, <2>1, <2>2 DEF Counts
  <2>4. /\ slot_pool' = [slot_pool EXCEPT ![w.slot] = slot_pool[w.slot] + 1]
        /\ UNCHANGED <<pc, ctx, kernel, kernel_batch, complete>>
    BY <1>10 DEF FireAtomic, hostVars, gpuVars
  <2>5. \A s \in Slot : s # w.slot => slot_pool'[s] = slot_pool[s]
    BY <1>0, <2>4 DEF TypeOK
  <2> QED BY <1>0, <2>2, <2>3, <2>4, <2>5 DEF Slots
<1> QED BY <1>1, <1>2, <1>3, <1>6, <1>7, <1>8, <1>9, <1>10
        DEF Next, Host, Nic, Stopped

LEMMA BoundedStep == IInv /\ [Next]_vars => Bounded'
<1> SUFFICES ASSUME IInv, [Next]_vars PROVE Bounded'
  OBVIOUS
<1>0. TypeOK /\ Works /\ Bounded
  BY DEF IInv
<1>n. /\ batch \in Nat /\ my_n_ops \in Nat /\ MaxBatches \in Nat
      /\ \A s \in Slot : s \in Nat /\ slot_pool[s] \in Nat
  BY <1>0, Numbers
<1>1. CASE PutNoDb
  <2>1. batch < MaxBatches /\ UNCHANGED <<batch, slot_pool>>
    BY <1>1 DEF PutNoDb
  <2>2. CASE my_n_ops >= POOL_SIZE
    BY <1>0, <1>1, <2>1, <2>2 DEF PutNoDb, Bounded
  <2>3. CASE ~(my_n_ops >= POOL_SIZE)
    <3>1. /\ dwq' = dwq \cup {Put(my_n_ops), Atomic(my_n_ops)}
          /\ my_n_ops' = my_n_ops + 1
      BY <1>1, <2>3 DEF PutNoDb
    <3>2. my_n_ops \in Slot
      BY <1>n, <2>3, SizeAssumption DEF Slot
    <3>3. slot_pool[my_n_ops] <= batch
      BY <1>0, <1>n, <3>2 DEF Bounded
    <3>4. \A s \in Slot : s >= my_n_ops + 1 => s >= my_n_ops
      BY <1>n
    <3>5. ASSUME NEW w \in dwq', w.op = "atomic", w.st = "queued"
          PROVE  slot_pool[w.slot] <= batch
      <4>1. w \in dwq \/ w.slot = my_n_ops
        BY <3>1, <3>5 DEF Put, Atomic
      <4> QED BY <1>0, <3>3, <3>5, <4>1 DEF Bounded
    <3> QED BY <1>0, <2>1, <3>1, <3>4, <3>5 DEF Bounded
  <2> QED BY <2>2, <2>3
<1>2. CASE Prepare
  <2>1. \A s \in Slot : slot_pool'[s] = 0 \/ slot_pool'[s] = slot_pool[s]
    BY <1>2 DEF Prepare, ClearSlots
  <2>2. UNCHANGED <<batch, my_n_ops, dwq>>
    BY <1>2 DEF Prepare
  <2>3. \A w \in dwq : w.slot \in Slot
    BY <1>0, WorkIs
  <2> QED BY <1>0, <1>n, <2>1, <2>2, <2>3 DEF Bounded
<1>3. CASE Reset
  <2>1. batch' = batch + 1 /\ my_n_ops' = 0 /\ dwq' = {} /\ UNCHANGED slot_pool
    BY <1>3, ResetFacts DEF Reset
  <2>2. \A s \in Slot : slot_pool[s] <= batch + 1
    BY <1>0 DEF Bounded
  <2>3. \A s \in Slot : slot_pool[s] <= batch + 1 + 1
    BY <1>n, <2>2
  <2> QED BY <2>1, <2>2, <2>3 DEF Bounded
<1>4. CASE UNCHANGED <<batch, slot_pool, my_n_ops>>
           /\ \A w \in dwq' : w \in dwq \/ w.st = "fired"
  <2>1. \A w \in dwq' : w.st = "queued" => w \in dwq
    BY <1>4
  <2> QED BY <1>0, <1>4, <2>1 DEF Bounded
<1>5. CASE PrepareTrigger \/ Launch \/ Destroy \/ (\E s \in Slot : Wait(s))
           \/ Gpu \/ UNCHANGED vars
  BY <1>4, <1>5 DEF PrepareTrigger, Launch, Destroy, Wait, Gpu, Flush, QuietPoll,
                    QuietDone, vars, hostVars
<1>6. ASSUME NEW w \in dwq, FirePut(w) PROVE Bounded'
  <2>1. [w EXCEPT !.st = "fired"].st = "fired"
    BY <1>0, WorkIs, FiredIs
  <2> QED BY <1>4, <1>6, <2>1 DEF FirePut, Fired, hostVars
<1>7. ASSUME NEW w \in dwq, CompletePut(w) \/ CompleteAtomic(w) PROVE Bounded'
  BY <1>4, <1>7 DEF CompletePut, CompleteAtomic, hostVars
<1>8. ASSUME NEW w \in dwq, FireAtomic(w) PROVE Bounded'
  <2> DEFINE f == [w EXCEPT !.st = "fired"]
  <2>1. f.st = "fired" /\ w.slot \in Slot /\ w.slot < my_n_ops
    BY <1>0, WorkIs, FiredIs DEF Works
  <2>2. /\ dwq' = (dwq \ {w}) \cup {f} /\ UNCHANGED <<batch, my_n_ops>>
        /\ slot_pool' = [slot_pool EXCEPT ![w.slot] = slot_pool[w.slot] + 1]
        /\ w.op = "atomic" /\ w.st = "queued"
    BY <1>8 DEF FireAtomic, Fired, hostVars
  <2>3. slot_pool[w.slot] <= batch
    BY <1>0, <2>2 DEF Bounded
  <2>4. slot_pool'[w.slot] <= batch + 1
    BY <1>0, <1>n, <2>1, <2>2, <2>3 DEF TypeOK
  <2>5. \A s \in Slot : s # w.slot => slot_pool'[s] = slot_pool[s]
    BY <1>0, <2>2 DEF TypeOK
  <2> HIDE DEF f
  <2>6. \A s \in Slot : s >= my_n_ops => s # w.slot
    BY <1>n, <2>1
  <2>7. ASSUME NEW v \in dwq', v.op = "atomic", v.st = "queued"
        PROVE  slot_pool'[v.slot] <= batch
    <3>1. v \in dwq /\ v # w
      BY <2>1, <2>2, <2>7
    <3>2. v.slot # w.slot /\ v.slot \in Slot
      BY <1>0, <2>2, <2>7, <3>1, WorkIs DEF Works
    <3> QED BY <1>0, <2>5, <2>7, <3>1, <3>2 DEF Bounded
  <2> QED BY <1>0, <2>2, <2>4, <2>5, <2>6, <2>7 DEF Bounded
<1> QED BY <1>1, <1>2, <1>3, <1>5, <1>6, <1>7, <1>8 DEF Next, Host, Nic, Stopped

LEMMA FreshStep == IInv /\ [Next]_vars => CompletionsAreFresh'
<1> SUFFICES ASSUME IInv, [Next]_vars PROVE CompletionsAreFresh'
  OBVIOUS
<1>0. TypeOK /\ Counts /\ Kernels /\ Slots /\ CompletionsAreFresh
  BY DEF IInv
<1>1. CASE QuietPoll
  <2>1. ctx.completion
    BY <1>0, <1>1 DEF QuietPoll, Kernels
  <2>2. poll \in Slot
    BY <1>0, <1>1, SizeAssumption DEF QuietPoll, TypeOK, Slot
  <2>3. <<kernel_batch, poll>> \in complete
    BY <1>0, <1>1, <2>1, <2>2 DEF QuietPoll, Slots
  <2>4. \A s \in Slot : s < poll + 1 => s < poll \/ s = poll
    BY <1>0, Numbers
  <2> QED BY <1>0, <1>1, <2>3, <2>4 DEF QuietPoll, CompletionsAreFresh, hostVars
<1>2. ASSUME NEW s \in Slot, Wait(s) PROVE CompletionsAreFresh'
  BY <1>0, <1>2 DEF Wait, Counts, CompletionsAreFresh, gpuVars
<1>3. CASE Flush
  <2>1. poll = 0 /\ \A s \in Slot : ~(s < 0)
    BY <1>0, <1>3, Numbers DEF Flush, Kernels
  <2> QED BY <1>0, <1>3, <2>1 DEF Flush, CompletionsAreFresh, hostVars
<1>4. CASE Launch
  BY <1>0, <1>4 DEF Launch, CompletionsAreFresh
<1>5. CASE Reset
  BY <1>0, <1>5 DEF Reset, CompletionsAreFresh, gpuVars
<1>6. CASE QuietDone
  BY <1>0, <1>6 DEF QuietDone, CompletionsAreFresh, hostVars
<1>7. ASSUME NEW w \in dwq, CompletePut(w) PROVE CompletionsAreFresh'
  BY <1>0, <1>7 DEF CompletePut, CompletionsAreFresh, hostVars, gpuVars
<1>8. CASE UNCHANGED <<gpuVars, batch, awaited, complete>>
  BY <1>0, <1>8 DEF CompletionsAreFresh, gpuVars
<1>9. CASE PutNoDb \/ Prepare \/ PrepareTrigger \/ Destroy \/ UNCHANGED vars
  BY <1>8, <1>9 DEF PutNoDb, Prepare, PrepareTrigger, Destroy, vars, hostVars
<1>10. ASSUME NEW w \in dwq, FirePut(w) \/ FireAtomic(w) \/ CompleteAtomic(w)
       PROVE  CompletionsAreFresh'
  BY <1>8, <1>10 DEF FirePut, FireAtomic, CompleteAtomic, hostVars
<1> QED BY <1>1, <1>2, <1>3, <1>4, <1>5, <1>6, <1>7, <1>9, <1>10
        DEF Next, Host, Gpu, Nic, Stopped

-----------------------------------------------------------------------------
LEMMA InitHolds == Init => IInv
<1> SUFFICES ASSUME Init PROVE IInv
  OBVIOUS
<1> USE SizeAssumption
<1>1. TypeOK
  BY DEF Init, TypeOK
<1>2. \A s \in Slot : /\ completion_cntr[s] = 0 /\ atomic_completion_cntr[s] = 0
                      /\ slot_pool[s] = 0 /\ ~(s < 0)
  BY DEF Init, Slot
<1>3. Works /\ Counts /\ Pending /\ Started /\ Kernels /\ Slots
  BY <1>2 DEF Init, Works, Counts, Pending, Started, Kernels, Slots
<1>4. Bounded /\ CompletionsAreFresh
  BY <1>2 DEF Init, Bounded, CompletionsAreFresh
<1> QED BY <1>1, <1>3, <1>4 DEF IInv

LEMMA Step == IInv /\ [Next]_vars => IInv'
BY TypeStep, WorksStep, CountsStep, PendingStep, StartedStep, KernelsStep,
   SlotsStep, BoundedStep, FreshStep DEF IInv

(* The inductive invariant of put_no_db(), prepare(), reset(), the kernel's*)
(* flush() and quiet(), and the works of DwqWorkBuilder on the NIC.        *)
THEOREM Invariance == Spec => []IInv
<1> QED BY InitHolds, Step, PTL DEF Spec

(* The counters that wait(), reset() and the atomics compare with 1 are 0  *)
(* or 1, and every other variable is of its type.                          *)
THEOREM TypeCorrect == Spec => []TypeOK
<1>1. IInv => TypeOK
  BY DEF IInv
<1> QED BY <1>1, Invariance, PTL

(* reset() and ~Runtime() delete no builder whose work the NIC still has.  *)
THEOREM BuildersOutlive == Spec => []BuildersOutliveWork
<1>1. IInv => BuildersOutliveWork
  <2> SUFFICES ASSUME IInv, NEW w \in dwq
               PROVE  <<w.batch, w.slot>> \in my_pending
    BY DEF BuildersOutliveWork
  <2>1. w.slot \in Slot /\ w.batch = batch /\ w.slot < my_n_ops
    BY WorkIs DEF IInv, Works
  <2> QED BY <2>1 DEF IInv, Pending
<1> QED BY <1>1, Invariance, PTL

(* Nothing of a batch is put before that batch's kernel flushes.           *)
THEOREM NothingEarly == Spec => []NothingFiresEarly
<1>1. IInv => NothingFiresEarly
  BY DEF IInv, Started, NothingFiresEarly
<1> QED BY <1>1, Invariance, PTL

(* quiet() and wait() return for puts of their own batch, in whatever order*)
(* the host, the kernels and the NIC take their steps.                     *)
THEOREM FreshCompletions == Spec => []CompletionsAreFresh
<1>1. IInv => CompletionsAreFresh
  BY DEF IInv
<1> QED BY <1>1, Invariance, PTL
=============================================================================
