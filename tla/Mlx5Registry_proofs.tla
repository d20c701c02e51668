------------------------ MODULE Mlx5Registry_proofs ------------------------
(***************************************************************************)
(* The tables of the memory registry agree, no exchange aborts and a put   *)
(* finds its keys, for any ranks, any memory and any sequence of sizes.    *)
(***************************************************************************)
EXTENDS Mlx5Registry, TLAPS

Buf == [addr : Nat, size : Nat \ {0}, key : Ranks \X Nat]

Types ==
    /\ host \in [Ranks -> {"idle", "exchange", "aborted"}]
    /\ local_bufs \in [Ranks -> Seq(Buf)]
    /\ sent \in [Ranks -> Seq(Seq(Buf))]
    /\ remote_bufs \in [Ranks -> [Ranks -> Seq(Buf)]]
    /\ allocs \in [Ranks -> SUBSET (Nat \ {0})]
    /\ ctx_dirty \in [Ranks -> BOOLEAN]
    /\ d_ctx \in [Ranks -> [local : Seq(Buf), remote : [Ranks -> Seq(Buf)]]]
    /\ DOMAIN kernel = Ranks

(* No rank's table is longer than the program of mallocs, and a rank that  *)
(* is in exchange() has registered a buffer.                               *)
Lengths ==
    \A r \in Ranks :
        /\ Len(local_bufs[r]) <= Len(Sizes)
        /\ host[r] = "exchange" => Len(local_bufs[r]) > 0

(* The addresses of a put are in the buffers the client named, and the     *)
(* kernel's tables have these buffers.                                     *)
InBuffer(a, r, b) == b \in 1 .. Len(local_bufs[r]) /\ a \in Span(local_bufs[r][b])
PutInBuffers(r) ==
    kernel[r].state \in {"running", "done"} =>
        /\ kernel[r].peer \in Ranks
        /\ InBuffer(kernel[r].src, r, kernel[r].from)
        /\ InBuffer(kernel[r].dst, kernel[r].peer, kernel[r].to)
        /\ kernel[r].state = "running" =>
               /\ kernel[r].from \in 1 .. Len(d_ctx[r].local)
               /\ kernel[r].to \in 1 .. Len(d_ctx[r].local)

IInv ==
    /\ Types
    /\ Lengths
    /\ TablesAgree
    /\ NoRankAborts
    /\ \A r \in Ranks : PutInBuffers(r)
    /\ LookupIsExact

-----------------------------------------------------------------------------
(* The smallest element of a set that has one is what First returns.       *)
LEMMA FirstIs ==
    ASSUME NEW I \in SUBSET Nat, NEW b \in I, \A i \in I : b <= i
    PROVE  First(I) = b
<1>1. \E i \in I : \A j \in I : i <= j
  OBVIOUS
<1>2. First(I) \in I /\ \A j \in I : First(I) <= j
  BY <1>1 DEF First
<1>3. First(I) <= b /\ b <= First(I) /\ First(I) \in Nat /\ b \in Nat
  BY <1>2
<1> HIDE DEF First
<1> QED BY <1>3

(* The sizes of the client are positive.                                   *)
LEMMA SizeIsPositive ==
    ASSUME NEW b \in 1 .. Len(Sizes) PROVE Sizes[b] \in Nat \ {0}
  BY ClientAssumption

(* A rank's own table only grows.                                          *)
Grows ==
    \A r \in Ranks :
        /\ Len(local_bufs[r]) <= Len(local_bufs'[r])
        /\ \A b \in 1 .. Len(local_bufs[r]) : local_bufs'[r][b] = local_bufs[r][b]

LEMMA Registering ==
    ASSUME Types, NEW r \in Ranks, NEW ptr \in Nat, NEW size \in Nat \ {0}
    PROVE  LET new == register_buffer(r, ptr, size)
               n == Len(local_bufs[r])
           IN /\ new \in Seq(Buf) /\ Len(new) = n + 1
              /\ \A b \in 1 .. n : new[b] = local_bufs[r][b]
              /\ new[n + 1] = [addr |-> ptr, size |-> size, key |-> <<r, n + 1>>]
<1> DEFINE n == Len(local_bufs[r])
           e == [addr |-> ptr, size |-> size, key |-> <<r, n + 1>>]
<1>1. local_bufs[r] \in Seq(Buf) /\ n \in Nat
  BY DEF Types
<1>2. e \in Buf
  BY <1>1 DEF Buf
<1>3. register_buffer(r, ptr, size) = Append(local_bufs[r], e)
  BY DEF register_buffer
<1> HIDE DEF e
<1>4. /\ Append(local_bufs[r], e) \in Seq(Buf)
      /\ Len(Append(local_bufs[r], e)) = n + 1
      /\ \A b \in 1 .. n : Append(local_bufs[r], e)[b] = local_bufs[r][b]
      /\ Append(local_bufs[r], e)[n + 1] = e
  BY <1>1, <1>2
<1> QED BY <1>3, <1>4 DEF e

(* malloc with its address and size named.                                 *)
LEMMA MallocNamed ==
    ASSUME IInv, NEW r \in Ranks, Malloc(r)
    PROVE  \E ptr \in Nat :
              LET size == Sizes[Len(local_bufs[r]) + 1]
                  new == register_buffer(r, ptr, size)
              IN /\ size \in Nat \ {0}
                 /\ local_bufs' = [local_bufs EXCEPT ![r] = new]
                 /\ sent' = [sent EXCEPT ![r] = Append(sent[r], new)]
<1>1. Len(local_bufs[r]) \in Nat /\ Len(local_bufs[r]) < Len(Sizes)
  BY DEF IInv, Types, Malloc
<1>2. Len(local_bufs[r]) + 1 \in 1 .. Len(Sizes)
  BY <1>1, ClientAssumption
<1>3. Sizes[Len(local_bufs[r]) + 1] \in Nat \ {0}
  BY <1>2, SizeIsPositive
<1>4. PICK ptr \in Cells :
        LET size == Sizes[Len(local_bufs[r]) + 1]
        IN /\ local_bufs' = [local_bufs EXCEPT ![r] = register_buffer(r, ptr, size)]
           /\ sent' = [sent EXCEPT ![r] = Append(@, register_buffer(r, ptr, size))]
  BY DEF Malloc
<1>5. ptr \in Nat
  BY MemoryAssumption
<1> QED BY <1>3, <1>4, <1>5

LEMMA TableGrows == IInv /\ [Next]_vars => Grows
<1> SUFFICES ASSUME IInv, [Next]_vars PROVE Grows
  OBVIOUS
<1>1. Types
  BY DEF IInv
<1>0. ASSUME UNCHANGED local_bufs PROVE Grows
  <2>1. \A r \in Ranks : Len(local_bufs[r]) \in Nat
    BY <1>1 DEF Types
  <2> QED BY <1>0, <2>1 DEF Grows
<1>2. ASSUME NEW r \in Ranks, Malloc(r) PROVE Grows
  <2>1. PICK ptr \in Nat :
          /\ Sizes[Len(local_bufs[r]) + 1] \in Nat \ {0}
          /\ local_bufs' = [local_bufs EXCEPT ![r] =
                 register_buffer(r, ptr, Sizes[Len(local_bufs[r]) + 1])]
    BY <1>2, MallocNamed
  <2> DEFINE new == register_buffer(r, ptr, Sizes[Len(local_bufs[r]) + 1])
  <2>4. /\ Len(new) = Len(local_bufs[r]) + 1
        /\ \A b \in 1 .. Len(local_bufs[r]) : new[b] = local_bufs[r][b]
    BY <1>1, <2>1, Registering
  <2>5. local_bufs'[r] = new /\ Len(local_bufs[r]) \in Nat
    BY <1>1, <2>1 DEF Types
  <2> HIDE DEF new
  <2>2. /\ Len(local_bufs[r]) <= Len(local_bufs'[r])
        /\ \A b \in 1 .. Len(local_bufs[r]) : local_bufs'[r][b] = local_bufs[r][b]
    BY <2>4, <2>5
  <2>3. ASSUME NEW p \in Ranks, p # r
        PROVE  Len(local_bufs[p]) \in Nat /\ local_bufs'[p] = local_bufs[p]
    BY <1>1, <2>1, <2>3 DEF Types
  <2> QED BY <2>2, <2>3 DEF Grows
<1>3. ASSUME NEW r \in Ranks, Free(r) PROVE Grows
  <2>1. local_bufs' = [local_bufs EXCEPT ![r] = local_bufs[r]]
    BY <1>3 DEF Free, AfterFree
  <2>2. UNCHANGED local_bufs
    BY <1>1, <2>1 DEF Types
  <2> QED BY <1>0, <2>2
<1>4. ASSUME NEW r \in Ranks, MallocEnd(r) \/ Launch(r) \/ KernelPut(r) PROVE Grows
  BY <1>0, <1>4 DEF MallocEnd, Launch, KernelPut, hostVars
<1>5. CASE UNCHANGED vars
  BY <1>0, <1>5 DEF vars, hostVars
<1> QED BY <1>2, <1>3, <1>4, <1>5 DEF Next

(* The facts about malloc that the steps below need, in one place.         *)
LEMMA MallocFacts ==
    ASSUME IInv, NEW r \in Ranks, Malloc(r)
    PROVE  LET n == Len(local_bufs[r]) IN
           /\ n \in Nat /\ n + 1 <= Len(Sizes)
           /\ local_bufs'[r] \in Seq(Buf) /\ Len(local_bufs'[r]) = n + 1
           /\ \A b \in 1 .. n : local_bufs'[r][b] = local_bufs[r][b]
           /\ local_bufs'[r][n + 1].key = <<r, n + 1>>
           /\ local_bufs'[r][n + 1].size = Sizes[n + 1]
           /\ local_bufs' = [local_bufs EXCEPT ![r] = local_bufs'[r]]
           /\ sent' = [sent EXCEPT ![r] = Append(sent[r], local_bufs'[r])]
<1> DEFINE n == Len(local_bufs[r])
           z == Sizes[n + 1]
<1>1. Types /\ n \in Nat /\ n < Len(Sizes) /\ Len(Sizes) \in Nat
  BY ClientAssumption DEF IInv, Types, Malloc
<1>2. PICK ptr \in Nat :
        /\ z \in Nat \ {0}
        /\ local_bufs' = [local_bufs EXCEPT ![r] = register_buffer(r, ptr, z)]
        /\ sent' = [sent EXCEPT ![r] = Append(sent[r], register_buffer(r, ptr, z))]
  BY MallocNamed
<1> DEFINE new == register_buffer(r, ptr, z)
<1>3. /\ new \in Seq(Buf) /\ Len(new) = n + 1
      /\ \A b \in 1 .. n : new[b] = local_bufs[r][b]
      /\ new[n + 1] = [addr |-> ptr, size |-> z, key |-> <<r, n + 1>>]
  BY <1>1, <1>2, Registering
<1>4. new[n + 1].key = <<r, n + 1>> /\ new[n + 1].size = z
  BY <1>3
<1>5. local_bufs'[r] = new
  BY <1>1, <1>2 DEF Types
<1>6. /\ local_bufs' = [local_bufs EXCEPT ![r] = local_bufs'[r]]
      /\ sent' = [sent EXCEPT ![r] = Append(sent[r], local_bufs'[r])]
  BY <1>2, <1>5
<1>7. /\ local_bufs'[r] \in Seq(Buf) /\ Len(local_bufs'[r]) = n + 1
      /\ \A b \in 1 .. n : local_bufs'[r][b] = local_bufs[r][b]
  BY <1>3, <1>5
<1>8. local_bufs'[r][n + 1].key = <<r, n + 1>> /\ local_bufs'[r][n + 1].size = z
  BY <1>4, <1>5
<1>9. n + 1 <= Len(Sizes)
  BY <1>1
<1> HIDE DEF new
<1> QED BY <1>1, <1>6, <1>7, <1>8, <1>9

(* What exchange() gathers is everybody's table as far as this rank's.     *)
LEMMA GatheredFacts ==
    ASSUME IInv, NEW r \in Ranks, MallocEnd(r)
    PROVE  LET n == Len(local_bufs[r]) IN
           /\ n \in Nat \ {0}
           /\ CountsMatch(r)
           /\ \A p \in Ranks : /\ FromRank(r, p) \in Seq(Buf)
                               /\ Begins(FromRank(r, p), n, p)
<1> DEFINE n == Len(local_bufs[r])
<1>1. /\ Types /\ n \in Nat \ {0} /\ Len(sent[r]) = n
      /\ \A p \in Ranks : GivenTables(p)
      /\ \A p \in Ranks : Len(sent[p]) >= n
  <2>1. Types /\ (\A p \in Ranks : GivenTables(p))
    BY DEF IInv, TablesAgree
  <2>2. n \in Nat /\ n > 0
    BY <2>1 DEF IInv, Types, Lengths, MallocEnd
  <2>3. Len(sent[r]) = n
    BY <2>1 DEF GivenTables
  <2>4. \A p \in Ranks : Len(sent[p]) >= n
    BY <2>3 DEF MallocEnd, Gathered
  <2> QED BY <2>1, <2>2, <2>3, <2>4
<1>2. ASSUME NEW p \in Ranks
      PROVE  /\ FromRank(r, p) \in Seq(Buf) /\ Len(FromRank(r, p)) = n
             /\ Begins(FromRank(r, p), n, p)
  <2>1. sent[p] \in Seq(Seq(Buf)) /\ n \in 1 .. Len(sent[p])
    BY <1>1 DEF Types
  <2>2. sent[p][n] \in Seq(Buf) /\ Len(sent[p][n]) = n /\ Begins(sent[p][n], n, p)
    BY <1>1, <2>1 DEF GivenTables
  <2> QED BY <1>1, <2>2 DEF FromRank
<1>3. CountsMatch(r)
  BY <1>2 DEF CountsMatch
<1> QED BY <1>1, <1>2, <1>3

(* What MallocEnd then does.                                               *)
LEMMA MallocEndFacts ==
    ASSUME IInv, NEW r \in Ranks, MallocEnd(r)
    PROVE  /\ remote_bufs' = [remote_bufs EXCEPT ![r] =
                                 [p \in Ranks |-> FromRank(r, p)]]
           /\ allocs' = [allocs EXCEPT ![r] = allocs[r] \cup {Len(local_bufs[r])}]
           /\ ctx_dirty' = [ctx_dirty EXCEPT ![r] = TRUE]
           /\ host[r] = "exchange" /\ host' = [host EXCEPT ![r] = "idle"]
           /\ UNCHANGED <<local_bufs, sent, d_ctx, kernel>>
<1>1. CountsMatch(r)
  BY GatheredFacts
<1> QED BY <1>1 DEF MallocEnd, AfterMalloc

(* free leaves the registrations.                                          *)
LEMMA FreeFacts ==
    ASSUME IInv, NEW r \in Ranks, Free(r)
    PROVE  /\ \E b \in allocs[r] : allocs' = [allocs EXCEPT ![r] = allocs[r] \ {b}]
           /\ ctx_dirty' = [ctx_dirty EXCEPT ![r] = TRUE]
           /\ UNCHANGED <<local_bufs, host, sent, remote_bufs, d_ctx, kernel>>
<1>1. local_bufs' = [local_bufs EXCEPT ![r] = local_bufs[r]]
  BY DEF Free, AfterFree
<1>2. UNCHANGED local_bufs
  BY <1>1 DEF IInv, Types
<1> QED BY <1>2 DEF Free

-----------------------------------------------------------------------------
LEMMA TypesStep == IInv /\ [Next]_vars => Types'
<1> SUFFICES ASSUME IInv, [Next]_vars PROVE Types'
  OBVIOUS
<1>0. Types
  BY DEF IInv
<1>1. ASSUME NEW r \in Ranks, Malloc(r) PROVE Types'
  <2>1. /\ local_bufs'[r] \in Seq(Buf)
        /\ local_bufs' = [local_bufs EXCEPT ![r] = local_bufs'[r]]
        /\ sent' = [sent EXCEPT ![r] = Append(sent[r], local_bufs'[r])]
    BY <1>1, MallocFacts
  <2>2. local_bufs' \in [Ranks -> Seq(Buf)]
    BY <1>0, <2>1 DEF Types
  <2>3. Append(sent[r], local_bufs'[r]) \in Seq(Seq(Buf))
    BY <1>0, <2>1 DEF Types
  <2>4. sent' \in [Ranks -> Seq(Seq(Buf))]
    BY <1>0, <2>1, <2>3 DEF Types
  <2>5. host' \in [Ranks -> {"idle", "exchange", "aborted"}]
    BY <1>0, <1>1 DEF Types, Malloc
  <2> QED BY <1>0, <1>1, <2>2, <2>4, <2>5 DEF Types, Malloc
<1>2. ASSUME NEW r \in Ranks, MallocEnd(r) PROVE Types'
  <2>1. remote_bufs' \in [Ranks -> [Ranks -> Seq(Buf)]]
    <3>1. [p \in Ranks |-> FromRank(r, p)] \in [Ranks -> Seq(Buf)]
      BY <1>2, GatheredFacts
    <3>2. remote_bufs' = [remote_bufs EXCEPT ![r] =
                             [p \in Ranks |-> FromRank(r, p)]]
      BY <1>2, MallocEndFacts
    <3> QED BY <1>0, <3>1, <3>2 DEF Types
  <2>2. allocs' \in [Ranks -> SUBSET (Nat \ {0})]
    <3>1. Len(local_bufs[r]) \in Nat \ {0}
      BY <1>2, GatheredFacts
    <3>2. allocs[r] \cup {Len(local_bufs[r])} \in SUBSET (Nat \ {0})
      BY <1>0, <3>1 DEF Types
    <3>3. allocs' = [allocs EXCEPT ![r] = allocs[r] \cup {Len(local_bufs[r])}]
      BY <1>2, MallocEndFacts
    <3> QED BY <1>0, <3>2, <3>3 DEF Types
  <2>3. /\ host' \in [Ranks -> {"idle", "exchange", "aborted"}]
        /\ ctx_dirty' \in [Ranks -> BOOLEAN]
    BY <1>0, <1>2, MallocEndFacts DEF Types
  <2> QED BY <1>0, <1>2, <2>1, <2>2, <2>3, MallocEndFacts DEF Types
<1>3. ASSUME NEW r \in Ranks, Free(r) PROVE Types'
  <2>1. PICK b \in allocs[r] : allocs' = [allocs EXCEPT ![r] = allocs[r] \ {b}]
    BY <1>3, FreeFacts
  <2>2. allocs' \in [Ranks -> SUBSET (Nat \ {0})]
    BY <1>0, <2>1 DEF Types
  <2>3. ctx_dirty' \in [Ranks -> BOOLEAN]
    BY <1>0, <1>3, FreeFacts DEF Types
  <2> QED BY <1>0, <1>3, <2>2, <2>3, FreeFacts DEF Types
<1>4. ASSUME NEW r \in Ranks, Launch(r) PROVE Types'
  <2>1. d_ctx' \in [Ranks -> [local : Seq(Buf), remote : [Ranks -> Seq(Buf)]]]
    <3>1. build_context(r) \in [local : Seq(Buf), remote : [Ranks -> Seq(Buf)]]
      BY <1>0 DEF Types, build_context
    <3> QED BY <1>0, <1>4, <3>1 DEF Types, Launch
  <2>2. DOMAIN kernel' = Ranks
    BY <1>0, <1>4 DEF Types, Launch
  <2>3. ctx_dirty' \in [Ranks -> BOOLEAN]
    BY <1>0, <1>4 DEF Types, Launch
  <2> QED BY <1>0, <1>4, <2>1, <2>2, <2>3 DEF Types, Launch, hostVars
<1>5. ASSUME NEW r \in Ranks, KernelPut(r) PROVE Types'
  BY <1>0, <1>5 DEF Types, KernelPut, hostVars
<1>6. CASE UNCHANGED vars
  BY <1>0, <1>6 DEF Types, vars, hostVars
<1> QED BY <1>1, <1>2, <1>3, <1>4, <1>5, <1>6 DEF Next

LEMMA LengthsStep == IInv /\ [Next]_vars => Lengths'
<1> SUFFICES ASSUME IInv, [Next]_vars PROVE Lengths'
  OBVIOUS
<1>0. Types /\ Lengths
  BY DEF IInv
<1>1. ASSUME NEW r \in Ranks, Malloc(r) PROVE Lengths'
  <2>1. /\ Len(local_bufs[r]) \in Nat /\ Len(local_bufs[r]) + 1 <= Len(Sizes)
        /\ Len(local_bufs'[r]) = Len(local_bufs[r]) + 1
        /\ local_bufs' = [local_bufs EXCEPT ![r] = local_bufs'[r]]
    BY <1>1, MallocFacts
  <2>2. host' = [host EXCEPT ![r] = "exchange"]
    BY <1>1 DEF Malloc
  <2>3. ASSUME NEW p \in Ranks, p # r
        PROVE  local_bufs'[p] = local_bufs[p] /\ host'[p] = host[p]
    BY <1>0, <2>1, <2>2, <2>3 DEF Types
  <2> QED BY <1>0, <2>1, <2>3 DEF Lengths
<1>2. ASSUME NEW r \in Ranks, MallocEnd(r) PROVE Lengths'
  BY <1>0, <1>2, MallocEndFacts DEF Types, Lengths
<1>3. ASSUME NEW r \in Ranks, Free(r) PROVE Lengths'
  BY <1>0, <1>3, FreeFacts DEF Lengths
<1>4. CASE UNCHANGED hostVars
  BY <1>0, <1>4 DEF Lengths, hostVars
<1> QED BY <1>1, <1>2, <1>3, <1>4 DEF Next, vars, Launch, KernelPut

LEMMA NoAbortStep == IInv /\ [Next]_vars => NoRankAborts'
<1> SUFFICES ASSUME IInv, [Next]_vars PROVE NoRankAborts'
  OBVIOUS
<1>0. Types /\ NoRankAborts
  BY DEF IInv
<1>1. ASSUME NEW r \in Ranks, Malloc(r) PROVE NoRankAborts'
  BY <1>0, <1>1 DEF Types, NoRankAborts, Malloc
<1>2. ASSUME NEW r \in Ranks, MallocEnd(r) PROVE NoRankAborts'
  BY <1>0, <1>2, MallocEndFacts DEF Types, NoRankAborts
<1>3. ASSUME NEW r \in Ranks, Free(r) PROVE NoRankAborts'
  BY <1>0, <1>3 DEF NoRankAborts, Free
<1>4. CASE UNCHANGED hostVars
  BY <1>0, <1>4 DEF NoRankAborts, hostVars
<1> QED BY <1>1, <1>2, <1>3, <1>4 DEF Next, vars, Launch, KernelPut

-----------------------------------------------------------------------------
(* A copy that begins a table still begins it when the table has grown.    *)
LEMMA StillBegins ==
    ASSUME Types, Types', Grows, NEW copy, NEW n \in Nat, NEW r \in Ranks,
           Begins(copy, n, r)
    PROVE  /\ n <= Len(local_bufs'[r])
           /\ \A b \in 1 .. n : copy[b] = local_bufs'[r][b]
<1>1. /\ Len(local_bufs[r]) \in Nat /\ n <= Len(local_bufs[r])
      /\ Len(local_bufs[r]) <= Len(local_bufs'[r]) /\ Len(local_bufs'[r]) \in Nat
  BY DEF Types, Begins, Grows
<1>2. \A b \in 1 .. n : copy[b] = local_bufs'[r][b]
  BY <1>1 DEF Begins, Grows
<1> QED BY <1>1, <1>2

LEMMA OwnStep ==
    IInv /\ [Next]_vars => \A r \in Ranks : OwnTable(r)'
<1> SUFFICES ASSUME IInv, [Next]_vars, NEW r \in Ranks PROVE OwnTable(r)'
  OBVIOUS
<1>0. Types /\ OwnTable(r)
  BY DEF IInv, TablesAgree
<1>1. ASSUME NEW q \in Ranks, Malloc(q) PROVE OwnTable(r)'
  <2>1. CASE q = r
    <3>1. /\ Len(local_bufs[r]) \in Nat
          /\ Len(local_bufs'[r]) = Len(local_bufs[r]) + 1
      BY <1>1, <2>1, MallocFacts
    <3>2. ASSUME NEW b \in 1 .. Len(local_bufs'[r])
          PROVE  local_bufs'[r][b].key = <<r, b>> /\ local_bufs'[r][b].size = Sizes[b]
      <4>1. CASE b = Len(local_bufs[r]) + 1
        BY <1>1, <2>1, <4>1, MallocFacts
      <4>2. CASE b # Len(local_bufs[r]) + 1
        <5>1. b \in 1 .. Len(local_bufs[r])
          BY <3>1, <4>2
        <5>2. local_bufs'[r][b] = local_bufs[r][b]
          BY <1>1, <2>1, <5>1, MallocFacts
        <5> QED BY <1>0, <5>1, <5>2 DEF OwnTable
      <4> QED BY <4>1, <4>2
    <3> QED BY <3>2 DEF OwnTable
  <2>2. CASE q # r
    <3>1. local_bufs' = [local_bufs EXCEPT ![q] = local_bufs'[q]]
      BY <1>1, MallocFacts
    <3>2. local_bufs'[r] = local_bufs[r]
      BY <1>0, <2>2, <3>1 DEF Types
    <3> QED BY <1>0, <3>2 DEF OwnTable
  <2> QED BY <2>1, <2>2
<1>2. CASE UNCHANGED local_bufs
  BY <1>0, <1>2 DEF OwnTable
<1>3. ASSUME NEW q \in Ranks, MallocEnd(q) \/ Free(q) PROVE OwnTable(r)'
  BY <1>2, <1>3, MallocEndFacts, FreeFacts
<1> QED BY <1>1, <1>2, <1>3 DEF Next, vars, hostVars, Launch, KernelPut

LEMMA GivenStep ==
    IInv /\ [Next]_vars => \A r \in Ranks : GivenTables(r)'
<1> SUFFICES ASSUME IInv, [Next]_vars, NEW r \in Ranks PROVE GivenTables(r)'
  OBVIOUS
<1>0. Types /\ Types' /\ Grows /\ GivenTables(r)
  BY TypesStep, TableGrows DEF IInv, TablesAgree
<1> DEFINE n == Len(local_bufs[r])
<1>1. /\ n \in Nat /\ Len(sent[r]) = n /\ sent[r] \in Seq(Seq(Buf))
      /\ \A k \in 1 .. n : Len(sent[r][k]) = k /\ Begins(sent[r][k], k, r)
  BY <1>0 DEF GivenTables, Types
<1>2. ASSUME NEW q \in Ranks, Malloc(q), q = r PROVE GivenTables(r)'
  <2>1. /\ local_bufs'[r] \in Seq(Buf) /\ Len(local_bufs'[r]) = n + 1
        /\ sent' = [sent EXCEPT ![r] = Append(sent[r], local_bufs'[r])]
    BY <1>2, MallocFacts
  <2>2. sent'[r] = Append(sent[r], local_bufs'[r])
    BY <1>0, <2>1 DEF Types
  <2>3. /\ Len(sent'[r]) = n + 1 /\ sent'[r][n + 1] = local_bufs'[r]
        /\ \A k \in 1 .. n : sent'[r][k] = sent[r][k]
    BY <1>1, <2>1, <2>2
  <2>4. ASSUME NEW k \in 1 .. n + 1
        PROVE  Len(sent'[r][k]) = k /\ Begins(sent[r][k], k, r)'
    <3>1. CASE k = n + 1
      BY <1>1, <2>1, <2>3, <3>1 DEF Begins
    <3>2. CASE k # n + 1
      <4>1. k \in 1 .. n /\ k \in Nat
        BY <1>1, <3>2
      <4>2. /\ k <= Len(local_bufs'[r])
            /\ \A b \in 1 .. k : sent[r][k][b] = local_bufs'[r][b]
        BY <1>0, <1>1, <4>1, StillBegins
      <4> QED BY <1>1, <2>3, <4>1, <4>2 DEF Begins
    <3> QED BY <3>1, <3>2
  <2> QED BY <2>1, <2>3, <2>4 DEF GivenTables
<1>3. CASE sent'[r] = sent[r] /\ local_bufs'[r] = local_bufs[r]
  BY <1>0, <1>3 DEF GivenTables, Begins
<1>4. ASSUME NEW q \in Ranks, Malloc(q), q # r
      PROVE  sent'[r] = sent[r] /\ local_bufs'[r] = local_bufs[r]
  <2>1. /\ local_bufs' = [local_bufs EXCEPT ![q] = local_bufs'[q]]
        /\ sent' = [sent EXCEPT ![q] = Append(sent[q], local_bufs'[q])]
    BY <1>4, MallocFacts
  <2> QED BY <1>0, <1>4, <2>1 DEF Types
<1>5. ASSUME NEW q \in Ranks, MallocEnd(q) \/ Free(q)
      PROVE  sent'[r] = sent[r] /\ local_bufs'[r] = local_bufs[r]
  BY <1>5, MallocEndFacts, FreeFacts
<1> QED BY <1>2, <1>3, <1>4, <1>5 DEF Next, vars, hostVars, Launch, KernelPut

(* How many buffers of each rank a rank knows.                             *)
LEMMA ExchangedIs ==
    ASSUME IInv, NEW r \in Ranks
    PROVE  /\ Len(local_bufs[r]) \in Nat /\ Exchanged(r) \in Nat
           /\ Exchanged(r) <= Len(local_bufs[r])
           /\ host[r] # "exchange" => Exchanged(r) = Len(local_bufs[r])
<1>1. Len(local_bufs[r]) \in Nat
  BY DEF IInv, Types
<1>2. host[r] = "exchange" => Len(local_bufs[r]) > 0
  BY DEF IInv, Lengths
<1> QED BY <1>1, <1>2 DEF Exchanged

LEMMA TakenStep ==
    IInv /\ [Next]_vars => \A r \in Ranks : TakenTables(r)'
<1> SUFFICES ASSUME IInv, [Next]_vars, NEW r \in Ranks, NEW p \in Ranks
             PROVE  Begins(remote_bufs[r][p], Exchanged(r), p)'
  BY DEF TakenTables
<1>0. /\ Types /\ Types' /\ Grows
      /\ Begins(remote_bufs[r][p], Exchanged(r), p)
      /\ Exchanged(r) \in Nat
  <2>1. Types /\ Types' /\ Grows
    BY TypesStep, TableGrows DEF IInv
  <2>2. TakenTables(r)
    BY DEF IInv, TablesAgree
  <2>3. Exchanged(r) \in Nat
    BY ExchangedIs
  <2> QED BY <2>1, <2>2, <2>3 DEF TakenTables
<1>1. /\ Exchanged(r) <= Len(local_bufs'[p])
      /\ \A b \in 1 .. Exchanged(r) : remote_bufs[r][p][b] = local_bufs'[p][b]
  BY <1>0, StillBegins
<1>2. CASE Exchanged(r)' = Exchanged(r) /\ remote_bufs'[r] = remote_bufs[r]
  BY <1>1, <1>2 DEF Begins
<1>3. ASSUME NEW q \in Ranks, Malloc(q) PROVE Exchanged(r)' = Exchanged(r)
  <2>1. /\ Len(local_bufs[q]) \in Nat
        /\ Len(local_bufs'[q]) = Len(local_bufs[q]) + 1
        /\ local_bufs' = [local_bufs EXCEPT ![q] = local_bufs'[q]]
        /\ host[q] = "idle" /\ host' = [host EXCEPT ![q] = "exchange"]
    BY <1>3, MallocFacts DEF Malloc
  <2>2. CASE q = r
    BY <1>0, <2>1, <2>2 DEF Exchanged, Types
  <2>3. CASE q # r
    BY <1>0, <2>1, <2>3 DEF Exchanged, Types
  <2> QED BY <2>2, <2>3
<1>4. ASSUME NEW q \in Ranks, MallocEnd(q)
      PROVE  Begins(remote_bufs[r][p], Exchanged(r), p)'
  <2>1. /\ remote_bufs' = [remote_bufs EXCEPT ![q] =
                              [i \in Ranks |-> FromRank(q, i)]]
        /\ host[q] = "exchange" /\ host' = [host EXCEPT ![q] = "idle"]
        /\ UNCHANGED local_bufs
    BY <1>4, MallocEndFacts
  <2>2. CASE q = r
    <3>1. Exchanged(r)' = Len(local_bufs[r]) /\ remote_bufs'[r][p] = FromRank(r, p)
      BY <1>0, <2>1, <2>2 DEF Exchanged, Types
    <3>2. Begins(FromRank(r, p), Len(local_bufs[r]), p)
      BY <1>4, <2>2, GatheredFacts
    <3> QED BY <2>1, <3>1, <3>2 DEF Begins
  <2>3. CASE q # r
    BY <1>0, <1>2, <2>1, <2>3 DEF Exchanged, Types
  <2> QED BY <2>2, <2>3
<1>5. ASSUME NEW q \in Ranks, Free(q)
      PROVE  Exchanged(r)' = Exchanged(r) /\ remote_bufs'[r] = remote_bufs[r]
  BY <1>5, FreeFacts DEF Exchanged
<1>6. CASE UNCHANGED hostVars
  BY <1>2, <1>6 DEF Exchanged, hostVars
<1>7. ASSUME NEW q \in Ranks, Malloc(q) PROVE remote_bufs'[r] = remote_bufs[r]
  BY <1>7 DEF Malloc
<1> QED BY <1>2, <1>3, <1>4, <1>5, <1>6, <1>7 DEF Next, vars, Launch, KernelPut

LEMMA KernelTablesStep ==
    IInv /\ [Next]_vars => \A r \in Ranks : KernelTables(r)'
<1> SUFFICES ASSUME IInv, [Next]_vars, NEW r \in Ranks PROVE KernelTables(r)'
  OBVIOUS
<1>0. Types /\ Types' /\ Grows /\ KernelTables(r)
  <2>1. Types /\ KernelTables(r)
    BY DEF IInv, TablesAgree
  <2> QED BY <2>1, TypesStep, TableGrows
<1>1. CASE d_ctx'[r] = d_ctx[r]
  <2> DEFINE n == Len(d_ctx[r].local)
  <2>1. n \in Nat
    BY <1>0 DEF Types
  <2>2. /\ Begins(d_ctx[r].local, n, r)
        /\ \A p \in Ranks : Begins(d_ctx[r].remote[p], n, p)
    BY <1>0 DEF KernelTables
  <2> HIDE DEF n
  <2>3. /\ n <= Len(local_bufs'[r])
        /\ \A b \in 1 .. n : d_ctx[r].local[b] = local_bufs'[r][b]
    BY <1>0, <2>1, <2>2, StillBegins
  <2>4. ASSUME NEW p \in Ranks
        PROVE  /\ n <= Len(local_bufs'[p])
               /\ \A b \in 1 .. n : d_ctx[r].remote[p][b] = local_bufs'[p][b]
    BY <1>0, <2>1, <2>2, StillBegins
  <2> QED BY <1>1, <2>3, <2>4 DEF KernelTables, Begins, n
<1>2. ASSUME NEW q \in Ranks, Launch(q) PROVE KernelTables(r)'
  <2>1. CASE q = r /\ ctx_dirty[r]
    <3> DEFINE n == Len(local_bufs[r])
    <3>1. /\ d_ctx'[r] = [local |-> local_bufs[r], remote |-> remote_bufs[r]]
          /\ UNCHANGED local_bufs /\ host[r] = "idle"
      BY <1>0, <1>2, <2>1 DEF Launch, build_context, Types, hostVars
    <3>2. d_ctx'[r].local = local_bufs[r] /\ d_ctx'[r].remote = remote_bufs[r]
      BY <3>1
    <3>3. n \in Nat /\ Exchanged(r) = n
      BY <3>1, ExchangedIs
    <3>4. ASSUME NEW p \in Ranks PROVE Begins(remote_bufs[r][p], n, p)
      BY <3>3 DEF IInv, TablesAgree, TakenTables
    <3> QED BY <3>1, <3>2, <3>3, <3>4 DEF KernelTables, Begins
  <2>2. CASE ~(q = r /\ ctx_dirty[r])
    <3>1. d_ctx'[r] = d_ctx[r]
      BY <1>0, <1>2, <2>2 DEF Launch, Types
    <3> QED BY <1>1, <3>1
  <2> QED BY <2>1, <2>2
<1>3. ASSUME NEW q \in Ranks, MallocEnd(q) \/ Free(q) PROVE KernelTables(r)'
  BY <1>1, <1>3, MallocEndFacts, FreeFacts
<1>4. ASSUME NEW q \in Ranks, Malloc(q) \/ KernelPut(q) PROVE KernelTables(r)'
  BY <1>1, <1>4 DEF Malloc, KernelPut
<1>5. CASE UNCHANGED vars
  BY <1>1, <1>5 DEF vars
<1> QED BY <1>2, <1>3, <1>4, <1>5 DEF Next

(* What a rank allocated it has exchanged, and a context that is not dirty *)
(* knows.                                                                  *)
AllocsKnown(r) ==
    /\ allocs[r] \subseteq 1 .. Exchanged(r)
    /\ ~ctx_dirty[r] => allocs[r] \subseteq 1 .. Len(d_ctx[r].local)

LEMMA AllocStep ==
    IInv /\ [Next]_vars => \A r \in Ranks : AllocsKnown(r)'
<1> SUFFICES ASSUME IInv, [Next]_vars, NEW r \in Ranks PROVE AllocsKnown(r)'
  OBVIOUS
<1>0. Types /\ AllocsKnown(r)
  BY DEF IInv, TablesAgree, AllocsKnown
<1>e. /\ Len(local_bufs[r]) \in Nat /\ Exchanged(r) \in Nat
      /\ Exchanged(r) <= Len(local_bufs[r])
      /\ host[r] # "exchange" => Exchanged(r) = Len(local_bufs[r])
  BY ExchangedIs
<1>1. CASE /\ Exchanged(r)' = Exchanged(r) /\ allocs'[r] = allocs[r]
           /\ ctx_dirty'[r] = ctx_dirty[r] /\ d_ctx'[r] = d_ctx[r]
  BY <1>0, <1>1 DEF AllocsKnown
<1>2. ASSUME NEW q \in Ranks, Malloc(q) PROVE AllocsKnown(r)'
  <2>1. /\ Len(local_bufs[q]) \in Nat
        /\ Len(local_bufs'[q]) = Len(local_bufs[q]) + 1
        /\ local_bufs' = [local_bufs EXCEPT ![q] = local_bufs'[q]]
        /\ host[q] = "idle" /\ host' = [host EXCEPT ![q] = "exchange"]
        /\ UNCHANGED <<allocs, ctx_dirty, d_ctx>>
    BY <1>2, MallocFacts DEF Malloc
  <2>2. CASE q = r
    <3>1. Exchanged(r)' = Exchanged(r)
      BY <1>0, <2>1, <2>2 DEF Exchanged, Types
    <3> QED BY <1>1, <2>1, <3>1
  <2>3. CASE q # r
    <3>1. Exchanged(r)' = Exchanged(r)
      BY <1>0, <2>1, <2>3 DEF Exchanged, Types
    <3> QED BY <1>1, <2>1, <3>1
  <2> QED BY <2>2, <2>3
<1>3. ASSUME NEW q \in Ranks, MallocEnd(q) PROVE AllocsKnown(r)'
  <2>1. /\ allocs' = [allocs EXCEPT ![q] = allocs[q] \cup {Len(local_bufs[q])}]
        /\ ctx_dirty' = [ctx_dirty EXCEPT ![q] = TRUE]
        /\ host[q] = "exchange" /\ host' = [host EXCEPT ![q] = "idle"]
        /\ UNCHANGED <<local_bufs, d_ctx>>
    BY <1>3, MallocEndFacts
  <2>2. CASE q = r
    <3>1. Exchanged(r)' = Len(local_bufs[r])
      BY <1>0, <2>1, <2>2 DEF Exchanged, Types
    <3>2. /\ allocs'[r] = allocs[r] \cup {Len(local_bufs[r])}
          /\ ctx_dirty'[r] = TRUE
      BY <1>0, <2>1, <2>2 DEF Types
    <3>3. Len(local_bufs[r]) \in 1 .. Len(local_bufs[r])
      BY <1>3, <2>2, <1>e, GatheredFacts
    <3>4. allocs[r] \subseteq 1 .. Len(local_bufs[r])
      BY <1>0, <1>e DEF AllocsKnown
    <3> QED BY <3>1, <3>2, <3>3, <3>4 DEF AllocsKnown
  <2>3. CASE q # r
    <3>1. Exchanged(r)' = Exchanged(r)
      BY <1>0, <2>1, <2>3 DEF Exchanged, Types
    <3>2. allocs'[r] = allocs[r] /\ ctx_dirty'[r] = ctx_dirty[r]
      BY <1>0, <2>1, <2>3 DEF Types
    <3> QED BY <1>1, <2>1, <3>1, <3>2
  <2> QED BY <2>2, <2>3
<1>4. ASSUME NEW q \in Ranks, Free(q) PROVE AllocsKnown(r)'
  <2>1. PICK b \in allocs[q] : allocs' = [allocs EXCEPT ![q] = allocs[q] \ {b}]
    BY <1>4, FreeFacts
  <2>2. /\ ctx_dirty' = [ctx_dirty EXCEPT ![q] = TRUE]
        /\ UNCHANGED <<local_bufs, host, d_ctx>>
    BY <1>4, FreeFacts
  <2>3. Exchanged(r)' = Exchanged(r)
    BY <2>2 DEF Exchanged
  <2>4. allocs'[r] \subseteq allocs[r]
    BY <1>0, <2>1 DEF Types
  <2>5. ctx_dirty'[r] = TRUE \/ ctx_dirty'[r] = ctx_dirty[r]
    BY <1>0, <2>2 DEF Types
  <2>6. d_ctx'[r] = d_ctx[r]
    BY <2>2
  <2> QED BY <1>0, <2>3, <2>4, <2>5, <2>6 DEF AllocsKnown
<1>5. ASSUME NEW q \in Ranks, Launch(q) PROVE AllocsKnown(r)'
  <2>1. /\ host[q] = "idle" /\ UNCHANGED hostVars
        /\ d_ctx' = [d_ctx EXCEPT ![q] = IF ctx_dirty[q] THEN build_context(q)
                                         ELSE d_ctx[q]]
        /\ ctx_dirty' = [ctx_dirty EXCEPT ![q] = FALSE]
    BY <1>5 DEF Launch
  <2>2. Exchanged(r)' = Exchanged(r) /\ allocs'[r] = allocs[r]
    BY <2>1 DEF Exchanged, hostVars
  <2>3. CASE q = r /\ ctx_dirty[r]
    <3>1. d_ctx'[r] = build_context(r)
      BY <1>0, <2>1, <2>3 DEF Types
    <3>2. d_ctx'[r].local = local_bufs[r]
      BY <3>1 DEF build_context
    <3>3. Exchanged(r) = Len(local_bufs[r])
      BY <1>e, <2>1, <2>3
    <3> QED BY <1>0, <2>2, <3>2, <3>3 DEF AllocsKnown
  <2>4. CASE ~(q = r /\ ctx_dirty[r])
    <3>1. d_ctx'[r] = d_ctx[r]
      BY <1>0, <2>1, <2>4 DEF Types
    <3>2. ctx_dirty'[r] => ctx_dirty[r]
      BY <1>0, <2>1, <2>4 DEF Types
    <3>3. ctx_dirty[r] => ctx_dirty'[r]
      BY <1>0, <2>1, <2>4 DEF Types
    <3> QED BY <1>0, <2>2, <3>1, <3>2, <3>3 DEF AllocsKnown
  <2> QED BY <2>3, <2>4
<1>6. CASE UNCHANGED <<hostVars, ctx_dirty, d_ctx>>
  BY <1>1, <1>6 DEF Exchanged, hostVars
<1>7. ASSUME NEW q \in Ranks, KernelPut(q) PROVE AllocsKnown(r)'
  BY <1>6, <1>7 DEF KernelPut
<1> QED BY <1>2, <1>3, <1>4, <1>5, <1>6, <1>7 DEF Next, vars

LEMMA TablesStep == IInv /\ [Next]_vars => TablesAgree'
<1> SUFFICES ASSUME IInv, [Next]_vars PROVE TablesAgree'
  OBVIOUS
<1>1. \A r \in Ranks : OwnTable(r)' /\ GivenTables(r)' /\ TakenTables(r)'
                          /\ KernelTables(r)' /\ AllocsKnown(r)'
  BY OwnStep, GivenStep, TakenStep, KernelTablesStep, AllocStep
<1> QED BY <1>1 DEF TablesAgree, AllocsKnown

-----------------------------------------------------------------------------
(* The span of a buffer stays when its rank's table grows, and a kernel's  *)
(* buffers stay in their tables.                                           *)
LEMMA InBufferStays ==
    ASSUME IInv, [Next]_vars, NEW r \in Ranks, NEW b, NEW a, InBuffer(a, r, b)
    PROVE  /\ b \in 1 .. Len(local_bufs'[r])
           /\ a \in local_bufs'[r][b].addr
                      .. local_bufs'[r][b].addr + local_bufs'[r][b].size - 1
<1>1. Types /\ Types' /\ Grows
  BY TypesStep, TableGrows DEF IInv
<1>2. /\ Len(local_bufs[r]) \in Nat /\ Len(local_bufs'[r]) \in Nat
      /\ b \in 1 .. Len(local_bufs[r])
      /\ Len(local_bufs[r]) <= Len(local_bufs'[r])
      /\ local_bufs'[r][b] = local_bufs[r][b]
  BY <1>1 DEF Types, Grows, InBuffer
<1>3. b \in 1 .. Len(local_bufs'[r])
  BY <1>2
<1> QED BY <1>2, <1>3 DEF InBuffer, Span

(* The buffers that a launch names, and the addresses in them.             *)
LEMMA LaunchFacts ==
    ASSUME IInv, NEW r \in Ranks, Launch(r)
    PROVE  \E from, to \in 1 .. Len(local_bufs[r]), peer \in Ranks :
              \E src, dst \in Int :
                 /\ InBuffer(src, r, from) /\ InBuffer(dst, peer, to)
                 /\ from \in 1 .. Len(d_ctx'[r].local)
                 /\ to \in 1 .. Len(d_ctx'[r].local)
                 /\ kernel' = [kernel EXCEPT ![r] =
                        [state |-> "running", peer |-> peer, from |-> from,
                         to |-> to, src |-> src, dst |-> dst]]
<1>1. Types /\ TablesAgree
  BY DEF IInv
<1>2. /\ host[r] = "idle" /\ Exchanged(r) = Len(local_bufs[r])
      /\ Len(local_bufs[r]) \in Nat
  BY ExchangedIs DEF Launch
<1>3. PICK from \in allocs[r], to \in allocs[r], peer \in Ranks :
         /\ to \in Live(peer)
         /\ \E i \in 0 .. Sizes[from] - 1, j \in 0 .. Sizes[to] - 1 :
               kernel' = [kernel EXCEPT ![r] =
                   [state |-> "running", peer |-> peer, from |-> from, to |-> to,
                    src |-> local_bufs[r][from].addr + i,
                    dst |-> remote_ptr(r, to, peer) + j]]
  BY DEF Launch
<1>4. PICK i \in 0 .. Sizes[from] - 1, j \in 0 .. Sizes[to] - 1 :
         kernel' = [kernel EXCEPT ![r] =
             [state |-> "running", peer |-> peer, from |-> from, to |-> to,
              src |-> local_bufs[r][from].addr + i,
              dst |-> remote_ptr(r, to, peer) + j]]
  BY <1>3
<1>5. from \in 1 .. Len(local_bufs[r]) /\ to \in 1 .. Len(local_bufs[r])
  BY <1>1, <1>2 DEF TablesAgree
<1>6. Begins(remote_bufs[r][peer], Len(local_bufs[r]), peer)
  BY <1>1, <1>2 DEF TablesAgree, TakenTables
<1>7. /\ to \in 1 .. Len(local_bufs[peer])
      /\ remote_ptr(r, to, peer) = local_bufs[peer][to].addr
  <2>1. Len(local_bufs[peer]) \in Nat /\ Len(local_bufs[r]) <= Len(local_bufs[peer])
    BY <1>1, <1>6 DEF Begins, Types
  <2> QED BY <1>2, <1>5, <1>6, <2>1 DEF Begins, remote_ptr
<1>8. /\ local_bufs[r][from] \in Buf /\ local_bufs[r][from].size = Sizes[from]
      /\ local_bufs[peer][to] \in Buf /\ local_bufs[peer][to].size = Sizes[to]
  <2>1. OwnTable(r) /\ OwnTable(peer)
    BY <1>1 DEF TablesAgree
  <2>2. local_bufs[r] \in Seq(Buf) /\ local_bufs[peer] \in Seq(Buf)
    BY <1>1 DEF Types
  <2> QED BY <1>5, <1>7, <2>1, <2>2 DEF OwnTable
<1>9. /\ local_bufs[r][from].addr \in Nat /\ local_bufs[peer][to].addr \in Nat
      /\ Sizes[from] \in Nat /\ Sizes[to] \in Nat
  BY <1>8 DEF Buf
<1>10. /\ InBuffer(local_bufs[r][from].addr + i, r, from)
       /\ InBuffer(local_bufs[peer][to].addr + j, peer, to)
  <2>1. ASSUME NEW x \in Nat, NEW z \in Nat, NEW k \in 0 .. z - 1
        PROVE  x + k \in x .. x + z - 1
    OBVIOUS
  <2>2. /\ local_bufs[r][from].addr + i \in Span(local_bufs[r][from])
        /\ local_bufs[peer][to].addr + j \in Span(local_bufs[peer][to])
    BY <1>8, <1>9, <2>1 DEF Span
  <2> QED BY <1>5, <1>7, <2>2 DEF InBuffer
<1>11. from \in 1 .. Len(d_ctx'[r].local) /\ to \in 1 .. Len(d_ctx'[r].local)
  <2>1. CASE ctx_dirty[r]
    <3>1. d_ctx'[r] = [local |-> local_bufs[r], remote |-> remote_bufs[r]]
      BY <1>1, <2>1 DEF Launch, Types, build_context
    <3>2. d_ctx'[r].local = local_bufs[r]
      BY <3>1
    <3> QED BY <1>5, <3>2
  <2>2. CASE ~ctx_dirty[r]
    <3>1. d_ctx'[r] = d_ctx[r]
      BY <1>1, <2>2 DEF Launch, Types
    <3> QED BY <1>1, <2>2, <3>1 DEF TablesAgree
  <2> QED BY <2>1, <2>2
<1>12. /\ local_bufs[r][from].addr + i \in Int
       /\ local_bufs[peer][to].addr + j \in Int
  BY <1>9
<1>13. kernel' = [kernel EXCEPT ![r] =
           [state |-> "running", peer |-> peer, from |-> from, to |-> to,
            src |-> local_bufs[r][from].addr + i,
            dst |-> local_bufs[peer][to].addr + j]]
  BY <1>4, <1>7
<1> QED BY <1>5, <1>10, <1>11, <1>12, <1>13

LEMMA PutStep == IInv /\ [Next]_vars => \A r \in Ranks : PutInBuffers(r)'
<1> SUFFICES ASSUME IInv, [Next]_vars, NEW r \in Ranks PROVE PutInBuffers(r)'
  OBVIOUS
<1>0. Types /\ PutInBuffers(r)
  BY DEF IInv
<1>1. ASSUME kernel'[r] = kernel[r], d_ctx'[r] = d_ctx[r] PROVE PutInBuffers(r)'
  <2> SUFFICES ASSUME kernel[r].state \in {"running", "done"}
               PROVE  PutInBuffers(r)'
    BY <1>1 DEF PutInBuffers
  <2>1. /\ kernel[r].peer \in Ranks
        /\ InBuffer(kernel[r].src, r, kernel[r].from)
        /\ InBuffer(kernel[r].dst, kernel[r].peer, kernel[r].to)
    BY <1>0 DEF PutInBuffers
  <2>2. /\ InBuffer(kernel[r].src, r, kernel[r].from)'
        /\ InBuffer(kernel[r].dst, kernel[r].peer, kernel[r].to)'
    BY <1>1, <2>1, InBufferStays DEF InBuffer, Span
  <2> QED BY <1>0, <1>1, <2>1, <2>2 DEF PutInBuffers
<1>2. ASSUME NEW q \in Ranks, Launch(q) PROVE PutInBuffers(r)'
  <2>1. CASE q = r
    <3>1. PICK from \in 1 .. Len(local_bufs[r]), to \in 1 .. Len(local_bufs[r]),
               peer \in Ranks, src \in Int, dst \in Int :
                 /\ InBuffer(src, r, from) /\ InBuffer(dst, peer, to)
                 /\ from \in 1 .. Len(d_ctx'[r].local)
                 /\ to \in 1 .. Len(d_ctx'[r].local)
                 /\ kernel' = [kernel EXCEPT ![r] =
                        [state |-> "running", peer |-> peer, from |-> from,
                         to |-> to, src |-> src, dst |-> dst]]
      BY <1>2, <2>1, LaunchFacts
    <3>2. kernel'[r] = [state |-> "running", peer |-> peer, from |-> from,
                        to |-> to, src |-> src, dst |-> dst]
      BY <1>0, <3>1 DEF Types
    <3>3. /\ kernel'[r].peer = peer /\ kernel'[r].src = src /\ kernel'[r].dst = dst
          /\ kernel'[r].from = from /\ kernel'[r].to = to
      BY <3>2
    <3>4. local_bufs' = local_bufs
      BY <1>2 DEF Launch, hostVars
    <3> QED BY <3>1, <3>3, <3>4 DEF PutInBuffers, InBuffer, Span
  <2>2. CASE q # r
    <3>1. kernel'[r] = kernel[r]
      BY <1>0, <1>2, <2>2 DEF Launch, Types
    <3>2. d_ctx'[r] = d_ctx[r]
      BY <1>0, <1>2, <2>2 DEF Launch, Types
    <3> QED BY <1>1, <3>1, <3>2
  <2> QED BY <2>1, <2>2
<1>3. ASSUME NEW q \in Ranks, KernelPut(q) PROVE PutInBuffers(r)'
  <2>1. CASE q = r
    <3>1. /\ kernel'[r].state = "done" /\ kernel'[r].peer = kernel[r].peer
          /\ kernel'[r].src = kernel[r].src /\ kernel'[r].from = kernel[r].from
          /\ kernel'[r].dst = kernel[r].dst /\ kernel'[r].to = kernel[r].to
      BY <1>0, <1>3, <2>1 DEF KernelPut, Types
    <3>2. kernel[r].state = "running" /\ local_bufs' = local_bufs
      BY <1>3, <2>1 DEF KernelPut, Running, hostVars
    <3> QED BY <1>0, <3>1, <3>2 DEF PutInBuffers, InBuffer, Span
  <2>2. CASE q # r
    <3>1. kernel'[r] = kernel[r] /\ d_ctx'[r] = d_ctx[r]
      BY <1>0, <1>3, <2>2 DEF KernelPut, Types
    <3> QED BY <1>1, <3>1
  <2> QED BY <2>1, <2>2
<1>4. ASSUME NEW q \in Ranks, MallocEnd(q) \/ Free(q) PROVE PutInBuffers(r)'
  BY <1>1, <1>4, MallocEndFacts, FreeFacts
<1>5. ASSUME NEW q \in Ranks, Malloc(q) PROVE PutInBuffers(r)'
  BY <1>1, <1>5 DEF Malloc
<1>6. CASE UNCHANGED vars
  BY <1>1, <1>6 DEF vars
<1> QED BY <1>2, <1>3, <1>4, <1>5, <1>6 DEF Next

(* The look-ups return the key of the buffer the address is in, when no    *)
(* buffer before it in the table has the address.                          *)
LEMMA HitsFirst ==
    ASSUME NEW n \in Nat, NEW I \in SUBSET (1 .. n), NEW b \in I,
           \A older \in 1 .. b - 1 : older \notin I
    PROVE  I # {} /\ First(I) = b
<1>1. I \in SUBSET Nat
  OBVIOUS
<1>2. \A i \in I : b <= i
  <2>1. ASSUME NEW i \in I, ~(b <= i) PROVE FALSE
    <3>1. i \in 1 .. b - 1
      BY <2>1
    <3> QED BY <3>1
  <2> QED BY <2>1
<1> QED BY <1>1, <1>2, FirstIs

(* An entry has the addresses from its first to the one before its end.    *)
LEMMA EntryIsSpan ==
    ASSUME NEW base \in Nat, NEW size \in Nat, NEW a \in Int
    PROVE  InEntry(base, size, a) <=> a \in base .. base + size - 1
BY DEF InEntry

LEMMA PutFindsKeys ==
    ASSUME IInv, NEW r \in Ranks, Running(r)
    PROVE  LET k == kernel[r] IN
           /\ ~Recycled(r, k.from, k.src)
                 => find_lkey(d_ctx[r], k.src) = <<r, k.from>>
           /\ ~Recycled(k.peer, k.to, k.dst)
                 => find_rkey(d_ctx[r], k.peer, k.dst) = <<k.peer, k.to>>
<1> DEFINE ctx == d_ctx[r]
           n == Len(ctx.local)
           p == kernel[r].peer
           src == kernel[r].src
           dst == kernel[r].dst
           from == kernel[r].from
           to == kernel[r].to
<1>1. /\ p \in Ranks /\ InBuffer(src, r, from) /\ InBuffer(dst, p, to)
      /\ from \in 1 .. n /\ to \in 1 .. n
  BY DEF IInv, PutInBuffers, Running
<1>2. Types /\ OwnTable(r) /\ OwnTable(p) /\ KernelTables(r)
  BY <1>1 DEF IInv, TablesAgree
<1>3. /\ n \in Nat /\ DOMAIN ctx.local = 1 .. n
      /\ local_bufs[r] \in Seq(Buf) /\ local_bufs[p] \in Seq(Buf)
  BY <1>1, <1>2 DEF Types
<1>4. /\ n <= Len(local_bufs[r]) /\ n <= Len(local_bufs[p])
      /\ \A b \in 1 .. n : /\ ctx.local[b] = local_bufs[r][b]
                           /\ ctx.remote[p][b] = local_bufs[p][b]
  BY <1>1, <1>2 DEF KernelTables, Begins
<1>5. \A b \in 1 .. n : /\ b \in 1 .. Len(local_bufs[r])
                        /\ b \in 1 .. Len(local_bufs[p])
  BY <1>3, <1>4
<1>6. \A b \in 1 .. n : /\ local_bufs[r][b].key = <<r, b>>
                        /\ local_bufs[p][b].key = <<p, b>>
                        /\ local_bufs[r][b].size = local_bufs[p][b].size
  BY <1>2, <1>5 DEF OwnTable
<1>7. \A b \in 1 .. n : /\ local_bufs[r][b].addr \in Nat
                        /\ local_bufs[r][b].size \in Nat
                        /\ local_bufs[p][b].addr \in Nat
                        /\ local_bufs[p][b].size \in Nat
  <2>1. \A b \in 1 .. n : local_bufs[r][b] \in Buf /\ local_bufs[p][b] \in Buf
    BY <1>3, <1>5
  <2> QED BY <2>1 DEF Buf
<1>8. src \in Int /\ dst \in Int
  BY <1>1, <1>7 DEF InBuffer, Span
<1> HIDE DEF ctx, n, p, src, dst, from, to
<1>9. ASSUME ~Recycled(r, from, src) PROVE find_lkey(ctx, src) = <<r, from>>
  <2> DEFINE Hit(i) == InEntry(ctx.local[i].addr, ctx.local[i].size, src)
  <2>1. ASSUME NEW i \in 1 .. n PROVE Hit(i) <=> src \in Span(local_bufs[r][i])
    <3>1. Hit(i) <=> InEntry(local_bufs[r][i].addr, local_bufs[r][i].size, src)
      BY <1>4
    <3> QED BY <1>7, <1>8, <3>1, EntryIsSpan DEF Span
  <2>2. Hit(from)
    BY <1>1, <2>1 DEF InBuffer
  <2>3. \A older \in 1 .. from - 1 : ~Hit(older)
    <3>1. \A older \in 1 .. from - 1 : older \in 1 .. n
      BY <1>1, <1>3
    <3> QED BY <1>9, <2>1, <3>1 DEF Recycled
  <2> HIDE DEF Hit
  <2>4. /\ {i \in 1 .. n : Hit(i)} # {}
        /\ First({i \in 1 .. n : Hit(i)}) = from
    <3> DEFINE I == {i \in 1 .. n : Hit(i)}
    <3>1. I \in SUBSET (1 .. n) /\ from \in I
      BY <1>1, <2>2
    <3>2. \A older \in 1 .. from - 1 : older \notin I
      BY <2>3
    <3> HIDE DEF I
    <3>3. I # {} /\ First(I) = from
      BY <1>3, <3>1, <3>2, HitsFirst
    <3> QED BY <3>3 DEF I
  <2>5. find_lkey(ctx, src) = ctx.local[from].key
    BY <1>3, <2>4 DEF find_lkey, Hit
  <2> QED BY <1>1, <1>4, <1>6, <2>5
<1>10. ASSUME ~Recycled(p, to, dst) PROVE find_rkey(ctx, p, dst) = <<p, to>>
  <2> DEFINE Hit(i) == InEntry(ctx.remote[p][i].addr, ctx.local[i].size, dst)
  <2>1. ASSUME NEW i \in 1 .. n PROVE Hit(i) <=> dst \in Span(local_bufs[p][i])
    <3>1. Hit(i) <=> InEntry(local_bufs[p][i].addr, local_bufs[p][i].size, dst)
      BY <1>4, <1>6
    <3> QED BY <1>7, <1>8, <3>1, EntryIsSpan DEF Span
  <2>2. Hit(to)
    BY <1>1, <2>1 DEF InBuffer
  <2>3. \A older \in 1 .. to - 1 : ~Hit(older)
    <3>1. \A older \in 1 .. to - 1 : older \in 1 .. n
      BY <1>1, <1>3
    <3> QED BY <1>10, <2>1, <3>1 DEF Recycled
  <2> HIDE DEF Hit
  <2>4. /\ {i \in 1 .. n : Hit(i)} # {}
        /\ First({i \in 1 .. n : Hit(i)}) = to
    <3> DEFINE I == {i \in 1 .. n : Hit(i)}
    <3>1. I \in SUBSET (1 .. n) /\ to \in I
      BY <1>1, <2>2
    <3>2. \A older \in 1 .. to - 1 : older \notin I
      BY <2>3
    <3> HIDE DEF I
    <3>3. I # {} /\ First(I) = to
      BY <1>3, <3>1, <3>2, HitsFirst
    <3> QED BY <3>3 DEF I
  <2>5. find_rkey(ctx, p, dst) = ctx.remote[p][to].key
    BY <1>3, <2>4 DEF find_rkey, Hit
  <2> QED BY <1>1, <1>4, <1>6, <2>5
<1> QED BY <1>9, <1>10 DEF ctx, p, src, dst, from, to

(* The older buffers of a rank stay what they are, so an address that was  *)
(* in one of them still is.                                                *)
LEMMA RecycledStays ==
    ASSUME IInv, [Next]_vars, NEW r \in Ranks, NEW b \in 1 .. Len(local_bufs[r]),
           NEW a, Recycled(r, b, a)
    PROVE  \E older \in 1 .. b - 1 : a \in Span(local_bufs'[r][older])
<1>1. PICK older \in 1 .. b - 1 : a \in Span(local_bufs[r][older])
  BY DEF Recycled
<1>2. Len(local_bufs[r]) \in Nat
  BY ExchangedIs
<1>3. older \in 1 .. Len(local_bufs[r])
  BY <1>2
<1>4. local_bufs'[r][older] = local_bufs[r][older]
  BY <1>3, TableGrows DEF Grows
<1> QED BY <1>1, <1>4

(* A rank's put has its keys, or the addresses are recycled.               *)
ExactPut(r) ==
    kernel[r].state = "done" =>
        /\ ~Recycled(r, kernel[r].from, kernel[r].src)
              => kernel[r].lkey = <<r, kernel[r].from>>
        /\ ~Recycled(kernel[r].peer, kernel[r].to, kernel[r].dst)
              => kernel[r].rkey = <<kernel[r].peer, kernel[r].to>>

LEMMA ExactStep == IInv /\ [Next]_vars => LookupIsExact'
<1> SUFFICES ASSUME IInv, [Next]_vars, NEW r \in Ranks PROVE ExactPut(r)'
  BY DEF LookupIsExact, ExactPut
<1>0. Types /\ ExactPut(r) /\ PutInBuffers(r)
  BY DEF IInv, LookupIsExact, ExactPut
<1>1. ASSUME kernel'[r] = kernel[r] PROVE ExactPut(r)'
  <2> SUFFICES ASSUME kernel[r].state = "done" PROVE ExactPut(r)'
    BY <1>1 DEF ExactPut
  <2>1. /\ kernel[r].peer \in Ranks
        /\ kernel[r].from \in 1 .. Len(local_bufs[r])
        /\ kernel[r].to \in 1 .. Len(local_bufs[kernel[r].peer])
    BY <1>0 DEF PutInBuffers, InBuffer
  <2>2. /\ Recycled(r, kernel[r].from, kernel[r].src)
              => Recycled(r, kernel[r].from, kernel[r].src)'
        /\ Recycled(kernel[r].peer, kernel[r].to, kernel[r].dst)
              => Recycled(kernel[r].peer, kernel[r].to, kernel[r].dst)'
    BY <1>1, <2>1, RecycledStays DEF Recycled, Span
  <2> QED BY <1>0, <1>1, <2>2 DEF ExactPut
<1>2. ASSUME NEW q \in Ranks, KernelPut(q) PROVE ExactPut(r)'
  <2>1. CASE q = r
    <3>1. /\ kernel'[r].peer = kernel[r].peer
          /\ kernel'[r].src = kernel[r].src /\ kernel'[r].from = kernel[r].from
          /\ kernel'[r].dst = kernel[r].dst /\ kernel'[r].to = kernel[r].to
          /\ kernel'[r].lkey = find_lkey(d_ctx[r], kernel[r].src)
          /\ kernel'[r].rkey = find_rkey(d_ctx[r], kernel[r].peer, kernel[r].dst)
      BY <1>0, <1>2, <2>1 DEF KernelPut, Types
    <3>2. Running(r) /\ local_bufs' = local_bufs
      BY <1>2, <2>1 DEF KernelPut, hostVars
    <3>3. /\ ~Recycled(r, kernel[r].from, kernel[r].src)
                => find_lkey(d_ctx[r], kernel[r].src) = <<r, kernel[r].from>>
          /\ ~Recycled(kernel[r].peer, kernel[r].to, kernel[r].dst)
                => find_rkey(d_ctx[r], kernel[r].peer, kernel[r].dst)
                      = <<kernel[r].peer, kernel[r].to>>
      BY <3>2, PutFindsKeys
    <3> QED BY <3>1, <3>2, <3>3 DEF ExactPut, Recycled, Span
  <2>2. CASE q # r
    <3>1. kernel'[r] = kernel[r]
      BY <1>0, <1>2, <2>2 DEF KernelPut, Types
    <3> QED BY <1>1, <3>1
  <2> QED BY <2>1, <2>2
<1>3. ASSUME NEW q \in Ranks, Launch(q) PROVE ExactPut(r)'
  <2>1. CASE q = r
    <3>1. kernel'[r].state = "running"
      BY <1>0, <1>3, <2>1 DEF Launch, Types
    <3> QED BY <3>1 DEF ExactPut
  <2>2. CASE q # r
    <3>1. kernel'[r] = kernel[r]
      BY <1>0, <1>3, <2>2 DEF Launch, Types
    <3> QED BY <1>1, <3>1
  <2> QED BY <2>1, <2>2
<1>4. ASSUME NEW q \in Ranks, MallocEnd(q) \/ Free(q) PROVE ExactPut(r)'
  BY <1>1, <1>4, MallocEndFacts, FreeFacts
<1>5. ASSUME NEW q \in Ranks, Malloc(q) PROVE ExactPut(r)'
  BY <1>1, <1>5 DEF Malloc
<1>6. CASE UNCHANGED vars
  BY <1>1, <1>6 DEF vars
<1> QED BY <1>2, <1>3, <1>4, <1>5, <1>6 DEF Next

-----------------------------------------------------------------------------
LEMMA InitHolds == Init => IInv
<1> SUFFICES ASSUME Init PROVE IInv
  OBVIOUS
<1>1. <<>> \in Seq(Buf) /\ <<>> \in Seq(Seq(Buf)) /\ Len(<<>>) = 0
  OBVIOUS
<1>2. [p \in Ranks |-> <<>>] \in [Ranks -> Seq(Buf)]
  BY <1>1
<1>3. Types
  <2>1. host \in [Ranks -> {"idle", "exchange", "aborted"}]
    BY DEF Init
  <2>2. local_bufs \in [Ranks -> Seq(Buf)] /\ sent \in [Ranks -> Seq(Seq(Buf))]
    BY <1>1 DEF Init
  <2>3. remote_bufs \in [Ranks -> [Ranks -> Seq(Buf)]]
    BY <1>2 DEF Init
  <2>4. d_ctx \in [Ranks -> [local : Seq(Buf), remote : [Ranks -> Seq(Buf)]]]
    BY <1>1, <1>2 DEF Init
  <2> QED BY <2>1, <2>2, <2>3, <2>4 DEF Init, Types
<1>4. ASSUME NEW r \in Ranks
      PROVE  /\ host[r] = "idle" /\ Len(local_bufs[r]) = 0 /\ Len(sent[r]) = 0
             /\ allocs[r] = {} /\ kernel[r] = NoKernel
             /\ Len(d_ctx[r].local) = 0
  BY <1>1 DEF Init
<1>5. Lengths
  <2>1. Len(Sizes) \in Nat /\ 0 <= Len(Sizes)
    BY ClientAssumption
  <2>2. ASSUME NEW r \in Ranks
        PROVE  /\ Len(local_bufs[r]) <= Len(Sizes)
               /\ host[r] = "exchange" => Len(local_bufs[r]) > 0
    <3>1. Len(local_bufs[r]) = 0 /\ host[r] = "idle"
      BY <1>4
    <3> QED BY <2>1, <3>1
  <2> QED BY <2>2 DEF Lengths
<1>6. NoRankAborts
  BY <1>4 DEF NoRankAborts
<1>7. LookupIsExact /\ \A r \in Ranks : PutInBuffers(r)
  BY <1>4 DEF LookupIsExact, PutInBuffers, NoKernel
<1>8. TablesAgree
  <2>1. ASSUME NEW r \in Ranks
        PROVE  /\ OwnTable(r) /\ GivenTables(r) /\ TakenTables(r)
               /\ KernelTables(r) /\ Exchanged(r) = 0
    <3>1. Exchanged(r) = 0
      BY <1>4 DEF Exchanged
    <3>2. \A copy : \A p \in Ranks : Begins(copy, 0, p)
      BY <1>4 DEF Begins
    <3> QED BY <1>4, <3>1, <3>2 DEF OwnTable, GivenTables, TakenTables, KernelTables
  <2> QED BY <1>4, <2>1 DEF TablesAgree
<1> QED BY <1>3, <1>5, <1>6, <1>7, <1>8 DEF IInv

LEMMA Step == IInv /\ [Next]_vars => IInv'
<1> SUFFICES ASSUME IInv, [Next]_vars PROVE IInv'
  OBVIOUS
<1>1. \A r \in Ranks : PutInBuffers(r)'
  BY PutStep
<1> QED BY <1>1, TypesStep, LengthsStep, TablesStep, NoAbortStep, ExactStep DEF IInv

(* The inductive invariant.  The tables of malloc(), exchange() and        *)
(* build_context() agree, and a kernel's put is in buffers it names.       *)
THEOREM Invariance == Spec => []IInv
<1> QED BY InitHolds, Step, PTL DEF Spec

(* Whatever the ranks malloc and free, in whatever order, every copy of a  *)
(* table is the beginning of its owner's (exchange(), build_context()).    *)
THEOREM TablesTheorem == Spec => []TablesAgree
<1>1. IInv => TablesAgree
  BY DEF IInv
<1> QED BY <1>1, Invariance, PTL

(* A put finds the keys of the buffers that the client named, on its own   *)
(* rank and on the peer (find_lkey(), find_rkey()).                        *)
THEOREM LookupTheorem == Spec => []LookupIsExact
<1>1. IInv => LookupIsExact
  BY DEF IInv
<1> QED BY <1>1, Invariance, PTL

(* The count that exchange() checks is never wrong.                        *)
THEOREM NoAbort == Spec => []NoRankAborts
<1>1. IInv => NoRankAborts
  BY DEF IInv
<1> QED BY <1>1, Invariance, PTL
=============================================================================
