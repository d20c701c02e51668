---------------------------- MODULE Mlx5Registry ----------------------------
(***************************************************************************)
(* The memory of the simplified MLX5 interface: gicc::malloc, free,        *)
(* context and remote_ptr (platform/mlx5/gicc_api.hpp) over the buffer     *)
(* table of Runtime (platform/mlx5/mlx5_runtime.hpp), and the look-up of   *)
(* keys that put() makes on the GPU (platform/mlx5/gicc_context.cuh).      *)
(*                                                                         *)
(* malloc is collective: every rank registers a buffer, and an allgather   *)
(* tells all ranks the addresses and keys of all buffers.  free is local:  *)
(* it gives the memory back and leaves the registration where it is.  A    *)
(* kernel gets a copy of the tables, and finds a key by the first entry    *)
(* whose range holds the address.                                          *)
(*                                                                         *)
(* An address is a cell of one rank's memory, and two ranks may well have  *)
(* the same address.  A key stands for the registration it was made by.    *)
(***************************************************************************)
EXTENDS Integers, Sequences

CONSTANTS
    Ranks,
    Senders,        \* bound: the ranks whose kernels put
    Cells,          \* addresses of one rank's memory
    Sizes,          \* Sizes[n] is the size of the n-th malloc on every rank
    GICC_MAX_BUFS   \* entries of the tables in GiccContext

ASSUME MemoryAssumption == Cells \subseteq Nat
ASSUME SendersAssumption == Senders \subseteq Ranks
(* The client makes all its mallocs, freed ones included, fit the tables:  *)
(* build_context() fills no more, but counts all of them.                  *)
ASSUME ClientAssumption ==
    /\ GICC_MAX_BUFS \in Nat
    /\ Sizes \in Seq(Nat \ {0}) /\ Len(Sizes) <= GICC_MAX_BUFS

VARIABLES
    host,         \* "idle", "exchange" (in malloc), "aborted"
    local_bufs,   \* Runtime::local_bufs_, never shorter
    sent,         \* what each rank gave to each of its allgathers
    remote_bufs,  \* Runtime::remote_bufs_ of each rank, by peer
    allocs,       \* GlobalState's allocs and buf_indices, as the indices
    ctx_dirty,
    d_ctx,        \* the tables of the last build_context()
    kernel        \* the rank's kernel: one put

hostVars == <<host, local_bufs, sent, remote_bufs, allocs>>
vars == <<hostVars, ctx_dirty, d_ctx, kernel>>

NoKernel == [state |-> "none"]

Init ==
    /\ host = [r \in Ranks |-> "idle"]
    /\ local_bufs = [r \in Ranks |-> <<>>]
    /\ sent = [r \in Ranks |-> <<>>]
    /\ remote_bufs = [r \in Ranks |-> [p \in Ranks |-> <<>>]]
    /\ allocs = [r \in Ranks |-> {}]
    /\ ctx_dirty = [r \in Ranks |-> TRUE]
    /\ d_ctx = [r \in Ranks |-> [local |-> <<>>,
                              remote |-> [p \in Ranks |-> <<>>]]]
    /\ kernel = [r \in Ranks |-> NoKernel]

-----------------------------------------------------------------------------
(* The memory.  A buffer of a malloc that waits in exchange() is live too. *)
Span(buf) == buf.addr .. buf.addr + buf.size - 1

Live(r) ==
    allocs[r] \cup IF host[r] = "exchange" THEN {Len(local_bufs[r])} ELSE {}

InUse(r) == UNION {Span(local_bufs[r][b]) : b \in Live(r)}

Running(r) == kernel[r].state = "running"

(* malloc up to the allgather of exchange().  When cudaMalloc finds no room*)
(* malloc returns at once, with nothing done, and may be called again.     *)
register_buffer(r, ptr, size) ==
    LET idx == Len(local_bufs[r]) + 1
    IN Append(local_bufs[r], [addr |-> ptr, size |-> size, key |-> <<r, idx>>])

Malloc(r) ==
    /\ host[r] = "idle" /\ Len(local_bufs[r]) < Len(Sizes)
    /\ LET size == Sizes[Len(local_bufs[r]) + 1]
       IN \E ptr \in Cells :
             /\ ptr .. ptr + size - 1 \subseteq Cells \ InUse(r)
             /\ local_bufs' = [local_bufs EXCEPT ![r] =
                                   register_buffer(r, ptr, size)]
             /\ sent' = [sent EXCEPT ![r] =
                             Append(@, register_buffer(r, ptr, size))]
    /\ host' = [host EXCEPT ![r] = "exchange"]
    /\ UNCHANGED <<remote_bufs, allocs, ctx_dirty, d_ctx, kernel>>

(* exchange() has the entries of every rank; the count is checked.  Then   *)
(* the end of malloc.                                                      *)
Gathered(r) == \A p \in Ranks : Len(sent[p]) >= Len(sent[r])
FromRank(r, p) == sent[p][Len(sent[r])]

CountsMatch(r) ==
    \A p \in Ranks : Len(FromRank(r, p)) = Len(local_bufs[r])

NeverDirty(dirty) == dirty
AfterMalloc(dirty) == TRUE

MallocEnd(r) ==
    /\ host[r] = "exchange" /\ Gathered(r)
    /\ IF CountsMatch(r)
       THEN /\ remote_bufs' = [remote_bufs EXCEPT ![r] =
                                   [p \in Ranks |-> FromRank(r, p)]]
            /\ allocs' = [allocs EXCEPT ![r] = @ \cup {Len(local_bufs[r])}]
            /\ ctx_dirty' = [ctx_dirty EXCEPT ![r] = AfterMalloc(@)]
            /\ host' = [host EXCEPT ![r] = "idle"]
       ELSE /\ host' = [host EXCEPT ![r] = "aborted"]
            /\ UNCHANGED <<remote_bufs, allocs, ctx_dirty>>
    /\ UNCHANGED <<local_bufs, sent, d_ctx, kernel>>

(* free.  cudaFree waits for the rank's own kernel; that no peer's kernel  *)
(* still puts into the buffer is up to the client.                         *)
Targets(p, r, b) == Running(p) /\ kernel[p].peer = r /\ kernel[p].to = b

ErasedBufs(r, b) ==
    SubSeq(local_bufs[r], 1, b - 1)
        \o SubSeq(local_bufs[r], b + 1, Len(local_bufs[r]))
AfterFree(r, b) == local_bufs[r]

Free(r) ==
    /\ host[r] = "idle" /\ ~Running(r)
    /\ \E b \in allocs[r] :
          /\ \A p \in Ranks : ~Targets(p, r, b)
          /\ allocs' = [allocs EXCEPT ![r] = @ \ {b}]
          /\ local_bufs' = [local_bufs EXCEPT ![r] = AfterFree(r, b)]
    /\ ctx_dirty' = [ctx_dirty EXCEPT ![r] = TRUE]
    /\ UNCHANGED <<host, sent, remote_bufs, d_ctx, kernel>>

-----------------------------------------------------------------------------
(* context() and a kernel with one put.                                    *)
build_context(r) == [local |-> local_bufs[r], remote |-> remote_bufs[r]]

remote_ptr(r, b, peer) == remote_bufs[r][peer][b].addr

(* The client calls context() for each launch (its cudaFree waits for the  *)
(* kernel before), and passes an address inside one of its buffers and one *)
(* inside a buffer the peer has not freed.                                 *)
Launch(r) ==
    /\ host[r] = "idle" /\ ~Running(r)
    /\ d_ctx' = [d_ctx EXCEPT ![r] = IF ctx_dirty[r] THEN build_context(r)
                                     ELSE @]
    /\ ctx_dirty' = [ctx_dirty EXCEPT ![r] = FALSE]
    /\ \E from, to \in allocs[r], peer \in Ranks \ {r} :
          /\ to \in Live(peer)
          /\ \E i \in 0 .. Sizes[from] - 1, j \in 0 .. Sizes[to] - 1 :
                kernel' = [kernel EXCEPT ![r] =
                    [state |-> "running", peer |-> peer, from |-> from, to |-> to,
                     src |-> local_bufs[r][from].addr + i,
                     dst |-> remote_ptr(r, to, peer) + j]]
    /\ UNCHANGED hostVars

(* find_lkey(), find_rkey(): the first entry whose range has the address,  *)
(* no key when there is none.  The sizes are always those of this rank.    *)
InEntryOrNext(base, size, a) == base <= a /\ a <= base + size
InEntry(base, size, a) == base <= a /\ a < base + size

First(I) == CHOOSE i \in I : \A j \in I : i <= j

find_lkey(ctx, a) ==
    LET hits == {i \in DOMAIN ctx.local :
                    InEntry(ctx.local[i].addr, ctx.local[i].size, a)}
    IN IF hits = {} THEN <<>> ELSE ctx.local[First(hits)].key

find_rkey(ctx, peer, a) ==
    LET hits == {i \in DOMAIN ctx.local :
                    InEntry(ctx.remote[peer][i].addr, ctx.local[i].size, a)}
    IN IF hits = {} THEN <<>> ELSE ctx.remote[peer][First(hits)].key

KernelPut(r) ==
    /\ Running(r)
    /\ kernel' = [kernel EXCEPT ![r] =
           [peer |-> @.peer, from |-> @.from, to |-> @.to,
            src |-> @.src, dst |-> @.dst, state |-> "done",
            lkey |-> find_lkey(d_ctx[r], @.src),
            rkey |-> find_rkey(d_ctx[r], @.peer, @.dst)]]
    /\ UNCHANGED <<hostVars, ctx_dirty, d_ctx>>

Next ==
    \E r \in Ranks :
        \/ Malloc(r) \/ MallocEnd(r) \/ Free(r)
        \/ r \in Senders /\ Launch(r)
        \/ KernelPut(r)

Spec == Init /\ [][Next]_vars

-----------------------------------------------------------------------------
(* Every copy of a rank's table is the beginning of it: what the rank gave *)
(* to its k-th allgather, what the others took from it, and what a kernel  *)
(* has in its context.  A context that is not dirty knows every buffer of  *)
(* its rank (exchange(), malloc(), free(), build_context()).               *)
Begins(copy, n, r) ==
    /\ n <= Len(local_bufs[r])
    /\ \A b \in 1 .. n : copy[b] = local_bufs[r][b]

Exchanged(r) ==
    IF host[r] = "exchange" THEN Len(local_bufs[r]) - 1 ELSE Len(local_bufs[r])

OwnTable(r) ==
    \A b \in 1 .. Len(local_bufs[r]) :
        /\ local_bufs[r][b].key = <<r, b>>
        /\ local_bufs[r][b].size = Sizes[b]

GivenTables(r) ==
    /\ Len(sent[r]) = Len(local_bufs[r])
    /\ \A k \in 1 .. Len(sent[r]) :
           Len(sent[r][k]) = k /\ Begins(sent[r][k], k, r)

TakenTables(r) == \A p \in Ranks : Begins(remote_bufs[r][p], Exchanged(r), p)

KernelTables(r) ==
    LET n == Len(d_ctx[r].local)
    IN /\ Begins(d_ctx[r].local, n, r)
       /\ \A p \in Ranks : Begins(d_ctx[r].remote[p], n, p)

TablesAgree ==
    \A r \in Ranks :
        /\ OwnTable(r) /\ GivenTables(r)
        /\ TakenTables(r) /\ KernelTables(r)
        /\ allocs[r] \subseteq 1 .. Exchanged(r)
        /\ ~ctx_dirty[r] => allocs[r] \subseteq 1 .. Len(d_ctx[r].local)

(* Freed memory that cudaMalloc gives out again has two entries.           *)
Recycled(r, b, a) ==
    \E older \in 1 .. b - 1 : a \in Span(local_bufs[r][older])

(* A put finds the key of the very buffer the client named on both sides,  *)
(* as long as its addresses were not part of a freed buffer (find_lkey()   *)
(* and find_rkey() over the tables that malloc(), free() and context()     *)
(* keep up to date).                                                       *)
LookupIsExact ==
    \A r \in Ranks :
        kernel[r].state = "done" =>
            LET k == kernel[r] IN
               /\ ~Recycled(r, k.from, k.src) => k.lkey = <<r, k.from>>
               /\ ~Recycled(k.peer, k.to, k.dst) => k.rkey = <<k.peer, k.to>>

(* The same of every address: what gicc_context.cuh:12 promises of raw     *)
(* pointers.  The code does not keep it, for free() leaves its entry first.*)
LookupFindsTheBuffer ==
    \A r \in Ranks :
        kernel[r].state = "done" =>
            LET k == kernel[r]
            IN k.lkey = <<r, k.from>> /\ k.rkey = <<k.peer, k.to>>

(* However the ranks' local frees differ, every exchange() finds as many   *)
(* buffers of each peer as of its own, and no rank aborts.                 *)
NoRankAborts == \A r \in Ranks : host[r] # "aborted"
=============================================================================
