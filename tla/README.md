# GICC in TLA+

OpenGDA's `gicc` library lets a GPU kernel start and complete RDMA transfers
by itself.  It has two backends.  On **OFI** (libfabric, Slingshot) the host
queues *deferred* operations on the NIC and the kernel fires them with one store
to a trigger counter.  On **MLX5** (InfiniBand) the kernel writes the work queue
entry and rings the doorbell itself.  This directory models the parts of `gicc`
where several actors (host threads, GPU kernels, NICs, other processes) share
state without locks, model-checks them with TLC on small instances, and proves
every safety property it checks for every size with TLAPS; liveness is left to
TLC.

Paths below are relative to `src/src/gicc/` unless they start with `examples/`;
`ofi/` is `platform/ofi/`, `mlx5/` is `platform/mlx5/`.

## Inventory

| Component | State it keeps | Operations | What is hard |
|---|---|---|---|
| `gicc::Barrier`, `ofi/internal/gicc_barrier.hpp` and `ofi/ofi_barrier_device.cuh` | barrier count, ready and done counters in host-mapped memory, two source buffers, two signal slots per round, one counter pair and one `DwqWorkBuilder` per round | `init`, `setup`, kernel `barrier()`, `reset`, `start_continuous`, `wait_continuous`, `finalize`, the monitor thread | four actors per rank; signals of the next barrier arrive during this one; puts to a rank that finalizes |
| `OfiBarrier`, `ofi/internal/ofi_barrier.hpp` | phase, `arrived`, receive pool, deferred reposts | `barrier()` and its two polling paths | messages of two successive barriers at once, receive buffers that must never leak |
| `gicc::Runtime` (OFI), `ofi/ofi_runtime.hpp`, `ofi/ofi_device.cuh` | slot pool, counters, pending builders, device context | `put_no_db`, `prepare`, `prepare_trigger`, `wait`, `reset`, destructor; kernel `flush`, `quiet` | a batch is recycled while the kernel of the last one may still poll |
| `Fabric` (OFI), `ofi/internal/fabric.hpp` | trigger and completion counter, thresholds, queued work | `put`, `put_raw`, `trigger`, `wait`, `put_with_signal`, `reset_counters` | the completion counter as a proof of completion |
| Active messages (OFI), `ofi/internal/am*.hpp` | staging pool, ring of slots at the peer, sequence numbers, acks | `send_handle`, `reply`, `trigger_and_wait`, poll kernel | no flow control; staging buffers handed out again; order of body and sequence number |
| QP device path (MLX5), `mlx5/device_opt.cuh`, `mlx5/mlx5_device.cuh`, `mlx5/devx_qp.hpp` | producer index (16 bits), WQE ring, CQE ring, doorbell record | `put`, `put_no_db`, `flush`, `quiet` | three wraps; the owner bit; nobody checks for room |
| Bootstrap, `bootstrap/detail/bootstrap_{mpi,pmi2}.hpp` | KVS entries, `p2p_seq_`, `coll_epoch_` | `send`, `recv`, `sendrecv`, `barrier`, `allgather`, `broadcast` | blocking calls in cycles; a fence per point-to-point call on PMI2 |
| Connection set-up (MLX5), `mlx5/mlx5_runtime.hpp`, `mlx5/comm.hpp` | one QP per peer and its state | constructor, `connect_peers`, `exchange`; `exchange_and_connect` | order of the exchanges over all ranks; a put before the peer's QP is ready |
| Memory registry (MLX5), `mlx5/gicc_api.hpp`, `mlx5/gicc_context.cuh` | registrations, remote keys, device context | `malloc`, `free`, `exchange`, `build_context`; kernel `find_lkey`, `find_rkey` | copies of one table at every peer and in every kernel; stale registrations after `free`; 16-entry tables |
| Active messages (MLX5), `mlx5/am*.{hpp,cuh}` | as on OFI, plus the device-side send | `send_short`, `send_payload`, `reply_fast`, `poll_peer` | ring protocol over a work queue without room checks |
| Multi-threaded device path, `mlx5/device_nvshmem.cuh` | reserve, ready and post indices, locks | reserve, build, in-order post, doorbell | many GPU threads on one QP; most leave their doorbell to a later thread |
| Persistent kernel, `mlx5/persistent.cuh`, `mlx5/device.cuh` | command ring, CQ consumer index | command loop, `poll_cq` | host and GPU as producer and consumer |
| Counter pool, `ofi/internal/counter_pool.hpp` | slot states, counters | `queue_operation`, `reset_slot` | no check that a slot is free |
| `GpuComm`, `mlx5/gpu_comm.hpp` | two QPs, device states | ring exchange, puts | two blocking exchanges in a ring |

How they interact: every runtime is built over a Bootstrap; `Runtime::barrier`
on OFI is `OfiBarrier` inside `Fabric`; `Barrier`, the OFI runtime and
the counter pool queue work with the same `DwqWorkBuilder`; OFI active messages
use `Fabric::put_raw`, `trigger` and `wait`; MLX5 active messages and the
runtime's kernels use the queue pair.  The properties that make each component
correct are the ones of the runs below; `PROJECT.json` lists the hazards at
their lines, with the properties that would catch each.

## Modules

| Module | Models | State and actions |
|---|---|---|
| `BarrierSpec` | the promise of both barriers | `entered`, `left` per rank; a rank leaves its t-th barrier only when all have entered it |
| `GiccBarrier` | `gicc::Barrier` and its kernel | per rank: main thread, monitor thread, kernel; NIC actions `Fire`, `Deliver`, `Complete`. `setup()` is one step, because nothing it writes is visible before the ready counter it bumps last |
| `GiccBarrierInv` | its inductive invariant `FullInv` | - |
| `OfiBarrier` | `OfiBarrier` and its endpoint | `Enter`, `Inject`, `PollDefer`, `PollNoDefer`, `NextStep`, `Leave`; `Receive` is the network |
| `OfiRuntime` | the OFI runtime's batches | host calls, kernel `Flush`, `QuietPoll`, `QuietDone`; the write and the chained atomic of each put in the NIC |
| `OfiFabric` | `put_raw`, `trigger`, `wait`, the writeback | used by `OfiAm` |
| `OfiAm` | active messages between two ranks | `SendHandle`, `TriggerBegin`/`WaitEnd`, `PollPeer`, `Reply`, over `OfiFabric` |
| `Mlx5Qp` | one QP driven by one GPU thread | `Put`, `PutNoDb`, `Flush`, `Quiet...`; `Execute` is the NIC |
| `Bootstrap` | both bootstraps | a program is the sequence of calls each rank makes; a call is one or more steps |
| `SendQueueSpec` | the promise of a shared send queue | `claims`, `filled`, `log`; entries are executed in the order claimed, none before it is filled |
| `Mlx5Submit` | one QP shared by the threads of a block (`mlx5/device_nvshmem.cuh`) | `resv_head`, `ready_head`, `prod_idx`, the lock and the two doorbell words; `Reserve`, `BuildWqe`, `Publish` (the compare-and-swap), `LeaveToOthers`/`DecideToPost`, `Lock` to `Unlock` one step per shared word; `Execute` is the NIC |
| `Mlx5Registry` | the memory of the simplified MLX5 interface | `local_bufs`, what each rank gave to each allgather, `remote_bufs`, the kernel's copy `d_ctx`; `Malloc`/`MallocEnd`, `Free`, `Launch` (`context()` and the launch), `KernelPut` with the two look-ups |
| `Mlx5Connect` | programs over `Bootstrap`: the constructor of the MLX5 runtime, the older `Fabric`, jacobi's gather, mm_minimal's ring; QP states | `ModifyQp`, `Construct` and the bootstrap's steps |
| `MC...` | definitions for the configurations | - |
| `..._proofs` | theorems about the module of that name; `Mlx5Connect_proofs` has those about `Bootstrap` too | - |

Conventions.  A loop that polls a location is an action guarded by what it waits
for.  Consecutive statements that touch nothing another actor can see before the
last of them are one step.  A store to a trigger counter's MMIO address *sets*
the counter, as the code uses it.  A payload is the number of its message.
Where completion and delivery of a put may come in either order and a property
can tell (`GiccBarrier`), they are two actions; elsewhere one.

The clients are part of the model.  Where the repository has a program that makes
the calls, they follow it; the client of `OfiAm` is its own:

* `GiccBarrier`: each barrier in single or continuous mode, as `Modes` allows the
  rank, `finalize()` at the end; with `Reuse = FALSE`, no further barrier on an
  object after `wait_continuous()`.
* `OfiRuntime`: one `prepare` or `prepare_trigger` and one launch per batch,
  never waiting for the kernel before `reset()`, except before changing from
  `prepare` to `prepare_trigger`.
* `OfiAm`: a client of the host calls as `ofi/internal/am.hpp:7-22` and `:310-313`
  document them.  The requester sends until `send_handle()` refuses, calls
  `trigger_and_wait()` and waits for the ack of its last message; the responder
  calls `poll_once()`, and `reply()` and `trigger_and_wait()` once a batch is
  handled.  The wait for the ack is what keeps the ring and the staging buffers
  safe; nothing in the code asks for it.  `legacy/ofi/am_test_one.cpp` has a loop
  of this shape with a host barrier instead of the ack.
  `examples/ofi/am_pingpong.cpp` is another client, with kernels that trigger
  one message at a time, and is not modelled.
* `Mlx5Qp`: signaled puts, at most a ring full between two `quiet()`s.
* `Mlx5Submit`: `Reserve` keeps to the room in the ring, which nothing in the code
  checks; `batch_mask` is `~(batch_size - 1)`, as its comment says.  The program
  has no end of its own: threads may reserve up to `MaxWqes` entries.
* `Mlx5Registry`: every rank makes the same mallocs and at most `GICC_MAX_BUFS` of
  them; frees in any order of its own; no kernel of a peer still puts into what
  it frees; each launch gets a fresh `context()`.

## Runs

| Run | Shows | Bounds, and why they are enough |
|---|---|---|
| `gicc_barrier` | builders and source buffers are reused only after completion, no signal is overwritten before it was waited for, nothing arrives at a released rank, the inductive invariant `FullInv` itself, refinement of `BarrierSpec`, every rank finishes (liveness) | 3 ranks: two rounds, the last not a full power of two; 3 barriers: the signals, buffers and builders of the first are used again by the third. One rank runs under the monitor thread from its first or second barrier on, the others in single mode, for the state space (the proofs are for any mix) |
| `gicc_barrier_reuse` (violation) | `wait_continuous()` returns while the last `reset()` still waits for its puts; a client that goes on re-populates a builder in use | 2 ranks |
| `ofi_barrier_unordered` | no rank leaves early, receive buffers are accounted for, one phase bit suffices, on a network that reorders messages | 3 ranks, 3 barriers: each phase used again |
| `ofi_barrier_lost` (violation) | `barrier()` erases the next barrier's arrival that was polled early, and hangs; the network need not reorder anything | 3 ranks, 2 barriers |
| `ofi_runtime` | a slot's completion is always of its own batch, nothing fires before its flush, builders outlive their work, batches end | 3 slots, 3 batches: every slot used by several batches, batches of different sizes |
| `ofi_am` | no sequence number meets an unhandled slot, sequence numbers and acks stay in their staging buffers until read, every batch is acknowledged, in whatever order writes arrive | ring of 2, staging of 2, 2 batches: both wrap |
| `ofi_am_early` (violation) | `put_raw()`'s writebacks wait for and add to the same counter: after one delivered write of four they take it to the threshold, and `trigger_and_wait()` returns with no message complete | as above |
| `ofi_am_unordered` (violation) | a sequence number overtakes its body, which the endpoint's hints allow, and the handler runs without it | as above |
| `mlx5_qp` | `quiet()` waits for exactly what was posted, entries are executed as built, `quiet()` returns, with and without an error | index of 16, 2 WQEs, 4 CQEs instead of 65536, 256, 512; 36 puts: two wraps of the index, nine of the CQ. Only the divisibility of the sizes is used |
| `mlx5_connect` | start-up and the examples' exchanges return, in order, on MPI with and without buffering, and mm_minimal's ring on PMI2, where its calls stay in step; a constructed runtime is connected on both sides | 3 ranks: the smallest where exchanges can form a cycle |
| `mlx5_submit` | the NIC executes every entry once, in the order reserved and as built; the doorbell never goes back, record and register agree, nobody's entries stay without a doorbell, all are executed (liveness) | 3 threads, reservations of 1 and 2, batches of 2, ring of 3, index of 4, 5 entries: the ring and the index wrap, and reservations end inside, at and across a batch |
| `mlx5_registry` | the copies of every rank's table agree, a kernel's put finds the key of its own buffer, no exchange aborts | 2 ranks (addresses of the two collide), 3 mallocs of sizes 2, 2, 1 in 4 cells: the third gets memory that was freed; one rank's kernel puts, for the state space |

Deadlock is checked except in `ofi_barrier_unordered` (the barrier may hang, as
`ofi_barrier_lost` shows), in `mlx5_registry` (the client may stop after any call)
and in violation runs.  Elsewhere a program that has ended stutters explicitly.

## Fairness

Weak fairness per actor, never strong: a host thread is scheduled by the
operating system, a launched kernel runs (`GiccBarrier` launches one block, and
the host never waits for another kernel before it), the NIC works off what it was
given, a reliable connection delivers.  In `OfiRuntime` and `OfiAm` the client is
fair only in what ends a batch it began; it need not begin another.
In `Mlx5Submit` a thread that has reserved goes on: threads spin on one another's
compare-and-swap and on the lock, which needs the independent thread scheduling
of the GPUs the atomics are written for; it need not reserve again.
In `Mlx5Connect` a collective is one fair step of all ranks, and a rank that is
blocked in a call does not move.

## What is proved

Every theorem is `Spec => []Inv` or `Spec => Abstract`, for all values of the
constants that the module's named assumptions allow.  None of the properties is
inductive; in each module an invariant `IInv` is, the theorem `Invariance`
states it (`FullInvariance` for the GPU-triggered barrier), and the lemmas go
through it action by action.

**`gicc::Barrier`** (`GiccBarrier_proofs`), any number of ranks, of barriers and
any mix of modes, from `SizeAssumption`, `RoundsAssumption` (the rounds are those
the constructor computes: `Dist` doubles, and the last reaches `N`) and
`ClientAssumption`, and under `~Reuse`: `TypeCorrect`, `BuilderReuse`,
`SourceStability`, `SlotsSuffice`, `ReleaseSafe` and `Refinement` (`BarrierSpec` with
`entered` and `left` read off the kernel's state).  The invariant has these parts:

* `HostInv` is about one rank at a time: how `ready_counter`, `barrier_count`
  and the completion counters relate while a barrier is armed or being reset, and
  in which combinations the main thread, the monitor and the kernel can be.
* `TriggerInv` ties the trigger counters to the kernel's progress.
* `SignalInv` says no signal is ahead of its sender's trigger counter and each
  slot holds only its own barriers' values.
* `WindowInv` is the idea of dissemination: having finished rounds `0 .. k-1` of
  a barrier, a rank knows that the `Dist[k]` ranks up to itself have entered it.
  Signals are compared for equality, so the step needs that the value seen is
  this barrier's, which is `SignalInv` with `BarrierInv`.
* `BarrierInv`: nobody has left more barriers than anybody has entered. It
  follows from `WindowInv` when the kernel leaves the last round, and it bounds how
  far a sender can be ahead, which is why two slots suffice.
* `ReleaseInv` is what `finalize()` lives on: a put that is queued or on the wire
  has a number its receiver has not waited for yet (`AheadInv`) and no higher than
  the program's last barrier.  A rank that releases its memory has finished that
  barrier, so it has consumed the signal of every put made to it, and none is left;
  its own puts it has seen complete (`WireInv`).

**`OfiBarrier`** (`OfiBarrier_proofs`), any number of ranks, receive pool and barriers,
ordered network or not: `TypeCorrect`, `ReceivesTheorem`, `PhaseTheorem`,
`Refinement`.  The barrier may hang, and all of this is true of it until it does.
`MessageInv` says a message under way was sent and its receiver has not left its
barrier; with `BarrierInv` that leaves two barriers it can be of, and `PhaseTells`
that the low bit tells which.  `ArrivedInv` turns an entry of `arrived` into what
the receiver may conclude, that its sender got as far; `PassedInv` keeps the
conclusion for a rank that is outside.  `WindowInv` is dissemination once more.
`PendingInv` bounds the buffers to repost by counting: a message polled while
waiting is the first of this barrier or the first of the next for its step.

**`OfiRuntime`** (`OfiRuntime_proofs`), any number of slots and batches: `TypeCorrect`,
`BuildersOutlive`, `NothingEarly`, `FreshCompletions`.  Two batches' worth of state
is alive at once, the batch of the host and the one a kernel is still polling for;
the invariant says which works the NIC may hold for each slot (`Works`, `Counts`,
`Pending`) and what the slot's memory can be while a kernel looks at it (`Slots`).

**`OfiAm`** (`OfiAm_proofs`), any ring, any staging pool no larger than it and any
number of batches, whatever the order in which writes arrive, from `AmAssumption`:
`TypeCorrect`, `RingTheorem`, `StagingTheorem`.  `wait()` tells nothing here, since it
counts every write twice, and the proof shows that the client's wait for the ack is what carries the protocol.
`Phase` says that one batch is outstanding, unreplied, or replied to with the only
ack there is on its way or arrived; so the messages beyond `replied` fit the staging pool,
and the ring.  `Turns` keeps the trigger counter behind the messages of a batch that
is still being filled, so none of them can be handled early.  `Unhandled` says a
sequence number on its way is one the responder still waits for; `SlotsDiffer`
gives it a slot of its own.  Nothing like it holds of the bodies (see below).

**`Mlx5Submit`** (`Mlx5Submit_proofs`), any number of threads, ring, batch and index
with `NWqes < IndexSpan`: `TypeCorrect`, `DoorbellForward`, `DoorbellsTogether`,
`AllPosted` and `Refinement` of `SendQueueSpec`.  `TypeCorrect` includes that
reservations lie below `resv_head` and that the lock has one holder.  The reservations cut
`ready_head .. resv_head` into disjoint pieces (`Reservation`), the slots below hold
what was built (`Ring`), and `LastOnItsWay` is why nothing is stranded: as long as
`prod_idx` is behind `ready_head`, a thread with exactly that index is on its way
to the doorbell or somebody will publish after it.

**`Mlx5Registry`** (`Mlx5Registry_proofs`), any set of ranks, memory and list of
mallocs within the tables: `TablesTheorem`, `LookupTheorem`, `NoAbort`.  Every copy of
a rank's table is a prefix of it, because an entry is never changed or removed;
live buffers do not overlap, so the first entry an address falls in is its
buffer's unless it was freed before.

**`Mlx5Qp`** (`Mlx5Qp_proofs`), any sizes of the two rings and the index that divide
one another as the code's do, and any number of puts: `TypeCorrect` for every
client, `QuietTheorem` and `EntriesTheorem` for a `Client` that signals every put and
does not call `quiet()` when its index is 0 again (without either the properties are
false, see below).  `Completions` says which bit each entry of the CQ ring has: those of
the current round up to the last CQE the bit of this round, the rest still the bit of the
round before.  `Outstanding` keeps no more than a ring between what `quiet()` has
waited for and what was posted, so an index of 16 bits names one put, and the owner bit
`quiet()` computes from it is the bit of that put's round.  `Indices` and `Entries` tie the
doorbell and the ring's slots to the puts under way.  The lemmas about quotients and
remainders (`QuotientUnique` and the ones after it) carry the arithmetic, since the
SMT backend does not multiply symbols.

**`Bootstrap` and `Mlx5Connect`** (`Mlx5Connect_proofs`), any number of ranks and any
`Jobs` of the four programs on either back end, from `RanksAssumption` and
`JobsAssumption`: `TypeCorrect`, `InOrder`, `Connected`, `RingTheorem`.  Three invariants:

* `MsgInv` numbers the messages of each pair.  Over MPI the channel holds exactly the
  numbers between what was received and what was sent (`UnderWay`), without
  buffers only that of the call the sender is in.  Over PMI2 the sequence
  numbers of both ends count what they have sent and received, and an entry of the
  key-value space under number `k` has message `k + 1` (`EntryInv`), whether staged or
  visible: so what a stale key could bring is never fetched.
* `ConnInv` is about the calls a rank still has to make.  They are counted
  from the last one; at each place all ranks make the same kind of call (`Uniform`),
  and no rank is past a collective call that another has not reached
  (`Lockstep`).  `WellOrdered` says that a rank's barrier comes after the last
  transition of its queue pairs and before `Construct`, and `Owed` that a
  queue pair short of `RTS` still has its transition ahead.
* `RingInv` is about mm_minimal's ring over PMI2, where every call of every rank is one
  fence.  All ranks have seen as many fences (`Fences`), a sequence number is
  the `Count` of the calls of its direction so far, and the entry of a send is there at
  the fence its receiver fetches it after: the parity order puts a send no later
  than its receive (`Places`), also where an odd number of ranks closes the ring with two
  even neighbours.

`RingTheorem` assumes `InStep`: the jobs over PMI2 are the ring's, and there are two
ranks or more.  It says nothing of other programs: they do fail over PMI2 with three
ranks (see below), and in a ring of one rank the send to itself advances the sequence
number its receive then looks for.

Left to TLC: the liveness properties (`AllRanksFinish`, `BatchesEnd`,
`EveryBatchAcked`, `QuietReturns`, `EveryCallReturns`, `EveryPutExecuted`), which need
`ENABLED` and fairness and have no backend in TLAPS.

## Disagreements between the code and what it says of itself

The violation runs show four; `PROJECT.json` quotes the lines.  Three more can be
had by changing a configuration:

* `QuietAtWrap = TRUE` in `Mlx5Qp.cfg` lets the client call `quiet()` when its
  index is 0 again, after 65536 puts.  `QuietIsCompletion` fails: `quiet()` takes
  index 0 for nothing sent (`mlx5/device_opt.cuh:511`), where the comments promise
  that it waits for all (`mlx5/mlx5_device.cuh:86`, `mlx5/device_opt.cuh:517`).
* `<<"pmi2", "gather">>` or `<<"pmi2", "runtime">>` added to `AllJobs` in
  `MCMlx5Connect`: `failed` becomes non-empty.  The comment on `send()`
  says that patterns such as "a gather on rank 0 pulling from each peer" stay in sync
  (`bootstrap/detail/bootstrap_pmi2.hpp:141-143`).  The ranks of
  jacobi's gather (`examples/gicc/jacobi.cu:487-510`) come to different fences, and a
  key is fetched before it was put; so are those of `connect_peers()` with three
  ranks, two of which exchange while the third is at the same fence for another peer.
  No passing run has these jobs, and `RingInStep` claims nothing of them.
* `LookupFindsTheBuffer` added to the invariants of `Mlx5Registry.cfg` fails: `free()`
  keeps the registration (`mlx5/gicc_api.hpp:72`), the allocator gives the address
  out again, and the kernel's look-up finds the old entry first
  (`mlx5/gicc_context.cuh:69-73`), where the interface promises keys for raw
  pointers (`mlx5/gicc_context.cuh:11-12`).

Met on the way, without a run:

* `put()`'s `signaled` defaults to `false`, but `quiet()` polls for a CQE that
  only a signaled put makes; the repository's README has a device example that never returns from
  `quiet()`.  `Mlx5Qp` with `Signals = {FALSE}` violates `QuietReturns`.
* `GpuComm::exchange_and_connect` exchanges with the top neighbour and then with
  the bottom one; with three ranks in a ring each waits for its top neighbour,
  as `examples/gicc/jacobi.cu:368-371` explains of such a pattern.

## Not modelled

* Opening and registering of devices, domains, counters and memory: sequences of
  library calls that end the process on error; their effect is `Init`.
* In `OfiBarrier`, `fi_cq_read` called by two threads; in `GiccBarrier`, that
  `barrier_count_` is read by a second thread without being atomic (an aligned
  64-bit load on every platform the code is built for).
* Several peers sharing one staging pool, `check_can_send`, the handlers' effects.
* In `Mlx5Submit`, the inline entry and the atomics' block scope for threads of
  other blocks; no host code in the repository fills in a `DeviceQpState`.
* In `Mlx5Registry`, `init()` and `finalize()`, the delay of `cudaMemset` before a peer's
  first put, and look-ups in tables of more than `GICC_MAX_BUFS` entries.
* `put`, `put_with_signal`, `reset_counters` of the OFI `Fabric`: the same deferred
  write as `put_raw`; `reset_counters` is safe only once every writeback is done,
  which `wait()` does not tell (run `ofi_am_early`).
* MLX5 active messages (`mlx5/am.hpp` uses members `comm.hpp` does not have, and
  nothing includes it), the persistent kernel (nothing includes it, no host side
  posts commands), `mlx5/device.cuh` (nothing launches its kernels), `GpuComm` (no
  program constructs one), the counter pool (only a legacy benchmark uses it).
* Errors of the transport other than the error CQE of `Mlx5Qp`.
* Message tags of the bootstrap (each program uses one) and `locality_map()`.
* `legacy/`, benchmark kernels, vendored command layouts.

## What could follow

If the unused parts named above come into use, MLX5 active messages as the ring of
`OfiAm` over the queue of `Mlx5Submit`, and the command ring of
`mlx5/persistent.cuh`.
