# TLA+ models of xn

`xn-core` is a tensor runtime for inference: tensors over five backends (CPU, CUDA, Metal, Vulkan,
WebGPU) and quantized weights, a handful of neural-network layers, and streaming audio and language
models. The parts that are hard to get right are the machinery around the arithmetic - who may run
a closure borrowed from another thread's stack, when a buffer the GPU may still read can be handed
out again, which slot of a ring a query may look at - and the index arithmetic that decides which
element meets which: strides, stripes and tiles, packed bytes, columns kept from one piece of a
stream to the next. This directory models both in TLA+, checks them with TLC and proves the central
parts with TLAPS. Paths are relative to the repository root; those without a directory are in
`xn-core/src`.

## 1. Inventory

| Component | Source | State it keeps | Operations | Talks to |
|---|---|---|---|---|
| thread pool | `threadpool.rs` | `seq`, `job`, `done`, `panicked`, `publish`, a mutex and a condition variable; a thread-local `IN_JOB`; one shared counter per `par_units` call | `dispatch`, `worker`, `PublishGuard`, `par_units`, `par_chunks_*`, `par_range` | every CPU kernel calls it; closures may call it again |
| tensors | `tensor.rs`, `ops.rs`, `inplace_ops.rs` | `Arc<RwLock<Storage>>` and a shape; clones and reshapes share storage | constructors, ops, in-place ops | one backend |
| views | `tensor_view.rs` | dimensions, strides and an offset over a shared storage | narrow, transpose, permute, expand, broadcast, flatten, reshape, contiguous; products of views | tensors |
| backend interface | `backend.rs` | none (a trait) | allocation, data movement, kernels | implemented by each backend |
| CPU backend | `cpu_backend.rs`, `simd_math.rs`, `neon_*.rs`, `simd128_conv.rs`, `accelerate.rs`, `kai_f32.rs` | none | kernels | thread pool |
| WebGPU backend | `webgpu_backend/` | open encoder, params ring, buffers to recycle, pool, in-flight readbacks | dispatch, copy, flush, submit, read, write, defer_free, drop | the device queue |
| Vulkan backend | `vulkan_backend/` | open command buffer, descriptor sets used, buffers to recycle, pool | dispatch, copy, flush, host access, defer_free, drop | the device queue |
| Metal backend | `metal_backend/` | open and in-flight command buffers, buffers to recycle, pool, `gpu_used` of a storage | dispatch, copy, commit, retire, flush, host access, drop | the device queue |
| CUDA backend | `cuda_backend/` | stream, host-to-device cache, capture mode, graphs | kernels, graph capture and launch, cached uploads | driver |
| quantized weights | `quantized/` | blocks of 32 or 256 packed weights, interleaved blocks | quantize, dequantize, matmul, repack, GGUF/GGML parsing | thread pool, files |
| weights | `safetensors.rs`, `nn/var_builder.rs` | memory map, name prefix, set of names used | lookup by name, shape check | files |
| layers | `nn/` | weights | forward | tensors |
| key/value caches | `models/kv_cache.rs` | ring of keys and values, `offset`, `current_seq_len`; positions per batch element | append, mask, positions, reset | tensors |
| Mimi | `streaming.rs`, `models/mimi.rs` | per layer: the end of the last piece, or the last keys | encode_step, decode_step, encode, decode, reset_state | tensors |
| Demucs | `models/demucs.rs` | pending columns, columns kept at each encoder and decoder, LSTM state, resampling buffers | feed, flush, reset | tensors |
| language models | `models/llama.rs` | layers and caches | forward | caches |
| support | `shape.rs`, `dtype.rs`, `convert.rs`, `display.rs`, `error.rs`, `utils.rs`, `lib.rs` | none | | |
| flash attention | `xn-flash-attn/` | none (vendored CUDA C++ behind an FFI call) | one kernel | CUDA |

Where it is hard, and what correct means there:

* **thread pool** - several callers, resident workers that spin and then park, closures borrowed
  across threads with an erased lifetime, panics on either side, nested calls. A borrowed closure is
  never used after its caller has gone on, every share runs once, a panic reaches its own caller and
  no other, every dispatch returns; the pieces of a slice are disjoint and cover it.
* **batching backends** - work is recorded, submitted later and finished later still, while Rust
  values drop at once. Deferral is invisible: what a caller reads is what eager execution would
  have left; no buffer is reused while a command that uses it is pending; nobody waits for ever with
  the context locked.
* **CUDA capture** - a mode shared by every caller switches what an upload does. A launch gives what
  running the captured work again would.
* **shared tensors** - locks taken one after the other, threads that exchange operands, kernels that
  panic half way. Threads that lock in one order do not wait in a circle; half-written storage is not used.
* **views** - a view, however derived, stands for the elements its operations select, and so does
  the gemm call made of two of them.
* **kernels and quantized products** - participants write disjoint places, and in any order give what
  the operation is defined to be; packed weights come out as they went in.
* **caches and streams** - positions, masks and the tensor returned agree, a query attends to exactly
  the keys of its own stream still held, and a stream in pieces gives what the whole one does.

## 2. Plan

In the order the modules were written; each line says what it composes with.

1. `ThreadPool` with `ForkJoin` as its abstract specification, `ThreadPoolInductive`,
   `ThreadPoolProofs`. Done.
2. `ParUnits` over what `ForkJoin` promises, with proofs (`SharingProofs`). Done.
3. `WebGpuBatch` over `GpuCommands`, carrying `EagerStore` along; `WebGpuOps`: every method of the
   Backend trait as its steps. `GpuCommandsProofs`, `WebGpuInductive`, `WebGpuBatchProofs`. Done.
4. `RotatingCache` and `ScatteredCache`, with proofs (`KvCacheProofs`). Done.
5. `TensorLocks` with `TensorOps`: the locks of every method; with proofs (`SharingProofs`). Done.
6. `VulkanBatch` and `MetalBatch` over `DeviceOps`, with `DeviceOpsProofs` and `UnifiedMemoryProofs`;
   `CudaCapture` with `CudaOps`, `CudaInductive` and `CudaCaptureProofs`. Done.
7. `StridedViews`, `MatmulViews`, `CpuLayout` and `CpuCompute` with proofs (`SharingProofs`), `QuantBlocks`,
   `QuantMatmul`. Done.
8. `StreamingConv`, `MimiStream`, `DemucsStream`. Done.

Theorems still wanted, most important first: that the pieces of a kernel together write every place of
the output; that each operation on a view keeps `shown` what the strides reach.

## 3. The modules

### Thread pool: `ThreadPool`, `ForkJoin`, `ParUnits`

`ThreadPool` has one action per atomic operation of `dispatch` and `worker`. A call of `dispatch`
is a member of `Calls`, made at most once; it names its closure and its stack frame too. Its
program counter runs through claim, write the slot, reset `done`, reset `panicked`, bump `seq`,
notify, own share, join, clear, report and release - or, if the claim fails or the thread is
already inside a job, through the serial path. A call is made from a thread of its own or from
inside a share of another call (`parent`), which then stays suspended; this is how nesting, and
a panic that unwinds through several calls, come about. Workers latch `seq`, give up spinning at any
moment, and park with the mutex and the condition variable as the code does, spurious wakeups
included. Memory orders are taken as sequentially consistent: the code pairs its release
and acquire operations on `seq` and `done`, and the slot is only touched on either side of them.

`ForkJoin` is the contract: a call gets a team (everybody, or the caller alone), each member runs
its share once and may panic, and the call returns once all have, by a panic exactly when one
of them did. `ThreadPool!FJ` maps a call to its phase, team and finished shares.

`ParUnits` models `par_units` with `par_chunks_mut` over it: the cut of a slice into pieces, runs of
pieces taken from one `fetch_add` counter, the clipping of the last run and the last piece, panics
inside a piece, and the inline path for small jobs.

### GPU backends: `GpuCommands`, `EagerStore`, and one pair of modules each

`GpuCommands` says what fill, accumulate, merge and copy do to contents (numbers modulo `NVal`).
`EagerStore` is what `backend.rs` lets its callers assume: each operation takes effect at once. Each
backend's module carries `EagerStore`'s variables along with the real state, and every operation
does both its eager effect and its deferred one; `AsIfEager` compares them. What an operation of
the Backend trait is made of - kernels, uploads, temporaries, readbacks, host loops, per dtype and
shape - is in `WebGpuOps`, `VulkanOps`, `MetalOps` and `CudaOps`, each a set of sequences of steps;
`DeviceOps` is what Vulkan and Metal share. The steps of one operation
interleave with those of other threads. The driver and the queue are external: what is submitted
executes in order.

* `WebGpuBatch`: submissions apply their staged queue writes first; a kernel that fills names the slot of
  the params ring its value is in, which is looked up when it executes. Operations that wait (a flush,
  a readback, a host fill, a dispatch that finds the params ring full) are split where the code
  waits; an asynchronous readback or flush takes the freed buffers when it submits, waits without
  the mutex, and recycles on completion, or loses them if its map fails or its future is dropped.
  `target` is fixed at the start: on `"wasm32"` a flush neither waits nor recycles.
  `tensor_to_vec` lets go of the tensor's lock before the copy of its readback is recorded, so a readback
  may return a write that was under way when it was asked: `EagerStore`'s `read` is a set for that reason.
* `VulkanBatch`: one batch, submitted when full or when the host needs the results, with the mutex held
  until the fence is signalled. A flush may fail, at any point and from then on for ever
  (`lost`): the batch stays open, nothing is recycled, and threads go on recording into it.
* `MetalBatch`: batches are committed without waiting; each carries the buffers freed while it was
  recorded, and they retire in order - seen completed, when too many are outstanding, or at a flush.
  `gpu_used` lets the host skip the flush for a storage no command has named. `SUBMIT_CHUNK` and
  `MAX_IN_FLIGHT` are one of the pairs in `Limits`, picked at the start (`limits`), so that one run takes
  several and the proofs any.
* `CudaCapture`: one stream in order; between `capture_begin` and `capture_end` work is recorded.
  `cached_htod` reads the mode before it takes the cache's mutex, as the code does. The driver thread
  records, captures, launches and clears; another brings in new contents at any time, also while the
  stream captures, whatever mode its upload read before. A copy from the host or a wait that meets a capture
  fails, as mod.rs:70 says of the copy: that of `quantize_fp8` (quantization.rs:211), which never goes through the
  cache, and that of an upload that read its mode before `capture_begin`. A history, `meant`, keeps the commands of
  the operations captured, as they would have run; another, `disturbed`, whether anybody but the driver ever used
  the device during a capture. `capture_begin` and `capture_end` are one step each: what another thread
  does between their two calls is not told apart from what it does before or after.

### Shared tensors: `TensorOps`, `TensorLocks`

`TensorOps` gives each method of `Tensor` and `TensorView` as the sequence of locks it takes and drops, or
no lock if it refuses operands that share storage. In `TensorLocks` threads take them one by one with
the standard library's rules (a reader also waits behind a parked writer), compute, and
release. Threads may do any operation on any storages, its operands exchanged or shared; `Descends` says of one that
the locks it holds together happen to be taken from the highest storage down, and the history `unordered` which
threads' operation does not. A panic while computing poisons the locks of the outputs, and taking a poisoned lock is an
error. The fresh output of an out-of-place operation is left out: no other thread can have it.

### Views and kernels: `Shape`, `StridedViews`, `MatmulViews`, `CpuLayout`, `CpuCompute`

`StridedViews` keeps, beside dimensions, strides and offset, the elements the view stands for (`shown`),
which each operation selects by its own definition; they must be those the strides reach.
`MatmulViews` takes two views to what `matmul_` hands a gemm - the flat batch stride, a copy of an
operand that has none, the folding of batches into rows - and compares the products summed.

A kernel (`CpuLayout` for those that move elements, `CpuCompute` for those that combine them) is cut into
pieces that participants run in any order, or stages with a barrier between. A piece is a
set of pairs of a place it writes and a term naming the places it reads. Whether a call is worth
the pool is a choice. The output must end up as the operation is defined (`OutputAsDefined`), and no two
pieces of a stage may write one place (`PiecesApart`).

### Quantized weights: `QuantBlocks`, `QuantMatmul`

In `QuantBlocks` a machine number is the set of its bits, each labelled with the number it came from;
`from_float` packs levels, scales and minima, `to_float` and the portable dot products unpack them, each
with loops, masks and shifts of its own, for eleven block types. `QuantMatmul` says which block of a weight
row meets which of an activation row for which output: by rows, by the tiles of the sgemm
kernels (a recursion over the remaining corners), and by column groups over interleaved weights.
The choice of scales and levels is rounding and left out.

### Caches: `RotatingCache`, `ScatteredCache`

A key is its absolute position. `RotatingCache` has the four cases of `append` as three actions
(the fourth, an empty first copy, cannot happen: `offset` is below `max_seq_len`), `reset`, and
`positions`, `attn_mask` and `current_data` as the pure functions they are; each append records what the
first two said just before it. `ScatteredCache` has the builder's two forms of
`indices_and_mask`, the scatter of `append`, and resets of one element or all, which may come
between a step's indices and its append. In a wrap of several keys the windows of a step's early queries are
shorter than `context`, since the step's last keys already replaced the oldest ones: that is what
the code does and what `Attends` says. The batch is one of `Batches`, picked at the start. A step of `context` keys
or more has a mask of `seq_len` by `seq_len` elements for the whole batch, whose reshape (kv_cache.rs:513) fails
before any index moves unless the batch is of one (`MaskFits`, `indices_and_mask_fails`). In a batch of one it
advances, and is not stored at all; the history variable `unstored` remembers where those keys end, so that `AttendsOnceStored` can say
that only a query of a short step whose window reaches back to them sees anything else. The invariant and
the arithmetic it needs (remainders by a variable) are in `KvCacheProofs`.

### Streams: `StreamingConv`, `MimiStream`, `DemucsStream`

A column is its number if it was computed from what the layer run on the whole signal computes it
from, and `Wrong` otherwise; a `Wrong` column makes those computed from it `Wrong`. `StreamingConv` has the
streaming convolution, transposed convolution (with the bias that is taken off before pieces are
added) and residual block. `MimiStream` chains them, with the attention and its trimmed cache, as
`encode_step` and `decode_step` do; `encode` and `decode` may be called in between. `DemucsStream` is
`feed`, `flush` and `reset` with overlapping frames, what each encoder and decoder keeps, the LSTM
state and resampling by two.

## 4. Runs

Components that share nothing are checked together, a machine being chosen at the start
(`MCStreaming`, `MCHostCode`, `MCUnifiedMemory`): a property says what it says of the machine it is about.

| Run | Instance | Shows |
|---|---|---|
| `pool_safety` | 3 calls, 2 workers, symmetric | the invariants of the protocol, the inductive one among them, `SlotWrittenWhenIdle`, and that the pool implements `ForkJoin`: three calls give a publisher, a contender and a nested call at once; two workers let one run ahead while the other sleeps |
| `pool_liveness` | 2 calls, 2 workers | every call returns |
| `webgpu_safety` | 2 blocking native threads, one of which also awaits; 2 storages, 2 buffers, ring of 1 | eager semantics, no reuse of a busy buffer, one owner per buffer, with readbacks in flight, failing and dropped; a ring of one slot forces the flush inside a dispatch |
| `webgpu_liveness` | natively and in a browser: a blocking and an async thread, 1 storage, 2 buffers | every operation returns, also where a flush does not wait |
| `unified_memory` | Vulkan with batches of one dispatch; Metal with batches of one command and one in flight more, and of two and none; 2 threads, 2 storages, 4 buffers | eager semantics, no reuse of a busy buffer, no wait for ever under the mutex; failed flushes and profiling included |
| `cuda_capture` | a driver and another thread that uploads, 2 storages, 2 contents, 2 staged buffers, 2 commands per capture and operations that copy from the host in it | uploads and launches as if eager while only the driver captures; captured work reads only what is staged, whoever uploads and whenever |
| `streaming` | ring of 4, appends of 1 to 9 keys, 40 in all; batches of 2 and of 1 element over rings of 3, steps of 1, 2 and 4, 7 keys a stream, one reset of each; Mimi with one ratio of 2, 8 keys of attention, 12 columns in pieces of 0 to 4; Demucs of two encoders, frames of one stride and two, look-ahead, resampling, pieces of 0 to 9 | positions, masks, returned keys, steps in pieces and flushes are those of the whole stream |
| `host_code` | 33 elements in pieces of 2; 2 threads doing every operation on 4 storages, 3 doing some on 3, with operands in either order or shared, one panic; views three operations deep; every kernel over eight shapes and three participants; all block types; products of up to 6 rows and 12 columns | disjoint pieces and outputs, no circular wait between operations that take their locks in one order, nothing half written used, views and kernels as defined, packed weights as stored |

Three threads, calls or storages are the smallest numbers for which a wait can be a circle that is
not a pair; two storages and two buffers are enough for a buffer to change owner while its old
owner's commands are pending. In `streaming` every residue of the write index meets every append
length, seven keys go round a ring of three twice with every pause and reset in between, and a piece is shorter, equal to and longer
than a frame. Mimi's output is compared until its attention drops a key, after which it goes wrong
(`mimi_future_keys`): with 8 keys and 12 columns that takes in up to three steps of an encoder and four of a
decoder that return something, each computed from what the steps before left in every layer. In `host_code` each division (tile, lanes, rows per piece, participants) leaves a remainder
for some shape and none for another. The bounds on commands, staged writes, submissions in flight and
steps only stop a thread from recording more before somebody submits; each is above the point where the
interesting case - a second command or a write behind an unexecuted one - occurs. Deadlock is checked
except in the `host_code` machines, most of which are a single call, and whose threads do wait for each other's locks
for ever; when they may is an invariant there.

`cuda_capture` has a `VIEW`: once a capture has been disturbed `AsIfEager` claims nothing, and guards depend on which
cells a graph touches and how long a capture is, but neither on what storages and temporaries hold nor on what
captured commands do, so that states which only differ in that are explored once. `TypeOK` and `GraphReadsStaged` are
themselves part of the view.

Runs that end in a violation, each a disagreement between the code and its own words:

* `scattered_stale`: in a batch of one, a step of `context` keys or more advances the builder's index, but
  `ScatteredKvCache::append` (kv_cache.rs:358) stores nothing; the next short step attends to slots that hold
  zeros or older keys.
* `mimi_future_keys`: the attention masks by the length of its cache (mimi.rs:1365). Once the cache has
  been trimmed, or when one piece is longer than it, that is not the number of columns so far, and queries attend to
  later columns of their piece. TLC's shortest case is a decoder that keeps three columns and is fed two, which are
  four once upsampled, in its first step.
* `locks_exchanged`: `Tensor::storage` (tensor.rs:110) waits where its documentation has it return an error, and
  `a.inplace_add(&b)` waits for ever with `b.inplace_add(&a)` of another thread (inplace_ops.rs:135).
* `rope_batched`: `rope_` accepts batched tables longer than the sequence (by two rows in the run), and steps through them by the
  sequence's length (cpu_backend.rs:664).

### Fairness

`pool_liveness` assumes that each thread keeps running, that a share ends, and that a thread that
wants the park mutex gets it if it is free again and again (`SF` on the steps that lock it):
spinning workers retake it repeatedly, and the operating system's mutex does not starve one waiter for
ever. `webgpu_liveness` assumes that the GPU executes what is submitted, that a thread inside an
operation continues, and that one waiting for the context mutex or for room in the queue gets its
turn. Nothing is assumed about when a caller starts an operation. For Vulkan and Metal, whose
waits hold the mutex, `HolderGoesOn` says without fairness that the wait can always end.

## 5. Proofs

All theorems hold for every value of the constants under the modules' `ASSUME`s. The `ASSUME`s are what the code fixes (a batch and a ring
have room for something, `QUERY_CAP` for a timestamp and a command) or keep names apart (`DeviceAssumption`: a
temporary is not a storage).

* **`ThreadPoolProofs`** proves `Spec => []IInv` and from it the safety properties, for any
  finite set of workers and any calls, nested in any way. The properties are not inductive alone. That
  a closure is alive while used needs `SlotStable` (the slot belongs to the publishing call from the
  write to the join) and `DoneCounts` (while a call is published `done` is the number of workers through
  with this job, so the join's test means all of them), which in turn needs `OnePublisher` and that a
  worker past its latch has `last = seq`. `RanSoFar` and `PanicsSoFar` say, by program counter, what
  has run and where the record of a panic is. `SlotIsStable`, an action property, follows from the same
  invariant.
  Its last part proves `Spec => ForkJoinSpec`: shares map to shares, the claim (or
  the serial decision) to the contract's begin, the report to its return, all else to stuttering.
* **`SharingProofs`**, on `ParUnits`, proves disjointness and coverage for any length, piece size and number
  of threads. The invariant splits the pieces into those done, those held by a participant and those
  not handed out; the arithmetic of the cut (products and quotients by a variable) is in lemmas.
* **`KvCacheProofs`** proves, for any ring size and any appends, the invariants of the rotating
  cache: the order of the ring, by the inductive `TypeOK /\ RingInOrder`, and from it
  that an append returns the last keys once each, that the mask describes what is returned, and that
  `positions` does for all appends but those of exactly `max_seq_len` keys. One lemma per case of
  `append` says what it leaves in each slot.
* **`GpuCommandsProofs`** is what the backends' proofs know of a list of commands: executing a
  concatenation is executing its parts, a list leaves alone what it does not write, memories that agree
  on what a list reads or leaves agree after it, and a list read through a renaming of cells. `ExecAll` is
  a fold, so each is an induction on the length of the list. The library's induction theorems take an
  operator, which the provers cannot instantiate; `Induction` states the principle for a set of
  numbers instead, from `WFMin` and the order of the naturals being well founded.
* **`WebGpuBatchProofs`** proves every invariant of `WebGpuBatch`, for any threads, storages, buffers,
  ring and bounds, natively and in a browser. It has two layers. `Ownership` is about who has what: a thread
  that drains holds the mutex and everything is submitted; buffers in the open batch belong to a
  storage or to the freed list, never to the pool; what an asynchronous readback took is in no
  submission after the one it waits for. `OneOwner`, `PoolIsIdle` and `TypeOK` follow. Over it comes the content:
  executing the queue, then the staged writes, then the open batch gives each storage its
  eager value (`Settles`), and each readback what its reader may see (`ReadsDue`). It is only inductive
  with what a host write relies on between its flush and its write - nothing recorded meanwhile uses
  that buffer, except a readback that may return either contents (`WritesClear`) - which rests in turn on
  each copy in the open batch being about to be submitted by its own thread (`CopiesOwn`).
* **`DeviceOpsProofs`** and **`UnifiedMemoryProofs`** prove every invariant of `VulkanBatch` and of `MetalBatch` but
  `HolderGoesOn`, for any threads, storages, buffers and sizes of batches. What an operation of either backend is
  made of is a `Program`: its temporaries are allocated before use and freed last, its output is not
  written while an allocation may fail, a host access directly follows its flush; every member of
  `VulkanOps` and `MetalOps` is shown to be one. `Discipline` is what steps of programs keep whatever is done with the
  commands they record: locks, and each buffer in one place - a storage, a temporary, `free_bufs` or
  the pool. `Agreement` adds the contents, at the memory there will be once what is recorded has run
  (the pending commands are executed in the statement, so that a `MetalExecute` or a `VulkanExecute` leaves it as
  it was): storages nobody writes have their eager value; what is left of an operation makes its result of it; while
  an allocation may fail the output still has its old contents (`Intact`), since the failure leaves it at that.
  Host access is what batching could break: `HostReady` says that no pending command writes what the host is about
  to read, nor uses what it is about to write. Vulkan keeps it because the flush empties the batch and the locks
  on the operands keep everybody else's commands off them (`VulkanInv`); after a failed flush `Agreement` is given up,
  `HostReady` and `PoolIsIdle` are not. On Metal (`MetalInv`) it takes the short cut's reason, `Unmarked`: the buffer
  of a storage outside `gpu_used` is in no pending command. What a committed batch frees is used by no later command and
  freed once (`FreedLast`), which with execution in order (`InOrder`) is why retiring the oldest batch alone is safe.
* **`CudaCaptureProofs`** proves every invariant of `CudaCapture`, in three parts. `Discipline` is about what
  threads are at: the mode is `"REPLAY"` exactly while the stream captures; what is left of an operation is a part of
  it; and unless a capture was disturbed only the driver has an operation then, and nobody keeps another mode it has
  read (`Quiet`). `TypeOK` follows. `StagedKept` holds whoever captures: each staged buffer has the content it is
  cached for (`Holds`), and captured commands read only staged buffers that are in the cache and write none
  (`Reading`); `GraphReadsStaged` follows. It is kept because an entry of the cache is made once, outside a capture,
  and only cleared when nothing captured is left. `Agreement`, which is claimed while no capture was disturbed, adds
  the contents: what is left of an operation makes of memory what all of it makes of the storages' values
  (`Due`), and what is captured so far, with what is left of the operation being captured, does to any
  storages what the operations would (`Replays`). The last is about every memory, not the one at hand, since a graph is
  launched later and again; it needs that operations read no temporary they did not write (`Pure`, proved
  of every method of `CudaOps`), that what a capture uploads stays staged, and that a launch
  writes nothing of another thread (`Own`, `Covers`).
* **`SharingProofs`**, on `TensorLocks`, proves that guards exclude one another and that nothing poisoned is held, whence
  `HalfWrittenNotUsed`, for any operations; and `CirclesCrossOrder` for any number of threads and any operations,
  over storages that are numbers: a circle of waiting threads has one in it whose operation does not take its locks in
  descending order. A thread whose operation does holds only what is above all it still wants. In a circle of such
  threads somebody waits for the lowest storage; the thread he waits for
  holds it and waits for a lower one, or is a writer parked at it, behind one that
  does. Nothing in the code orders the operands, so circles there are (`locks_exchanged`, section 6); the theorem says
  which operations they take.
* **`SharingProofs`**, on `CpuLayout` and `CpuCompute`, proves `PiecesApart` for any shapes and strides, any number of
  participants and any sizes of tiles, lanes and stripes; the lemma of a kernel is for all its parameters,
  also where `ProductCall`, `RopeCall`, `ReduceCall` and `ConvCall` choose among a few. The invariant (`KernelInv`)
  is that the pieces of every stage still to run write apart: taking one out keeps it, so all that is left is
  what a call makes. There are two reasons why its pieces are apart. Either each writes in a chunk of its
  own (`Within`: transpositions, copies of views, rotations, reductions, transposed convolutions,
  attention), or all write to the same rows, each in columns (`Strip`: `cat`, `pad_with_same`), rows or channels of its own
  (stripes of a product, taps of a convolution). What is cited on the way is that counts of elements multiply when a shape is
  split, and that a place has one row and one column, though rows, sizes and shares are products and quotients by variables.
* **`KvCacheProofs`** also proves, of `ScatteredCache`, `IndexFollowsPosition` and `AttendsOnceStored` for any batch, ring and
  step lengths. A long step of a larger batch changes nothing. The inductive invariant says of each ring, once what is announced is stored, that it holds
  the last `context - 1` keys of its stream after `unstored`, each at its position's slot: not `context`, because
  the padding of a step that an element sits out goes over its oldest key. A step overwrites exactly the
  slots that `all_pos` says it does, so that the masks computed from the counters fit the ring returned later,
  whatever is reset in between.

Before they were proved, the inductive invariants were checked by TLC: that of `ThreadPool` in
`pool_safety`, the others as an invariant of the instance of a run: those of `WebGpuBatch` (`webgpu_safety`), of
`VulkanBatch` and `MetalBatch` (`unified_memory`), of `ScatteredCache` (`streaming`) and of the kernels (`host_code`) exhaustively, that of `CudaCapture` (`cuda_capture`), as it was before other threads could upload during a capture, by breadth-first
search to a depth and by random walks, as `Pure` and `Replays` range over every memory; `StagedKept` exhaustively.

Only model-checked: all liveness and `HolderGoesOn` (fairness and `ENABLED` are out of the prover's
reach); views, and what kernels compute, defined by folds and quotients over sequences of dimensions; Mimi, Demucs and quantized
weights, defined by folds and recursive functions over columns and bytes, and `QuantMatmul`'s tiles by a `RECURSIVE`
operator, which the provers cannot use at all.

## 6. What the models found, beyond the runs

Seen while modelling; each is a fact about the code, outside what a run asks because no text of the repository
says otherwise, because the models keep to the documented use, or because a run of its own would say no
more than the line.

* `positions` (kv_cache.rs:229) takes an append of exactly `max_seq_len` keys for a rotation, `append` does not;
  with a write index other than 0 the positions are a rotation of those returned. `PositionsUnlessRingful`
  leaves that append out, and says that it is the only one.
* A Mimi piece shorter than a frame is counted as one frame (`saturating_sub`, mimi.rs:323), and fails after
  the columns before it have been dropped; `StreamIsWhole` says that no piece of whole frames fails.
  `encode` and `decode` (2025) reset the attention of a stream in progress and leave their keys in it.
* `expand_dim` (tensor_view.rs:222) ignores the stride of the dimension it splits; the models split those of
  stride 1. An in-place broadcast (inplace_ops.rs:870) leaves elements unwritten where both operands have
  one element and the target more. `cat`, `slice_set` and others (tensor.rs:484) count a zero trailing dimension as one.
  `conv1d` longer than its signal underflows (ops.rs:467). `reduce_arg` treats NaN differently for an inner size of one.
* Besides the exchanged operands of `locks_exchanged`: `slice_assign`, `matmul_`, `to_dtype_` and `scatter_set` on one
  storage wait for themselves, and `x.add(&x)` takes its read lock twice, which waits for ever if a writer parks in
  between. All are circles `host_code` goes through, each with an operation that does not descend.
* A capture does meet copies from the host: the zero scale of the fp8 conversion (cuda_backend/quantization.rs:211)
  goes past the cache, and `cached_htod` reads the mode (mod.rs:190) before another thread begins the capture,
  where mod.rs:66-71 and 177-182 say that uploads are served from staged buffers then. The models take such a copy to fail,
  and say nothing of contents once another thread's work was captured with the driver's.
* `TensorView::reshape` (tensor_view.rs:426) falls back to a contiguous copy and calls itself on a view of that. Where
  `reshape_strides` still finds no strides - it knows one split or one merge - it recurses without end: so does a
  contiguous tensor of shape 2, 3, 2 reshaped to 4, 3 in one go, whatever its strides. `StridedViews` has that as an
  outcome (`overflowed`), after which nothing follows.
* Steps of `context` keys or more of a batch of two and more always fail (kv_cache.rs:513).
* Demucs: `flush` pads by the frame and loses columns when frames take more than one stride; with nothing pending it
  returns a stride of padding, and it resets neither the LSTM nor what encoders keep. The
  look-ahead has to leave a frame a whole number of strides longer than a kernel and to be shorter than the stride of a
  frame, and the resampling buffer has to be a multiple of the factor.
* Quantized: `make_qkx1_quants` gives a scale of 0 to a block of equal values; `Q8_1` is exported without `to_float` and a dot
  product; `matmul_by_row` names its two block counts the wrong way round.

## 7. Not modelled

* Rounding: elementwise kernels, norms, softmax, dtype conversions, how scales of quantized blocks are chosen,
  and the kernels for one instruction set, except for the tiles that avx and neon cut. The layout of KleidiAI, which
  comes first where it is built in (quantized/repack.rs:516): it is lossy, and `DecodedAsStored` does not hold of
  its bytes (repack.rs:546-549).
* The construction of the pool and the fallback to rayon; memory orders weaker than sequential consistency.
* GPU errors of WebGPU (a failed poll returns from a flush after submitting and before recycling, webgpu_backend/mod.rs:985)
  and Metal (the code does not look); events, modules and library heuristics of CUDA; size classes and pipelines.
* gemm's packed copy of a parameter, keyed by its address (ops.rs:439): the cache is in a foreign crate. What becomes of a
  returned tensor that is a clone of the ring (kv_cache.rs:184) and changes with the next append. `apply_unary` on a
  view, which writes the storage it shares (tensor_view.rs:434, pinned by a test).
* The bounded cache: one guard and one addition. File formats, weight lookup, layers, language models and support
  code: input and output, or pure compositions of what is modelled. Flash attention: vendored.
* Mimi's quantizer and non-causal models; Demucs' normalization, dry signal and resampling look-ahead.
