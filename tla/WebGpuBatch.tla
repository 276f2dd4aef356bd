---------------------------- MODULE WebGpuBatch ----------------------------
(***************************************************************************)
(* Command batching, buffer reuse and host access of the WebGPU backend    *)
(* (xn-core/src/webgpu_backend). Dispatches and copies are recorded into   *)
(* one encoder and submitted later; host writes are staged by the queue    *)
(* and applied at the head of the next submission; a dropped storage goes  *)
(* back to the pool only once the submission that uses it is known done.   *)
(*                                                                         *)
(* Threads run one operation at a time, under the locks of the tensors it  *)
(* names (ops.rs takes them): an output is not in use by another thread.   *)
(* The queue itself (wgpu) executes submissions in order. Left out: size   *)
(* classes (a pooled buffer fits or a new one is created, either way),     *)
(* compute passes and pipelines, and profiling. copy_strided's scratch is  *)
(* a storage that is created, read by one kernel and dropped.              *)
(***************************************************************************)
EXTENDS WebGpuOps, FiniteSets

CONSTANTS
  Blocking,     (* the threads that flush and read back synchronously      *)
  Async,        (* the threads that await flushes and readbacks            *)
  Buffers,      (* GPU buffers, created or still to be created             *)
  RingSlots,    (* PARAMS_RING_SLOTS                                       *)
  Targets,      (* of "native" and "wasm32", where a flush cannot wait     *)
  MaxCommands,  (* bound: commands in a batch                              *)
  MaxStaged,    (* bound: host writes staged or about to be                *)
  MaxInFlight   (* bound: submissions the queue has not executed           *)

ASSUME BatchAssumption ==
  /\ Inputs \subseteq Contents
  /\ Buffers \cap Threads = {}
  /\ None \notin Buffers \cup Threads \cup Tensors \cup Contents
  /\ RingSlots \in Nat \ {0} /\ MaxInFlight \in Nat

VARIABLES
  mem,        (* device memory: contents of buffers and of each thread's   *)
              (* readback staging buffer                                   *)
  inflight,   (* submissions the queue has not executed yet                *)
  staged,     (* queue.write_buffer calls since the last submission, fills *)
  cmds,       (* OpCtx::encoder, the commands of the open batch            *)
  params,     (* OpCtx::params                                             *)
  open,       (* OpCtx::open                                               *)
  free_bufs,  (* OpCtx::free_bufs                                          *)
  ctx,        (* the thread holding the OpCtx mutex across a wait          *)
  pool,       (* BufferPool::free                                          *)
  fresh,      (* buffers not created yet                                   *)
  buffer,     (* Storage::buffer                                           *)
  pc, op,     (* where each thread is, and the operation it is doing       *)
  freed,      (* the buffers an async operation is to recycle              *)
  ahead,      (* submissions a thread waits for that are still in flight   *)
  target      (* what the crate is compiled for                            *)

batch == <<cmds, params, open>>
bufs  == <<free_bufs, pool, fresh, buffer>>
vars  == <<eager, mem, inflight, staged, batch, ctx, bufs, pc, op, freed, ahead, target>>

Native == target = "native"

Locations == Buffers \cup Threads
NoOp == [kind |-> "none", dst |-> None, src |-> None, val |-> 0]
Kinds == {"none", "create", "kernel", "flush", "hostfill", "hostcopy", "read",
          "asyncread", "asyncflush"}

TypeOK ==
  /\ EagerTypeOK
  /\ mem \in [Locations -> Contents]
  /\ Len(inflight) <= MaxInFlight
  /\ \A i \in DOMAIN staged : staged[i].dst \in Buffers /\ staged[i].val \in Contents
  /\ Touched(cmds) \subseteq Locations
  /\ open = (cmds # <<>>) /\ (params # <<>> => open)
  /\ Len(params) <= RingSlots
  /\ ctx \in Threads \cup {None}
  /\ free_bufs \subseteq Buffers /\ pool \subseteq Buffers /\ fresh \subseteq Buffers
  /\ buffer \in [Tensors -> Buffers \cup {None}]
  /\ pc \in [Threads -> {"idle", "write", "submit", "drain", "await"}]
  /\ \A th \in Threads : op[th].kind \in Kinds
  /\ freed \in [Threads -> SUBSET Buffers]
  /\ ahead \in [Threads -> 0 .. MaxInFlight]
  /\ target \in Targets

Init ==
  /\ EagerInit
  /\ mem = [l \in Locations |-> 0]
  /\ inflight = <<>> /\ staged = <<>> /\ cmds = <<>> /\ params = <<>> /\ open = FALSE
  /\ ctx = None
  /\ free_bufs = {} /\ pool = {} /\ fresh = Buffers
  /\ buffer = [t \in Tensors |-> None]
  /\ pc = [th \in Threads |-> "idle"] /\ op = [th \in Threads |-> NoOp]
  /\ freed = [th \in Threads |-> {}] /\ ahead = [th \in Threads |-> 0]
  /\ target \in Targets

-----------------------------------------------------------------------------
(* The queue (wgpu): a submission's host writes come before its commands,  *)
(* and its commands find their parameters in the slots uploaded with it.   *)

Resolved(cs, ps) ==
  [i \in DOMAIN cs |-> IF cs[i].op = "fill" THEN Fill(cs[i].dst, ps[cs[i].val]) ELSE cs[i]]
Run(m, sub) == ExecAll(m, sub.writes \o Resolved(sub.cmds, sub.params))
RunAll(m, subs) ==
  LET after[i \in 0 .. Len(subs)] == IF i = 0 THEN m ELSE Run(after[i - 1], subs[i])
  IN after[Len(subs)]

Execute ==
  /\ inflight # <<>>
  /\ mem' = Run(mem, Head(inflight))
  /\ inflight' = Tail(inflight)
  /\ ahead' = [th \in Threads |-> IF ahead[th] > 0 THEN ahead[th] - 1 ELSE 0]
  /\ UNCHANGED <<eager, staged, batch, ctx, bufs, pc, op, freed, target>>

(* Device memory once everything recorded so far has run.                  *)
Batch(cs) == [writes |-> staged, params |-> params, cmds |-> cs]
Settled == RunAll(mem, Append(inflight, Batch(cmds)))

-----------------------------------------------------------------------------
(* Threads and the locks of tensors: a thread between the steps of an      *)
(* operation holds its output and, unless it only awaits, its input.       *)

Begin(th, step, o) ==
  /\ pc[th] = "idle"
  /\ pc' = [pc EXCEPT ![th] = step]
  /\ op' = [op EXCEPT ![th] = o]
Step(th, from, to) ==
  /\ pc[th] = from
  /\ pc' = [pc EXCEPT ![th] = to]
End(th, from) ==
  /\ Step(th, from, "idle")
  /\ op' = [op EXCEPT ![th] = NoOp]

(* The bound on staged writes, reserved by those who are going to write.   *)
MayWrite ==
  Len(staged) + Cardinality({u \in Threads : op[u].kind \in {"create", "hostfill", "hostcopy"}})
    < MaxStaged

Readable(t) == Live(t) /\ \A u \in Threads : op[u].dst # t
Writable(t) ==
  /\ Readable(t)
  /\ \A u \in Threads : op[u].src = t => op[u].kind = "asyncread"
Unused(t) == Readable(t) /\ \A u \in Threads : op[u].src # t

(* Record a command. A dispatch takes the next parameter slot, and its     *)
(* slot number stands in for its parameters.                               *)
RecordCopy(d, s) ==
  /\ cmds' = Append(cmds, Copy(d, s))
  /\ open' = TRUE
  /\ UNCHANGED params
RecordDispatchUnopened(c) ==
  /\ cmds' = Append(cmds, IF c.op = "fill" THEN Fill(c.dst, Len(params) + 1) ELSE c)
  /\ params' = Append(params, c.val)
  /\ UNCHANGED open

RecordDispatch(c) ==
  /\ Len(params) < RingSlots
  /\ cmds' = Append(cmds, IF c.op = "fill" THEN Fill(c.dst, Len(params) + 1) ELSE c)
  /\ params' = Append(params, c.val)
  /\ open' = TRUE

OnBuffers(c) == [c EXCEPT !.dst = buffer[c.dst], !.src = buffer[c.src]]

(* submit_locked, after recording cs: the open batch becomes a submission  *)
(* that takes the staged writes along; the parameters start afresh.        *)
SubmitBatch(cs) ==
  LET opened == open \/ cs # <<>>
  IN /\ opened => Len(inflight) < MaxInFlight
     /\ inflight' = IF opened THEN Append(inflight, Batch(cmds \o cs)) ELSE inflight
     /\ staged' = IF opened THEN <<>> ELSE staged
     /\ cmds' = IF opened THEN <<>> ELSE cmds
     /\ open' = FALSE
     /\ params' = <<>>

(* The caller will wait for everything the queue then holds.               *)
Submit(th, cs) ==
  /\ SubmitBatch(cs)
  /\ ahead' = [ahead EXCEPT ![th] = Len(inflight')]

-----------------------------------------------------------------------------
(* Storage                                                                 *)

Allocate(t, b) ==
  /\ b \in pool \cup fresh
  /\ buffer[t] = None
  /\ buffer' = [buffer EXCEPT ![t] = b]
  /\ pool' = pool \ {b} /\ fresh' = fresh \ {b}
  /\ UNCHANGED free_bufs

(* alloc_uninit: whatever the buffer held is the new storage's contents.   *)
AllocUninit(th, t, b) ==
  /\ pc[th] = "idle"
  /\ Allocate(t, b)
  /\ Create(t, Settled[b])
  /\ UNCHANGED <<mem, inflight, staged, batch, ctx, pc, op, freed, ahead>>

(* from_vec, up to the upload.                                             *)
FromVec(th, t, b, v) ==
  /\ MayWrite
  /\ Begin(th, "write", [kind |-> "create", dst |-> t, src |-> None, val |-> v])
  /\ Allocate(t, b)
  /\ UNCHANGED <<eager, mem, inflight, staged, batch, ctx, freed, ahead>>

(* Storage::drop, defer_free: kept until a later flush completes.          *)
DropStorage(t) ==
  /\ ctx = None
  /\ Unused(t)
  /\ Discard(t)
  /\ free_bufs' = free_bufs \cup {buffer[t]}
  /\ buffer' = [buffer EXCEPT ![t] = None]
  /\ UNCHANGED <<mem, inflight, staged, batch, ctx, pool, fresh, pc, op, freed, ahead,
                 target>>

(* The staging buffer of a readback goes with the operation that made it.  *)
Unmap(th, kind) ==
  mem' = IF op[th].kind = kind THEN [mem EXCEPT ![th] = 0] ELSE mem

(* write_buffer_data: the upload of from_vec, or the last step of an       *)
(* operation that computes on the host, from a value or from its readback. *)
Write(th) ==
  LET o == op[th]
      v == IF o.kind = "hostcopy" THEN Combine(o.val, mem[th]) ELSE o.val
  IN /\ End(th, "write")
     /\ staged' = Append(staged, Fill(buffer[o.dst], v))
     /\ \/ o.kind = "create" /\ Create(o.dst, o.val)
        \/ o.kind = "hostfill" /\ Put(o.dst, o.val)
        \/ o.kind = "hostcopy" /\ PutRead(th, o.dst, o.val)
     /\ Unmap(th, "hostcopy")
     /\ UNCHANGED <<inflight, batch, ctx, bufs, freed, ahead>>

-----------------------------------------------------------------------------
(* Kernels and copies                                                      *)

(* To the batch a kernel over its output alone is as good as a fill, and   *)
(* is left out.                                                            *)
KernelsOn ==
  [t \in Tensors |->
     {c.cmd : c \in {c \in StepsOn[t] : c.do = "dispatch" /\ c.cmd # Accum(t, t)}}]
Operands(c) == Writable(c.dst) /\ (c.src # c.dst => Readable(c.src))

(* dispatch_nd with room in the ring.                                      *)
Dispatch(th, c) ==
  /\ ctx = None /\ pc[th] = "idle" /\ Operands(c)
  /\ Len(cmds) < MaxCommands
  /\ RecordDispatch(OnBuffers(c))
  /\ Kernel(c)
  /\ UNCHANGED <<mem, inflight, staged, ctx, bufs, pc, op, freed, ahead>>

(* dispatch_nd with a full ring: flush first, then record, under one lock. *)
DispatchFull(th, c) ==
  /\ ctx = None /\ Operands(c)
  /\ Len(params) = RingSlots
  /\ Begin(th, "drain", [kind |-> "kernel", dst |-> c.dst, src |-> c.src, val |-> c])
  /\ ctx' = th
  /\ Submit(th, <<>>)
  /\ UNCHANGED <<eager, mem, bufs, freed>>

(* record_copy (copy, to_dtype between equal types).                       *)
CopyBuffer(th, t, s) ==
  /\ ctx = None /\ pc[th] = "idle" /\ Writable(t) /\ Readable(s) /\ t # s
  /\ Len(cmds) < MaxCommands
  /\ RecordCopy(buffer[t], buffer[s])
  /\ Kernel(Copy(t, s))
  /\ UNCHANGED <<mem, inflight, staged, ctx, bufs, pc, op, freed, ahead>>

-----------------------------------------------------------------------------
(* Synchronous flushes: flush_locked submits, waits with the mutex held,   *)
(* and recycles what was freed. On wasm it neither waits nor recycles.     *)

StartFlush(th, o, cs) ==
  /\ ctx = None
  /\ Begin(th, "drain", o)
  /\ ctx' = th
  /\ Submit(th, cs)
  /\ UNCHANGED <<mem, bufs, freed>>

Flush(th) == StartFlush(th, [NoOp EXCEPT !.kind = "flush"], <<>>) /\ UNCHANGED eager

(* fill of a type the GPU does not take, rand_uniform, randn.              *)
HostFillUnflushed(th, t, v) ==
  /\ MayWrite /\ Writable(t)
  /\ Begin(th, "write", [kind |-> "hostfill", dst |-> t, src |-> None, val |-> v])
  /\ UNCHANGED <<eager, mem, inflight, staged, batch, ctx, bufs, freed, ahead>>

HostFill(th, t, v) ==
  /\ MayWrite /\ Writable(t)
  /\ StartFlush(th, [kind |-> "hostfill", dst |-> t, src |-> None, val |-> v], <<>>)
  /\ UNCHANGED eager

(* read_buffer: the copy to a staging buffer joins the batch it flushes.   *)
Readback(th, s) == <<Copy(th, buffer[s])>>

Read(th, s) ==
  /\ Native /\ Readable(s)
  /\ StartFlush(th, [kind |-> "read", dst |-> None, src |-> s, val |-> 0], Readback(th, s))
  /\ Ask(th, s, {})

(* An operation on the host: to_host on the input, then an upload. One     *)
(* that does not overwrite its output has read it back before (as Read     *)
(* does), and no one can have changed it since.                            *)
HostCopy(th, c) ==
  LET own == IF c.op = "accum" THEN val[c.dst] ELSE 0
  IN /\ Native /\ MayWrite /\ Writable(c.dst) /\ Readable(c.src)
     /\ StartFlush(th, [kind |-> "hostcopy", dst |-> c.dst, src |-> c.src, val |-> own],
                   Readback(th, c.src))
     /\ Ask(th, c.src, {})

(* recycle without taking the list (mem::take).                            *)
RecycleCopies ==
  /\ pool' = IF Native THEN pool \cup free_bufs ELSE pool
  /\ UNCHANGED <<free_bufs, fresh, buffer>>

Drained(th) == pc[th] = "drain" /\ (Native => ahead[th] = 0)

Recycle ==
  /\ pool' = IF Native THEN pool \cup free_bufs ELSE pool
  /\ free_bufs' = IF Native THEN {} ELSE free_bufs
  /\ UNCHANGED <<fresh, buffer>>

(* The wait is over: what follows depends on who flushed.                  *)
FlushedThenRecord(th) ==
  /\ Drained(th) /\ op[th].kind = "kernel"
  /\ RecordDispatch(OnBuffers(op[th].val))
  /\ Kernel(op[th].val)
  /\ End(th, "drain")
  /\ ctx' = None
  /\ Recycle
  /\ UNCHANGED <<mem, inflight, staged, freed, ahead>>

FlushedThenWrite(th) ==
  /\ Drained(th) /\ op[th].kind \in {"hostfill", "hostcopy"}
  /\ Step(th, "drain", "write")
  /\ ctx' = None
  /\ Recycle
  /\ UNCHANGED <<eager, mem, inflight, staged, batch, op, freed, ahead>>

FlushedThenReturn(th) ==
  /\ Drained(th) /\ op[th].kind \in {"flush", "read"}
  /\ End(th, "drain")
  /\ Answered(th)
  /\ Unmap(th, "read")
  /\ ctx' = None
  /\ Recycle
  /\ UNCHANGED <<inflight, staged, batch, freed, ahead>>

-----------------------------------------------------------------------------
(* Asynchronous operations: submit_pending takes the buffers freed so far, *)
(* the future waits without the mutex, and recycles what it took.          *)

(* Host writes to a storage that its lock holder has not issued yet.       *)
Overlapping(s) ==
  UNION {IF op[u].kind = "hostcopy" THEN {Combine(op[u].val, v) : v \in read[u]}
         ELSE {op[u].val} :
           u \in {w \in Threads : pc[w] = "write" /\ op[w].dst = s}}

(* tensor_to_vec lets go of the tensor's lock before read_buffer_async     *)
(* records the copy, so the copy may fall between the steps of a write.    *)
AsyncRead(th, s) ==
  /\ ctx = None
  /\ Len(cmds) < MaxCommands
  /\ Begin(th, "submit", [kind |-> "asyncread", dst |-> None, src |-> s, val |-> 0])
  /\ RecordCopy(th, buffer[s])
  /\ Ask(th, s, Overlapping(s))
  /\ UNCHANGED <<mem, inflight, staged, ctx, bufs, freed, ahead>>

Take(th) ==
  /\ freed' = [freed EXCEPT ![th] = free_bufs]
  /\ free_bufs' = {}
  /\ UNCHANGED <<pool, fresh, buffer>>

(* Waits for a submission of its own though another thread may already     *)
(* have submitted the copy.                                                *)
SubmitPendingWaitsOn(th) ==
  /\ ctx = None
  /\ Step(th, "submit", "await")
  /\ SubmitBatch(<<>>)
  /\ ahead' = [ahead EXCEPT ![th] = Len(inflight) + 1]
  /\ Take(th)
  /\ UNCHANGED <<eager, mem, ctx, op, target>>

SubmitPending(th) ==
  /\ ctx = None
  /\ Step(th, "submit", "await")
  /\ Submit(th, <<>>)
  /\ Take(th)
  /\ UNCHANGED <<eager, mem, ctx, op, target>>

(* flush_async                                                             *)
AsyncFlush(th) ==
  /\ ctx = None
  /\ Begin(th, "await", [NoOp EXCEPT !.kind = "asyncflush"])
  /\ Submit(th, <<>>)
  /\ Take(th)
  /\ UNCHANGED <<eager, mem, ctx>>

(* Recycles what is free when the wait is over, not what was taken.        *)
CompleteLate(th) ==
  /\ End(th, "await")
  /\ ahead[th] = 0
  /\ Answered(th)
  /\ pool' = pool \cup freed[th] \cup free_bufs
  /\ freed' = [freed EXCEPT ![th] = {}]
  /\ free_bufs' = {}
  /\ Unmap(th, "asyncread")
  /\ UNCHANGED <<inflight, staged, batch, ctx, fresh, buffer, ahead>>

Complete(th) ==
  /\ End(th, "await")
  /\ ahead[th] = 0
  /\ Answered(th)
  /\ Unmap(th, "asyncread")
  /\ pool' = pool \cup freed[th]
  /\ freed' = [freed EXCEPT ![th] = {}]
  /\ UNCHANGED <<inflight, staged, batch, ctx, free_bufs, fresh, buffer, ahead>>

(* A poll or a map that fails, or a future that is dropped: the buffers it *)
(* had taken are destroyed, not recycled.                                  *)
Abandon(th) ==
  /\ End(th, "await")
  /\ Answered(th)
  /\ freed' = [freed EXCEPT ![th] = {}]
  /\ ahead' = [ahead EXCEPT ![th] = 0]
  /\ UNCHANGED <<mem, inflight, staged, batch, ctx, bufs, target>>

-----------------------------------------------------------------------------
Continue(th) ==
  /\ \/ Write(th) \/ SubmitPending(th) \/ Complete(th)
     \/ FlushedThenRecord(th) \/ FlushedThenWrite(th) \/ FlushedThenReturn(th)
  /\ UNCHANGED target

Start(th) ==
  /\ UNCHANGED target
  /\ \/ th \in Blocking /\ Flush(th)
     \/ th \in Async /\ AsyncFlush(th)
     \/ \E t \in Tensors :
          \/ th \in Blocking /\ Read(th, t)
          \/ th \in Async /\ AsyncRead(th, t)
          \/ \E b \in Buffers : AllocUninit(th, t, b) \/ \E v \in Inputs : FromVec(th, t, b, v)
          \/ \E c \in KernelsOn[t] : Dispatch(th, c) \/ DispatchFull(th, c)
          \/ \E c \in StepsOn[t] :
               \/ c.do = "copy" /\ CopyBuffer(th, t, c.cmd.src)
               \/ c.do = "upload" /\ HostFill(th, t, c.cmd.val)
               \/ c.do = "compute" /\ HostCopy(th, c.cmd)

Next ==
  \/ Execute
  \/ \E t \in Tensors : DropStorage(t)
  \/ \E th \in Threads : Start(th) \/ Continue(th) \/ Abandon(th)

Spec == Init /\ [][Next]_vars

(* The GPU keeps executing, a runnable thread keeps running, and a mutex   *)
(* that is free again and again is handed to each thread that waits.       *)
FairSpec ==
  /\ Spec
  /\ WF_vars(Execute)
  /\ \A th \in Threads : WF_vars(Continue(th)) /\ SF_vars(SubmitPending(th))

-----------------------------------------------------------------------------
(* Properties                                                              *)

(* Deferring changes nothing a caller can see: once everything recorded    *)
(* has run, each storage holds what eager execution gave it, and each      *)
(* readback under way returns what the storage held when it was asked for  *)
(* (or what a write already under way then was about to give it).          *)
AsIfEager ==
  LET settled == Settled
  IN /\ \A t \in Tensors : Live(t) => settled[buffer[t]] = val[t]
     /\ \A th \in Threads :
          read[th] # {} =>
            /\ settled[th] \in read[th]
            /\ pc[th] # "submit" /\ ahead[th] = 0 => mem[th] \in read[th]

(* "Recycling a buffer the GPU has not finished with would corrupt it":    *)
(* what alloc_buffer may hand out is in no command, recorded or submitted. *)
PoolIsIdle ==
  LET busy == Touched(cmds) \cup UNION {Touched(inflight[i].cmds) : i \in DOMAIN inflight}
  IN (pool \cup fresh) \cap busy = {}

(* A buffer has one owner: a storage, the list of the next flush, a future *)
(* or the pool.                                                            *)
OneOwner ==
  /\ \A t, u \in Tensors : buffer[t] = buffer[u] /\ buffer[t] # None => t = u
  /\ \A t \in Tensors : buffer[t] \notin pool \cup fresh \cup free_bufs \cup UNION {freed[th] : th \in Threads}
  /\ pool \cap (fresh \cup free_bufs) = {}
  /\ \A th \in Threads :
       /\ freed[th] \cap (pool \cup fresh \cup free_bufs) = {}
       /\ \A u \in Threads \ {th} : freed[th] \cap freed[u] = {}

(* Every operation returns: a flush that holds the mutex while it waits    *)
(* does not keep the others waiting for ever.                              *)
OperationsReturn == \A th \in Threads : pc[th] # "idle" ~> pc[th] = "idle"

=============================================================================
