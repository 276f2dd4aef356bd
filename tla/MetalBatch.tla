---------------------------- MODULE MetalBatch ----------------------------
(***************************************************************************)
(* Command batching of the Metal backend (metal_backend/mod.rs): a batch   *)
(* is committed without waiting every SUBMIT_CHUNK commands, so several    *)
(* are in flight, each with the buffers freed while it was recorded; they  *)
(* retire in order, when seen completed, when too many are outstanding or  *)
(* at a flush. A storage no command has named is accessed without a flush. *)
(* Left out: a command buffer that ends in error (the code does not look). *)
(***************************************************************************)
EXTENDS DeviceOps

CONSTANTS
  Limits,       (* what SUBMIT_CHUNK and MAX_IN_FLIGHT may be              *)
  MaxCommands   (* bound: commands recorded and not executed, SUBMIT_CHUNK *)
                (* or more: recording waits for the GPU when it is reached *)

VARIABLES
  in_flight,  (* OpCtx::in_flight: the commands of each batch, none once   *)
              (* it has completed, and the buffers it frees                *)
  gpu_used,   (* the storages with Storage::gpu_used                       *)
  limits      (* constants of the code, chosen at the start                *)

metal_vars == <<shared, in_flight, gpu_used, limits>>

Metal == INSTANCE MetalOps

ASSUME MetalAssumption == Limits \subseteq [SubmitChunk : Nat \ {0}, MaxInFlight : Nat]
SubmitChunk == limits.SubmitChunk
MaxInFlight == limits.MaxInFlight

Completed(batch) == batch.cmds = <<>>

MetalTypeOK ==
  /\ SharedTypeOK
  /\ Len(cmds) < SubmitChunk
  /\ Len(in_flight) <= MaxInFlight + 1
  /\ ctx = None => Len(in_flight) <= MaxInFlight
  /\ \A i \in DOMAIN in_flight :
       /\ Touched(in_flight[i].cmds) \subseteq Buffers
       /\ in_flight[i].free \subseteq Buffers
  /\ gpu_used \subseteq Tensors
  /\ limits \in Limits

MetalInit ==
  /\ SharedInit
  /\ in_flight = <<>> /\ gpu_used = {}
  /\ limits \in Limits

metal_state == <<in_flight, gpu_used, profiled, limits>>

-----------------------------------------------------------------------------
(* submit_locked, on top of what else the batch gets.                      *)
Submitted(batch) ==
  IF batch = <<>> THEN in_flight
  ELSE Append(in_flight, [cmds |-> batch, free |-> free_bufs])
KeptFree(batch) == IF batch = <<>> THEN free_bufs ELSE {}

Retired(fl, n) == SubSeq(fl, n + 1, Len(fl))
Freed(fl, n) == UNION {fl[i].free : i \in 1 .. n}

(* maybe_submit retires the completed batches at the front.                *)
CompletedFront(fl) ==
  CHOOSE n \in 0 .. Len(fl) :
    /\ \A i \in 1 .. n : Completed(fl[i])
    /\ n < Len(fl) => ~Completed(fl[n + 1])

Outstanding ==
  Len(cmds) + Cardinality(UNION {{i} \X DOMAIN in_flight[i].cmds : i \in DOMAIN in_flight})

(* The storages whose buf() an operation takes.                            *)
Named(c) == ({c.dst, c.src} \cap Tensors)

RecordTo(th, used) ==
  LET batch == Append(cmds, NextCommand(th))
      fl == Submitted(batch)
      n  == CompletedFront(fl)
  IN /\ todo[th] # <<>> /\ Records(Head(todo[th]))
     /\ ctx = None
     /\ Outstanding < MaxCommands
     /\ gpu_used' = gpu_used \cup used
     /\ \/ /\ ~profiled /\ Len(batch) < SubmitChunk
           /\ cmds' = batch
           /\ Advance(th)
           /\ UNCHANGED <<mem, ctx, bufs, in_flight>>
        \/ /\ ~profiled /\ Len(batch) >= SubmitChunk
           /\ cmds' = <<>>
           /\ in_flight' = Retired(fl, n)
           /\ free_bufs' = {}
           /\ pool' = pool \cup Freed(fl, n)
           /\ mem' = Recycled(mem, Freed(fl, n))
           /\ IF Len(in_flight') > MaxInFlight
              THEN ctx' = th /\ UNCHANGED <<eager, threads>>
              ELSE Advance(th) /\ UNCHANGED ctx
           /\ UNCHANGED buffer
        \/ /\ profiled
           /\ cmds' = <<>>
           /\ in_flight' = fl
           /\ free_bufs' = {}
           /\ ctx' = th
           /\ UNCHANGED <<eager, mem, threads, pool, buffer>>
     /\ UNCHANGED <<profiled, limits>>

RecordUnmarked(th) == RecordTo(th, Named(Head(todo[th]).cmd) \ {Head(todo[th]).cmd.dst})
MetalRecord(th) == RecordTo(th, Named(Head(todo[th]).cmd))

Drains(th) ==
  \/ Next1(th, "flush")
  \/ Next1(th, "flushused") /\ Head(todo[th]).cmd.dst \in gpu_used

FlushCommit(th) ==
  /\ Drains(th)
  /\ ctx = None
  /\ in_flight' = Submitted(cmds)
  /\ free_bufs' = KeptFree(cmds)
  /\ cmds' = <<>>
  /\ IF in_flight' = <<>>
     THEN Advance(th) /\ UNCHANGED ctx
     ELSE ctx' = th /\ UNCHANGED <<eager, threads>>
  /\ UNCHANGED <<mem, pool, buffer, gpu_used, profiled, limits>>

(* The host access needs no flush, and does not take the mutex.            *)
SkipFlush(th) ==
  /\ Next1(th, "flushused") /\ ~Drains(th)
  /\ Advance(th)
  /\ UNCHANGED <<mem, cmds, ctx, bufs, metal_state>>

(* The queue executes the batches in the order they were committed.        *)
MetalExecute ==
  \E i \in DOMAIN in_flight :
    /\ ~Completed(in_flight[i])
    /\ \A j \in 1 .. i - 1 : Completed(in_flight[j])
    /\ mem' = ExecAll(mem, in_flight[i].cmds)
    /\ in_flight' = [in_flight EXCEPT ![i].cmds = <<>>]
    /\ UNCHANGED <<eager, cmds, ctx, bufs, threads, gpu_used, profiled, limits>>

Retire(th, n) ==
  /\ in_flight' = Retired(in_flight, n)
  /\ pool' = pool \cup Freed(in_flight, n)
  /\ mem' = Recycled(mem, Freed(in_flight, n))
  /\ ctx' = None
  /\ Advance(th)
  /\ UNCHANGED <<cmds, free_bufs, buffer, gpu_used, profiled, limits>>

WaitsForAll(th) == ctx = th /\ (profiled \/ Drains(th))

(* The newest has completed, hence all of them.                            *)
FlushDone(th) ==
  /\ WaitsForAll(th)
  /\ Completed(in_flight[Len(in_flight)])
  /\ Retire(th, Len(in_flight))

(* Too many outstanding: recording has waited for the oldest.              *)
Backpressure(th) ==
  /\ ctx = th /\ ~WaitsForAll(th)
  /\ Completed(in_flight[1])
  /\ Retire(th, 1)

-----------------------------------------------------------------------------
MetalStart(th) ==
  /\ todo[th] = <<>>
  /\ UNCHANGED metal_state
  /\ \/ \E p \in Metal!synchronize : Begin(th, None, None, p)
     \/ /\ th \in Workers
        /\ \E t \in Tensors :
             \/ \E p \in Metal!data(t) : Begin(th, None, t, p)
             \/ \E p \in Metal!AlonePrograms[t] : Begin(th, t, None, p)
             \/ \E s \in Tensors \ {t} : \E p \in Metal!PairPrograms[t][s] : Begin(th, t, s, p)

MetalProceed(th) ==
  \/ MetalRecord(th) \/ FlushCommit(th) \/ SkipFlush(th) \/ FlushDone(th) \/ Backpressure(th)
  \/ UNCHANGED metal_state /\ (DeferFree(th) \/ HostAccess(th) \/ \E b \in Buffers : AllocTemp(th, b))

MetalFails(th) == AllocFails(th) /\ UNCHANGED metal_state

(* A new storage has gpu_used false.                                       *)
MetalStorage(t) ==
  /\ \/ DropStorage(t) /\ gpu_used' = gpu_used \ {t}
     \/ /\ \E b \in Buffers : AllocUninit(t, b) \/ \E v \in Inputs : FromVec(t, b, v)
        /\ UNCHANGED gpu_used
  /\ UNCHANGED <<in_flight, profiled, limits>>

MetalNext ==
  \/ MetalExecute
  \/ \E t \in Tensors : MetalStorage(t)
  \/ \E th \in Threads : MetalStart(th) \/ MetalProceed(th) \/ MetalFails(th)

MetalSpec == MetalInit /\ [][MetalNext]_metal_vars

-----------------------------------------------------------------------------
(* Properties                                                              *)

(* Memory once the committed batches have run.                             *)
ExecBatches(m, fl) ==
  LET after[i \in 0 .. Len(fl)] == IF i = 0 THEN m ELSE ExecAll(after[i - 1], fl[i].cmds)
  IN after[Len(fl)]

(* Batching, commits without waiting and host access without a flush are   *)
(* invisible: once everything recorded has run, every storage no operation *)
(* is writing holds what eager execution gave it, and what a readback      *)
(* copies is right.                                                        *)
MetalAsIfEager ==
  /\ Settles(ExecAll(ExecBatches(mem, in_flight), cmds))
  /\ ReadsRight

(* "The pool only recycles buffers from completed batches": no buffer in   *)
(* it is known to a command that has not run.                              *)
MetalPoolIsIdle ==
  pool \cap (Touched(cmds) \cup UNION {Touched(in_flight[i].cmds) : i \in DOMAIN in_flight}) = {}

(* No wait for ever under the mutex: whoever holds it across a wait can go *)
(* on, or the GPU, whose end it waits for, still has something to execute. *)
MetalHolderGoesOn == \A th \in Threads : ctx = th => ENABLED (MetalExecute \/ FlushDone(th) \/ Backpressure(th))

=============================================================================
