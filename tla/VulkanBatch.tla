---------------------------- MODULE VulkanBatch ----------------------------
(***************************************************************************)
(* Command batching of the Vulkan backend (vulkan_backend/mod.rs): one     *)
(* command buffer, recorded under a mutex and submitted when the host      *)
(* needs the results or when the batch is full; the mutex is held until    *)
(* the GPU is done, and only then the freed buffers go back to the pool.   *)
(***************************************************************************)
EXTENDS DeviceOps

CONSTANTS
  MaxSets,      (* MAX_SETS_PER_BATCH                                      *)
  QueryCap,     (* QUERY_CAP: timestamps in a batch, when profiling        *)
  MaxCopies     (* bound: copies in a batch or about to be recorded        *)

VARIABLES
  open,       (* OpCtx::open                                               *)
  n_sets,     (* OpCtx::n_sets                                             *)
  running,    (* the batch is with the GPU                                 *)
  lost        (* the device has failed: nothing executes any more          *)

vulkan_vars == <<shared, open, n_sets, running, lost>>

ASSUME VulkanAssumption == MaxSets \in Nat \ {0} /\ QueryCap \in Nat \ {0, 1}

Vulkan == INSTANCE VulkanOps

VulkanTypeOK ==
  /\ SharedTypeOK
  /\ open \in BOOLEAN /\ (cmds # <<>> => open)
  /\ n_sets \in 0 .. MaxSets /\ (ctx = None => n_sets <= Len(cmds))
  /\ running \in BOOLEAN /\ (running => ctx # None /\ open)
  /\ lost \in BOOLEAN

VulkanInit ==
  /\ SharedInit
  /\ open = FALSE /\ n_sets = 0 /\ running = FALSE /\ lost = FALSE

vulkan_state == <<open, n_sets, running, lost, profiled>>

-----------------------------------------------------------------------------
(* Timestamps written so far: one at the start and one after each command. *)
n_queries == IF profiled /\ open THEN 1 + Len(cmds) ELSE 0

Full(step) ==
  \/ step.do = "dispatch" /\ n_sets >= MaxSets
  \/ n_queries + 1 >= QueryCap

AddTo(batch, sets, th) ==
  /\ cmds' = Append(batch, NextCommand(th))
  /\ open' = TRUE
  /\ n_sets' = sets + (IF Next1(th, "dispatch") THEN 1 ELSE 0)

(* dispatch_nd, record_copy with room in the batch.                        *)
VulkanRecord(th) ==
  /\ todo[th] # <<>> /\ Records(Head(todo[th]))
  /\ ctx = None
  /\ ~Full(Head(todo[th]))
  /\ AddTo(cmds, n_sets, th)
  /\ Advance(th)
  /\ UNCHANGED <<mem, ctx, bufs, running, lost, profiled>>

(* A full batch flushed through the public entry, with the mutex held.     *)
SubmitRelocks(th) ==
  /\ todo[th] # <<>>
  /\ \/ Next1(th, "flush") /\ open
     \/ Records(Head(todo[th])) /\ Full(Head(todo[th]))
  /\ ctx \in {None, th}
  /\ ctx' = th
  /\ running' = Next1(th, "flush")
  /\ UNCHANGED <<eager, mem, cmds, bufs, threads, open, n_sets, lost, profiled>>

(* flush, or the flush a full batch forces: submit, and keep the mutex.    *)
Submit(th) ==
  /\ todo[th] # <<>>
  /\ \/ Next1(th, "flush") /\ open
     \/ Records(Head(todo[th])) /\ Full(Head(todo[th]))
  /\ ctx = None
  /\ ctx' = th
  /\ running' = TRUE
  /\ UNCHANGED <<eager, mem, cmds, bufs, threads, open, n_sets, lost, profiled>>

FlushNothing(th) ==
  /\ Next1(th, "flush")
  /\ ctx = None
  /\ ~open
  /\ Advance(th)
  /\ UNCHANGED <<mem, cmds, ctx, bufs, vulkan_state>>

(* The GPU runs the batch.                                                 *)
VulkanExecute ==
  /\ running /\ ~lost
  /\ mem' = ExecAll(mem, cmds)
  /\ cmds' = <<>>
  /\ running' = FALSE
  /\ UNCHANGED <<eager, ctx, bufs, threads, open, n_sets, lost, profiled>>

Recycle ==
  /\ mem' = Recycled(mem, free_bufs)
  /\ pool' = pool \cup free_bufs
  /\ free_bufs' = {}
  /\ UNCHANGED buffer

(* A flush that forgets to count the sets of the next batch from zero.     *)
FlushedLeavesSets(th) ==
  /\ ctx = th /\ open /\ ~running /\ cmds = <<>>
  /\ Recycle
  /\ ctx' = None
  /\ IF Records(Head(todo[th]))
     THEN AddTo(<<>>, 0, th)
     ELSE open' = FALSE /\ UNCHANGED <<cmds, n_sets>>
  /\ Advance(th)
  /\ UNCHANGED <<running, lost, profiled>>

(* The fence is signalled: recycle, and go on with what needed the flush.  *)
Flushed(th) ==
  /\ ctx = th /\ open /\ ~running /\ cmds = <<>>
  /\ Recycle
  /\ ctx' = None
  /\ IF Records(Head(todo[th]))
     THEN AddTo(<<>>, 0, th)
     ELSE open' = FALSE /\ n_sets' = 0 /\ UNCHANGED cmds
  /\ Advance(th)
  /\ UNCHANGED <<running, lost, profiled>>

(* end_command_buffer, queue_submit or wait_for_fences fails and keeps     *)
(* failing: the batch stays open and nothing is recycled.                  *)
FlushFails(th) ==
  /\ ctx = th /\ running
  /\ lost' = TRUE
  /\ running' = FALSE
  /\ ctx' = None
  /\ Abort(th)
  /\ UNCHANGED <<mem, cmds, bufs, open, n_sets, profiled>>

-----------------------------------------------------------------------------
BeginBounded(th, d, s, p) ==
  /\ Counted(p, {"record"}) # {} => Len(cmds) - n_sets + Ahead({"record"}) < MaxCopies
  /\ Begin(th, d, s, p)

(* Bound: once the device has failed only readbacks and flushes begin.     *)
VulkanStart(th) ==
  /\ todo[th] = <<>>
  /\ UNCHANGED vulkan_state
  /\ \/ \E p \in Vulkan!synchronize : Begin(th, None, None, p)
     \/ th \in Workers /\ \E t \in Tensors : \E p \in Vulkan!data(t) : Begin(th, None, t, p)
     \/ /\ th \in Workers /\ ~lost
        /\ \E t \in Tensors :
             \/ \E p \in Vulkan!AlonePrograms[t] : BeginBounded(th, t, None, p)
             \/ \E s \in Tensors \ {t} : \E p \in Vulkan!PairPrograms[t][s] : BeginBounded(th, t, s, p)

VulkanProceed(th) ==
  \/ VulkanRecord(th) \/ Submit(th) \/ FlushNothing(th) \/ Flushed(th)
  \/ UNCHANGED vulkan_state /\ (DeferFree(th) \/ HostAccess(th) \/ \E b \in Buffers : AllocTemp(th, b))

(* Bound: only workers meet the first failure.                             *)
VulkanFails(th) ==
  \/ (th \in Workers \/ lost) /\ FlushFails(th)
  \/ AllocFails(th) /\ UNCHANGED vulkan_state

VulkanStorage(t) ==
  /\ UNCHANGED vulkan_state /\ ~lost
  /\ \/ DropStorage(t)
     \/ \E b \in Buffers : AllocUninit(t, b) \/ \E v \in Inputs : FromVec(t, b, v)

VulkanNext ==
  \/ VulkanExecute
  \/ \E t \in Tensors : VulkanStorage(t)
  \/ \E th \in Threads : VulkanStart(th) \/ VulkanProceed(th) \/ VulkanFails(th)

VulkanSpec == VulkanInit /\ [][VulkanNext]_vulkan_vars

-----------------------------------------------------------------------------
(* Properties                                                              *)

(* Batching is invisible: once the batch has run, every storage no         *)
(* operation is writing holds what eager execution gave it; and what a     *)
(* readback copies is right even after a flush has failed.                 *)
VulkanAsIfEager ==
  /\ lost \/ Settles(ExecAll(mem, cmds))
  /\ ReadsRight

(* "Recycling happens when a batch is flushed": no buffer alloc_buffer may *)
(* hand out is known to a command that has not run.                        *)
VulkanPoolIsIdle == pool \cap Touched(cmds) = {}

(* No wait for ever under the mutex: whoever holds it across a wait can go *)
(* on, or the GPU, whose end (or failure) it waits for, still can.         *)
VulkanHolderGoesOn ==
  \A th \in Threads : ctx = th => ENABLED (VulkanExecute \/ Flushed(th) \/ FlushFails(th))

=============================================================================
