-------------------------- MODULE MCUnifiedMemory --------------------------
(* A small instance of the backends over host-visible memory: which one is *)
(* chosen at the start, and the properties are those it states. Metal      *)
(* comes twice: with batches of one command, two of which may be in        *)
(* flight, and with batches of two commands and none in flight.            *)
EXTENDS VulkanBatch, MetalBatch, TLC

VARIABLE backend

MCLimits ==
  {[SubmitChunk |-> 1, MaxInFlight |-> 1], [SubmitChunk |-> 2, MaxInFlight |-> 0]}

Init ==
  \/ /\ backend = "vulkan" /\ VulkanInit
     /\ in_flight = <<>> /\ gpu_used = {} /\ limits = CHOOSE l \in Limits : TRUE
  \/ /\ backend = "metal" /\ MetalInit
     /\ open = FALSE /\ n_sets = 0 /\ running = FALSE /\ lost = FALSE

Next ==
  /\ UNCHANGED backend
  /\ \/ backend = "vulkan" /\ VulkanNext /\ UNCHANGED <<in_flight, gpu_used, limits>>
     \/ backend = "metal" /\ MetalNext /\ UNCHANGED <<open, n_sets, running, lost>>

vars == <<vulkan_vars, metal_vars, backend>>
Spec == Init /\ [][Next]_vars

(* The state of each backend has the types its module states.              *)
TypeOK == IF backend = "vulkan" THEN VulkanTypeOK ELSE MetalTypeOK

(* Batching, commits without waiting and host access without a flush are   *)
(* invisible to callers of either backend.                                 *)
AsIfEager == IF backend = "vulkan" THEN VulkanAsIfEager ELSE MetalAsIfEager

(* In neither backend is a buffer in the pool known to a pending command.  *)
PoolIsIdle == IF backend = "vulkan" THEN VulkanPoolIsIdle ELSE MetalPoolIsIdle

(* In neither backend does a thread wait for ever with the mutex held.     *)
HolderGoesOn == IF backend = "vulkan" THEN VulkanHolderGoesOn ELSE MetalHolderGoesOn

Symmetry == Permutations(Tensors) \cup Permutations(Buffers)

=============================================================================
