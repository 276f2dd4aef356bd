---------------------------- MODULE MCHostCode ----------------------------
(* Small instances of what runs on the host's threads: the helpers over    *)
(* the thread pool, the locks of tensors, views and products of views, the *)
(* CPU kernels, quantized blocks and quantized products. A behaviour runs  *)
(* one of them, chosen at the start.                                       *)
EXTENDS ParUnits, TensorLocks, CpuCompute, TLC

CONSTANT Machines    (* those considered                                   *)

VARIABLES
  machine,
  v1, v2, v3, v4, v5, v6, v7    (* its state, but for those extended *)

-----------------------------------------------------------------------------
(* Locks: two threads doing every operation on four storages, or three,    *)
(* the fewest whose waits can be a circle that is not a pair, doing some   *)
(* on three. v1 is the threads that do. Bound: one kernel panics.          *)

Calls == INSTANCE MCTensorCalls
AllOps == Calls!OpsOfTwo
FewOps == Calls!OpsOfThree
TwoOps == Calls!Exchanged
StorageNames == 1 .. 4

SomeNext ==
  \E th \in v1 :
    \/ Step(th)
    \/ poisoned = {} /\ Panic(th)
    \/ \E o \in IF Cardinality(v1) = 2 THEN Ops ELSE FewOps : Start(th, o)

Symmetry == Permutations(Threads)

-----------------------------------------------------------------------------
(* Views: up to three operations on tensors of twelve and eight elements.  *)

Views == INSTANCE MatmulViews WITH
  Shapes <- {<<2, 3, 2>>, <<2, 2, 2, 1>>},
  Targets <- {<<4, 3>>, <<6, 2>>, <<2, 2>>, <<2, 6>>, <<2, 1, 3, 2>>, <<12>>, <<3, 2>>, <<2, 2, 3>>},
  ExpandAnyDim <- FALSE, MaxElems <- 12, MaxSteps <- 3,
  dims <- v1, strides <- v2, start_offset <- v3, data <- v4, shown <- v5,
  overflowed <- v6, steps <- v7

-----------------------------------------------------------------------------
(* Kernels: three participants, tiles and pieces of two, so that one row   *)
(* or column is left over.                                                 *)

KernelShapes ==
  {<<3>>, <<3, 4>>, <<1, 3>>, <<2, 3, 2>>, <<2, 1, 2, 2>>, <<3, 1>>, <<2, 1, 2>>, <<1, 3, 1>>}

-----------------------------------------------------------------------------
(* Quantized blocks of every type, and products of up to six rows and      *)
(* twelve columns by each kernel.                                          *)

Formats ==
  {"Q4_0", "Q4_1", "Q5_0", "Q5_1", "Q8_0", "Q2K", "Q3K", "Q4K", "Q5K", "Q6K", "Q8K"}
Blocks == INSTANCE QuantBlocks WITH
  format <- v1, block <- v2, fills <- v3, ys <- v4, dot <- v5

Products ==
  [m : 1 .. 6, n : 1 .. 6, k : {4, 8}, kernel : {"avx", "neon"}, repack : {FALSE}, nth : {1, 3}]
  \cup [m : {1, 3}, n : {1, 3, 5}, k : {8}, kernel : {"none"}, repack : {FALSE}, nth : {3}]
  \cup [m : {1, 4, 6}, n : {4, 6, 8, 12}, k : {4, 8, 6}, kernel : {"avx"}, repack : {TRUE}, nth : {1, 2, 3}]
Quant == INSTANCE QuantMatmul WITH
  NCOLS <- 4, RUNS <- 4, MR <- 4, PIECE <- 2,
  call <- v1, storage <- v2, todo <- v3, dst <- v4

-----------------------------------------------------------------------------
state == <<v1, v2, v3, v4, v5, v6, v7>>

Unused == "unused"

HostInit ==
  /\ Init /\ LocksInit /\ KernelInit
  /\ \/ machine \in Machines \cap {"views"} /\ Views!Init
     \/ /\ machine \in Machines \cap {"blocks"} /\ Blocks!BlocksInit
        /\ v6 = Unused /\ v7 = Unused
     \/ /\ machine \in Machines \cap {"product"} /\ Quant!ProductInit
        /\ v5 = Unused /\ v6 = Unused /\ v7 = Unused
     \/ /\ machine \in Machines \cap {"locks"}
        /\ v1 \in {S \in SUBSET Threads : Cardinality(S) \in {2, 3}}
        /\ v2 = Unused /\ v3 = Unused /\ v4 = Unused
        /\ v5 = Unused /\ v6 = Unused /\ v7 = Unused
     \/ /\ machine \in Machines \cap {"helpers", "kernels"}
        /\ v1 = Unused /\ v2 = Unused /\ v3 = Unused /\ v4 = Unused
        /\ v5 = Unused /\ v6 = Unused /\ v7 = Unused

HostNext ==
  /\ UNCHANGED machine
  /\ \/ machine = "helpers" /\ Next /\ UNCHANGED <<lock_vars, kernel_vars, state>>
     \/ machine = "locks" /\ SomeNext /\ UNCHANGED <<vars, kernel_vars, state>>
     \/ machine = "kernels" /\ ComputeNext /\ UNCHANGED <<vars, lock_vars, state>>
     \/ machine = "views" /\ Views!Next /\ UNCHANGED <<vars, lock_vars, kernel_vars>>
     \/ /\ machine = "blocks" /\ Blocks!BlocksNext
        /\ UNCHANGED <<vars, lock_vars, kernel_vars, v6, v7>>
     \/ /\ machine = "product" /\ Quant!ProductNext
        /\ UNCHANGED <<vars, lock_vars, kernel_vars, v5, v6, v7>>

HostSpec == HostInit /\ [][HostNext]_<<vars, lock_vars, kernel_vars, machine, state>>

-----------------------------------------------------------------------------
(* Views: however derived, a view reads the elements that the operations   *)
(* on it select, and so does the product that matmul_ makes of it.         *)
ViewShowsSelected ==
  machine = "views" => Views!TypeOK /\ Views!ViewShowsSelected /\ Views!MatmulOfViews

(* Whatever order the pieces run in, the output of a kernel or a quantized *)
(* product is what the operation is defined to compute, and no two rows or *)
(* tiles of the product are written to one place.                          *)
ComputesAsDefined ==
  /\ machine = "kernels" => KernelTypeOK /\ OutputAsDefined
  /\ machine = "product" => Quant!TypeOK /\ Quant!OutputsApart /\ Quant!ProductAsDefined

(* Quantized weights: whatever a block held before and whatever layout it  *)
(* is held in, each element is decoded from its own bits, by the scale it  *)
(* was divided by, and the bytes given out are those of the plain layout.  *)
(* Of the layouts modelled: KleidiAI's, lossy and not canonical, is not.   *)
DecodedAsStored ==
  /\ machine = "blocks" =>
       Blocks!TypeOK /\ Blocks!EveryElementItsOwn /\ Blocks!DividedByItsScale
  /\ machine = "product" => Quant!CanonicalBytes

=============================================================================
