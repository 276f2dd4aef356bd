------------------------ MODULE UnifiedMemoryProofs ------------------------
(***************************************************************************)
(* Batching over host-visible memory is invisible, in the Vulkan backend   *)
(* and in the Metal one, for any threads, storages, buffers and sizes of   *)
(* batches. Each backend has an inductive invariant: what DeviceOpsProofs  *)
(* keeps (Discipline), the control of its batches, and an agreement of the *)
(* memory there will be, once all that is recorded has run, with the       *)
(* contents eager execution gives.                                         *)
(***************************************************************************)
EXTENDS MCUnifiedMemory, DeviceOpsProofs

-----------------------------------------------------------------------------
(* Vulkan                                                                  *)

VulkanControl ==
  /\ open \in BOOLEAN /\ running \in BOOLEAN /\ lost \in BOOLEAN
  /\ n_sets \in 0 .. MaxSets
  /\ ctx = None \/ running => (open <=> cmds # <<>>) /\ n_sets <= Len(cmds)
  /\ ctx # None => open /\ todo[ctx] # <<>> /\ (Records(Head(todo[ctx])) \/ Next1(ctx, "flush"))
  /\ ctx # None /\ ~running => cmds = <<>>
  /\ running => ctx # None
  /\ lost => open /\ (ctx # None => running)

VulkanReady == \A th \in Threads : HostReady(th, Commands(cmds))

VulkanInv ==
  /\ Discipline /\ VulkanControl /\ VulkanPoolIsIdle
  /\ ~lost => Agreement(todo, ExecAll(mem, cmds))
  /\ VulkanReady

-----------------------------------------------------------------------------
(* Metal                                                                   *)

Batches == [cmds : Seq(CommandsOver(Buffers)), free : SUBSET Buffers]

(* The commands that have not run.                                         *)
PendingIn(fl, cs) == Commands(cs) \cup UNION {Commands(fl[i].cmds) : i \in DOMAIN fl}
Pending == PendingIn(in_flight, cmds)

(* The queue executes batches in order.                                    *)
InOrder(fl) == \A i, j \in DOMAIN fl : i < j /\ Completed(fl[j]) => Completed(fl[i])

MetalControl ==
  /\ in_flight \in Seq(Batches) /\ gpu_used \subseteq Tensors /\ limits \in Limits
  /\ Len(cmds) < SubmitChunk
  /\ Len(in_flight) <= MaxInFlight + 1
  /\ ctx = None => Len(in_flight) <= MaxInFlight
  /\ ctx # None =>
       /\ in_flight # <<>> /\ cmds = <<>>
       /\ todo[ctx] # <<>> /\ (Records(Head(todo[ctx])) \/ Drains(ctx))
  /\ InOrder(in_flight)

(* What a batch frees is no one's, no later command uses it, and it is     *)
(* freed once. K is what the pools and the storages have.                  *)
Later(fl, cs, i) ==
  Commands(cs) \cup UNION {Commands(fl[j].cmds) : j \in {k \in DOMAIN fl : i < k}}
Sealed(fl, cs, K) ==
  \A i \in DOMAIN fl :
    /\ fl[i].free \cap K = {}
    /\ \A c \in Later(fl, cs, i) : fl[i].free \cap Uses(c) = {}
    /\ \A j \in DOMAIN fl : i < j => fl[i].free \cap fl[j].free = {}
FreedLast == Sealed(in_flight, cmds, Known)

Unmarked ==
  \A t \in Tensors \ gpu_used, c \in Pending : buffer[t] \notin Uses(c)

(* The steps whose commands are still to be recorded.                      *)
Rest ==
  [th \in Threads |-> IF ctx = th /\ Records(Head(todo[th])) THEN Tail(todo[th]) ELSE todo[th]]

(* What memory holds once all of them have.                                *)
SettledIn(m, fl, cs) == ExecAll(ExecBatches(m, fl), cs)

MetalAgrees == Agreement(Rest, SettledIn(mem, in_flight, cmds))
MetalReady == \A th \in Threads : HostReady(th, Pending)

MetalInv ==
  /\ Discipline /\ MetalControl /\ MetalPoolIsIdle /\ FreedLast /\ Unmarked
  /\ MetalAgrees /\ MetalReady

-----------------------------------------------------------------------------
(* Every operation is a program                                            *)

LEMMA Commands2 ==
  ASSUME NEW d \in Tensors, NEW s \in Tensors, d # s
  PROVE  \A c \in {Copy(d, s), Accum(d, s)} : Between(c, d, s)
<1>1. d \in Names /\ s \in Names /\ d # None /\ s # None
  BY NameFacts
<1>2. Copy(d, s) \in CommandsOver(Names) /\ Accum(d, s) \in CommandsOver(Names)
  BY <1>1, StepTypes
<1>3. /\ Uses(Copy(d, s)) = {d, s} /\ Uses(Accum(d, s)) = {d, s} /\ Copy(d, s).dst = d /\ Accum(d, s).dst = d
      /\ Copy(d, s).op # "merge" /\ Accum(d, s).op # "merge"
  BY DEF Uses, Copy, Accum
<1> QED  BY <1>1, <1>2, <1>3 DEF Between

LEMMA Commands1 ==
  ASSUME NEW d \in Tensors
  PROVE  /\ Between(Accum(d, d), d, None)
         /\ \A v \in Inputs : Between(Fill(d, v), d, None) /\ Uses(Fill(d, v)) = {d}
<1>1. d \in Names /\ d # None /\ Inputs \subseteq Contents
  BY NameFacts
<1>2. Accum(d, d) \in CommandsOver(Names) /\ \A v \in Inputs : Fill(d, v) \in CommandsOver(Names)
  BY <1>1, StepTypes
<1>3. /\ Uses(Accum(d, d)) = {d} /\ Accum(d, d).dst = d /\ Accum(d, d).op # "merge"
      /\ \A v \in Inputs : Uses(Fill(d, v)) = {d} /\ Fill(d, v).dst = d /\ Fill(d, v).op # "merge"
  BY DEF Uses, Fill, Accum
<1> QED  BY <1>1, <1>2, <1>3 DEF Between

(* The sequences with an input, in either backend.                         *)
PairShapes(d, s) ==
  {<<Dispatch(Copy(d, s))>>, <<Record(Copy(d, s))>>, <<Dispatch(Accum(d, s))>>,
   <<Flush, Host(Copy(d, s))>>, <<Flush, Host(Accum(d, s))>>,
   <<Scratch(X, 1), Dispatch(Merge(d, s, X)), Defer(X)>>, Convolution(d, s)}

AloneShapes(d) ==
  {<<Dispatch(Accum(d, d))>>} \cup
  UNION {{<<Dispatch(Fill(d, v))>>, <<Record(Fill(d, v))>>,
          <<Flush, Host(Fill(d, v))>>, <<FlushIfUsed(d), Host(Fill(d, v))>>,
          <<Scratch(X, v), Record(Copy(d, X)), Defer(X)>>} : v \in Inputs}

LEMMA ShapesArePrograms ==
  /\ \A d, s \in Tensors : d # s => \A p \in PairShapes(d, s) : Program(p, d, s)
  /\ \A d \in Tensors : \A p \in AloneShapes(d) : Program(p, d, None)
<1>1. ASSUME NEW d \in Tensors, NEW s \in Tensors, d # s, NEW p \in PairShapes(d, s) PROVE Program(p, d, s)
  <2>1. \A c \in {Copy(d, s), Accum(d, s)} : Between(c, d, s)
    BY <1>1, Commands2
  <2>2. \A c \in {Copy(d, s), Accum(d, s)} : Program(<<Dispatch(c)>>, d, s) /\ Program(<<Record(c)>>, d, s)
    BY <2>1, OneStepProgram
  <2>3. \A c \in {Copy(d, s), Accum(d, s)} : Program(<<Flush, Host(c)>>, d, s)
    <3>1. Flush # FlushIfUsed(d)
      BY DEF Flush, FlushIfUsed, Step
    <3> QED  BY <2>1, <3>1, HostProgram
  <2>4. Program(<<Scratch(X, 1), Dispatch(Merge(d, s, X)), Defer(X)>>, d, s)
    <3> DEFINE c == Merge(d, s, X)
    <3>1. c \in CommandsOver(Names)
      BY NameFacts, StepTypes
    <3>2. c.dst = d /\ Uses(c) = {d, s, X} /\ c.aux = X
      BY DEF Merge, Uses
    <3>3. d # None /\ s # None /\ 1 \in Contents
      BY NameFacts
    <3> HIDE DEF c
    <3>4. Uses(c) \subseteq ({d, s} \ {None}) \cup {X}
      BY <3>2, <3>3
    <3>5. Program(<<Scratch(X, 1), Dispatch(c), Defer(X)>>, d, s)
      BY <1>1, <3>1, <3>2, <3>3, <3>4, ScratchProgram
    <3> QED  BY <3>5 DEF c
  <2>5. Program(Convolution(d, s), d, s)
    BY <1>1, ConvolutionProgram
  <2> QED  BY <1>1, <2>2, <2>3, <2>4, <2>5 DEF PairShapes
<1>2. ASSUME NEW d \in Tensors, NEW p \in AloneShapes(d) PROVE Program(p, d, None)
  <2>1. CASE p = <<Dispatch(Accum(d, d))>>
    BY <2>1, Commands1, OneStepProgram
  <2>2. ASSUME NEW v \in Inputs,
               p \in {<<Dispatch(Fill(d, v))>>, <<Record(Fill(d, v))>>,
                     <<Flush, Host(Fill(d, v))>>, <<FlushIfUsed(d), Host(Fill(d, v))>>,
                     <<Scratch(X, v), Record(Copy(d, X)), Defer(X)>>}
        PROVE  Program(p, d, None)
    <3>1. Between(Fill(d, v), d, None) /\ Uses(Fill(d, v)) = {d}
      BY Commands1
    <3>2. Program(<<Dispatch(Fill(d, v))>>, d, None) /\ Program(<<Record(Fill(d, v))>>, d, None)
      BY <3>1, OneStepProgram
    <3>3. \A f \in {Flush, FlushIfUsed(d)} : Program(<<f, Host(Fill(d, v))>>, d, None)
      BY <3>1, HostProgram
    <3>4. Program(<<Scratch(X, v), Record(Copy(d, X)), Defer(X)>>, d, None)
      <4> DEFINE c == Copy(d, X)
      <4>1. c \in CommandsOver(Names)
        BY NameFacts, StepTypes
      <4>2. c.dst = d /\ Uses(c) = {d, X} /\ c.op # "merge"
        BY DEF Copy, Uses
      <4>3. d # None /\ v \in Contents
        BY NameFacts
      <4> HIDE DEF c
      <4>4. Uses(c) \subseteq ({d, None} \ {None}) \cup {X}
        BY <4>2, <4>3
      <4>5. Program(<<Scratch(X, v), Record(c), Defer(X)>>, d, None)
        BY <4>1, <4>2, <4>3, <4>4, ScratchProgram
      <4> QED  BY <4>5 DEF c
    <3> QED  BY <2>2, <3>2, <3>3, <3>4
  <2> QED  BY <1>2, <2>1, <2>2 DEF AloneShapes
<1> QED  BY <1>1, <1>2

(* The definitions of DeviceOps, as VulkanOps has them.                       *)
LEMMA VulkanSteps ==
  /\ \A c : Vulkan!Dispatch(c) = Dispatch(c) /\ Vulkan!Record(c) = Record(c) /\ Vulkan!Host(c) = Host(c)
  /\ Vulkan!Flush = Flush
  /\ \A x : Vulkan!Data(x) = Data(x) /\ Vulkan!Defer(x) = Defer(x)
       /\ Vulkan!Alloc(x) = Alloc(x) /\ Vulkan!FlushIfUsed(x) = FlushIfUsed(x)
  /\ \A x, v : Vulkan!Scratch(x, v) = Scratch(x, v) /\ Vulkan!Fill(x, v) = Fill(x, v)
  /\ \A x, y : Vulkan!Copy(x, y) = Copy(x, y) /\ Vulkan!Accum(x, y) = Accum(x, y)
  /\ \A x, y, z : Vulkan!Merge(x, y, z) = Merge(x, y, z)
BY DEF Dispatch, Record, Flush, Host, Data, Defer, Alloc, Scratch, FlushIfUsed, Fill, Copy, Accum, Merge,
     Step,
       Vulkan!Dispatch, Vulkan!Record, Vulkan!Flush, Vulkan!Host, Vulkan!Data,
       Vulkan!Defer, Vulkan!Alloc, Vulkan!Scratch, Vulkan!FlushIfUsed, Vulkan!Fill,
       Vulkan!Copy, Vulkan!Accum, Vulkan!Merge, Vulkan!Step

LEMMA VulkanPrograms ==
  /\ \A p \in Vulkan!synchronize : Program(p, None, None)
  /\ \A s \in Tensors : \A p \in Vulkan!data(s) : Program(p, None, s)
  /\ \A d \in Tensors : \A p \in Vulkan!AlonePrograms[d] : Program(p, d, None)
  /\ \A d, s \in Tensors : d # s => \A p \in Vulkan!PairPrograms[d][s] : p = <<>> \/ Program(p, d, s)
<1>1. \A p \in Vulkan!synchronize : Program(p, None, None)
  BY FlushProgram, VulkanSteps DEF Vulkan!synchronize
<1>2. \A s \in Tensors : \A p \in Vulkan!data(s) : Program(p, None, s)
  <2>1. \A s \in Tensors : Vulkan!data(s) = {<<Flush, Data(s)>>}
    BY VulkanSteps DEF Vulkan!data
  <2> QED  BY <2>1, DataProgram
<1>3. ASSUME NEW d \in Tensors, NEW p \in Vulkan!AlonePrograms[d] PROVE p \in AloneShapes(d)
  <2>1. Vulkan!AlonePrograms[d] =
          (UNION {Vulkan!fill(d, v) \cup Vulkan!rand_uniform(d, v) \cup Vulkan!randn(d, v) : v \in Inputs})
            \cup Vulkan!inplace_unary(d) \cup Vulkan!apply_causality_mask(d)
    BY DEF Vulkan!AlonePrograms
  <2>2. Vulkan!inplace_unary(d) = {<<Dispatch(Accum(d, d))>>} /\ Vulkan!apply_causality_mask(d) = {<<Dispatch(Accum(d, d))>>}
    BY VulkanSteps DEF Vulkan!inplace_unary, Vulkan!apply_causality_mask, Vulkan!OnGpu
  <2>3. \A v : /\ Vulkan!fill(d, v) = {<<Dispatch(Fill(d, v))>>, <<Flush, Host(Fill(d, v))>>}
              /\ Vulkan!rand_uniform(d, v) = {<<Scratch(X, v), Record(Copy(d, X)), Defer(X)>>}
              /\ Vulkan!randn(d, v) = {<<Scratch(X, v), Record(Copy(d, X)), Defer(X)>>}
    BY VulkanSteps DEF Vulkan!fill, Vulkan!rand_uniform, Vulkan!randn, Vulkan!Anywhere,
         Vulkan!OnGpu, Vulkan!OnHost
  <2> QED  BY <1>3, <2>1, <2>2, <2>3 DEF AloneShapes
<1>4. ASSUME NEW d \in Tensors, NEW s \in Tensors, NEW p \in Vulkan!PairPrograms[d][s] PROVE p = <<>> \/ p \in PairShapes(d, s)
  <2> DEFINE G == PairShapes(d, s) \cup {<<>>}
  <2>1. \A c : Vulkan!OnGpu(c) = <<Dispatch(c)>> /\ Vulkan!Anywhere(c) = {<<Dispatch(c)>>, <<Flush, Host(c)>>} /\ Vulkan!OnHost(c) = <<Flush, Host(c)>>
    BY VulkanSteps DEF Vulkan!OnGpu, Vulkan!OnHost, Vulkan!Anywhere
  <2>2. Vulkan!copy(d, s) = {<<Record(Copy(d, s))>>}
    BY VulkanSteps DEF Vulkan!copy
  <2>3. /\ Vulkan!to_dtype(d, s) \subseteq G
        /\ Vulkan!unary(d, s) \subseteq G
        /\ Vulkan!bin_assign(d, s) \subseteq G
        /\ Vulkan!binary(d, s) \subseteq G
        /\ Vulkan!scale_add(d, s) \subseteq G
        /\ Vulkan!transpose(d, s) \subseteq G
        /\ Vulkan!copy2d(d, s) \subseteq G
    BY <2>1, <2>2, VulkanSteps DEF PairShapes, Vulkan!to_dtype, Vulkan!unary, Vulkan!bin_assign,
         Vulkan!binary, Vulkan!scale_add, Vulkan!transpose, Vulkan!copy2d
  <2>4. /\ Vulkan!rope(d, s) \subseteq G
        /\ Vulkan!rope_i(d, s) \subseteq G
        /\ Vulkan!gemm(d, s) \subseteq G
        /\ Vulkan!index_select(d, s) \subseteq G
        /\ Vulkan!softmax(d, s) \subseteq G
        /\ Vulkan!rms_norm(d, s) \subseteq G
        /\ Vulkan!layer_norm(d, s) \subseteq G
        /\ Vulkan!reduce(d, s) \subseteq G
        /\ Vulkan!reduce_arg(d, s) \subseteq G
        /\ Vulkan!scatter_set(d, s) \subseteq G
    BY <2>1, <2>2, VulkanSteps DEF PairShapes, Vulkan!rope, Vulkan!rope_i, Vulkan!gemm,
         Vulkan!index_select, Vulkan!softmax, Vulkan!rms_norm, Vulkan!layer_norm, Vulkan!reduce,
         Vulkan!reduce_arg, Vulkan!scatter_set
  <2>5. /\ Vulkan!copy_strided(d, s) \subseteq G
        /\ Vulkan!broadcast_binary(d, s) \subseteq G
    BY <2>1, <2>2, VulkanSteps DEF PairShapes, Vulkan!copy_strided, Vulkan!broadcast_binary
  <2>6. /\ Vulkan!conv1d(d, s) \subseteq G
        /\ Vulkan!conv_transpose1d(d, s) \subseteq G
    BY <2>1, <2>2, VulkanSteps DEF PairShapes, Convolution, Vulkan!conv1d, Vulkan!conv_transpose1d,
         Vulkan!conv1d_im2col, Vulkan!conv_transpose1d_col2im
  <2>7. Vulkan!PairPrograms[d][s] =
          UNION {Vulkan!copy(d, s), Vulkan!to_dtype(d, s), Vulkan!unary(d, s), Vulkan!bin_assign(d,
               s), Vulkan!binary(d, s), Vulkan!scale_add(d, s), Vulkan!transpose(d, s), Vulkan!copy2d(d,
               s), Vulkan!rope(d, s), Vulkan!rope_i(d, s), Vulkan!gemm(d, s), Vulkan!index_select(d, s),
               Vulkan!softmax(d, s), Vulkan!rms_norm(d, s), Vulkan!layer_norm(d, s), Vulkan!reduce(d, s),
               Vulkan!reduce_arg(d, s), Vulkan!copy_strided(d, s), Vulkan!scatter_set(d, s),
               Vulkan!broadcast_binary(d, s), Vulkan!conv1d(d, s), Vulkan!conv_transpose1d(d, s)}
    BY DEF Vulkan!PairPrograms
  <2>8. Vulkan!copy(d, s) \subseteq G
    BY <2>2 DEF PairShapes
  <2> HIDE DEF G
  <2>9. p \in G
    BY <1>4, <2>3, <2>4, <2>5, <2>6, <2>7, <2>8
  <2> QED  BY <2>9 DEF G
<1> QED  BY <1>1, <1>2, <1>3, <1>4, ShapesArePrograms

(* And as MetalOps has them.                                                *)
LEMMA MetalSteps ==
  /\ \A c : Metal!Dispatch(c) = Dispatch(c) /\ Metal!Record(c) = Record(c) /\ Metal!Host(c) = Host(c)
  /\ Metal!Flush = Flush
  /\ \A x : Metal!Data(x) = Data(x) /\ Metal!Defer(x) = Defer(x)
       /\ Metal!Alloc(x) = Alloc(x) /\ Metal!FlushIfUsed(x) = FlushIfUsed(x)
  /\ \A x, v : Metal!Scratch(x, v) = Scratch(x, v) /\ Metal!Fill(x, v) = Fill(x, v)
  /\ \A x, y : Metal!Copy(x, y) = Copy(x, y) /\ Metal!Accum(x, y) = Accum(x, y)
  /\ \A x, y, z : Metal!Merge(x, y, z) = Merge(x, y, z)
BY DEF Dispatch, Record, Flush, Host, Data, Defer, Alloc, Scratch, FlushIfUsed, Fill, Copy, Accum, Merge,
     Step,
       Metal!Dispatch, Metal!Record, Metal!Flush, Metal!Host, Metal!Data, Metal!Defer,
       Metal!Alloc, Metal!Scratch, Metal!FlushIfUsed, Metal!Fill, Metal!Copy,
       Metal!Accum, Metal!Merge, Metal!Step

LEMMA MetalPrograms ==
  /\ \A p \in Metal!synchronize : Program(p, None, None)
  /\ \A s \in Tensors : \A p \in Metal!data(s) : Program(p, None, s)
  /\ \A d \in Tensors : \A p \in Metal!AlonePrograms[d] : Program(p, d, None)
  /\ \A d, s \in Tensors : d # s => \A p \in Metal!PairPrograms[d][s] : p = <<>> \/ Program(p, d, s)
<1>1. \A p \in Metal!synchronize : Program(p, None, None)
  BY FlushProgram, MetalSteps DEF Metal!synchronize
<1>2. \A s \in Tensors : \A p \in Metal!data(s) : Program(p, None, s)
  <2>1. \A s \in Tensors : Metal!data(s) = {<<FlushIfUsed(s), Data(s)>>}
    BY MetalSteps DEF Metal!data
  <2> QED  BY <2>1, DataProgram
<1>3. ASSUME NEW d \in Tensors, NEW p \in Metal!AlonePrograms[d] PROVE p \in AloneShapes(d)
  <2>1. Metal!AlonePrograms[d] =
          (UNION {Metal!fill(d, v) \cup Metal!rand_uniform(d, v) \cup Metal!randn(d, v) : v \in Inputs})
            \cup Metal!inplace_unary(d) \cup Metal!apply_causality_mask(d)
    BY DEF Metal!AlonePrograms
  <2>2. Metal!inplace_unary(d) = {<<Dispatch(Accum(d, d))>>} /\ Metal!apply_causality_mask(d) = {<<Dispatch(Accum(d, d))>>}
    BY MetalSteps DEF Metal!inplace_unary, Metal!apply_causality_mask, Metal!OnGpu
  <2>3. \A v : Fill(d, v).dst = d
    BY DEF Fill
  <2>4. \A v : /\ Metal!fill(d, v) = {<<Record(Fill(d, v))>>, <<FlushIfUsed(d), Host(Fill(d, v))>>}
              /\ Metal!rand_uniform(d, v) = {<<FlushIfUsed(d), Host(Fill(d, v))>>}
              /\ Metal!randn(d, v) = {<<FlushIfUsed(d), Host(Fill(d, v))>>}
    BY <2>3, MetalSteps DEF Metal!fill, Metal!rand_uniform, Metal!randn, Metal!OnHost
  <2> QED  BY <1>3, <2>1, <2>2, <2>4 DEF AloneShapes
<1>4. ASSUME NEW d \in Tensors, NEW s \in Tensors, NEW p \in Metal!PairPrograms[d][s] PROVE p = <<>> \/ p \in PairShapes(d, s)
  <2> DEFINE G == PairShapes(d, s) \cup {<<>>}
  <2>1. \A c : Metal!OnGpu(c) = <<Dispatch(c)>>
    BY MetalSteps DEF Metal!OnGpu
  <2>2. Metal!copy(d, s) = {<<Record(Copy(d, s))>>}
    BY MetalSteps DEF Metal!copy
  <2>3. /\ Metal!to_dtype(d, s) \subseteq G
        /\ Metal!unary(d, s) \subseteq G
        /\ Metal!bin_assign(d, s) \subseteq G
        /\ Metal!binary(d, s) \subseteq G
        /\ Metal!scale_add(d, s) \subseteq G
        /\ Metal!transpose(d, s) \subseteq G
        /\ Metal!copy2d(d, s) \subseteq G
    BY <2>1, <2>2, MetalSteps DEF PairShapes, Metal!to_dtype, Metal!unary, Metal!bin_assign,
         Metal!binary, Metal!scale_add, Metal!transpose, Metal!copy2d
  <2>4. /\ Metal!rope(d, s) \subseteq G
        /\ Metal!rope_i(d, s) \subseteq G
        /\ Metal!gemm(d, s) \subseteq G
        /\ Metal!index_select(d, s) \subseteq G
        /\ Metal!softmax(d, s) \subseteq G
        /\ Metal!rms_norm(d, s) \subseteq G
        /\ Metal!layer_norm(d, s) \subseteq G
        /\ Metal!reduce(d, s) \subseteq G
        /\ Metal!reduce_arg(d, s) \subseteq G
        /\ Metal!scatter_set(d, s) \subseteq G
    BY <2>1, <2>2, MetalSteps DEF PairShapes, Metal!rope, Metal!rope_i, Metal!gemm,
         Metal!index_select, Metal!softmax, Metal!rms_norm, Metal!layer_norm, Metal!reduce,
         Metal!reduce_arg, Metal!scatter_set
  <2>5. /\ Metal!copy_strided(d, s) \subseteq G
        /\ Metal!broadcast_binary(d, s) \subseteq G
    BY <2>1, <2>2, MetalSteps DEF PairShapes, Metal!copy_strided, Metal!broadcast_binary
  <2>6. /\ Metal!conv1d(d, s) \subseteq G
        /\ Metal!conv_transpose1d(d, s) \subseteq G
    BY <2>1, <2>2, MetalSteps DEF PairShapes, Convolution, Metal!conv1d, Metal!conv_transpose1d,
         Metal!conv1d_im2col, Metal!conv_transpose1d_col2im
  <2>7. Metal!PairPrograms[d][s] =
          UNION {Metal!copy(d, s), Metal!to_dtype(d, s), Metal!unary(d, s), Metal!bin_assign(d, s),
               Metal!binary(d, s), Metal!scale_add(d, s), Metal!transpose(d, s), Metal!copy2d(d, s),
               Metal!rope(d, s), Metal!rope_i(d, s), Metal!gemm(d, s), Metal!index_select(d, s),
               Metal!softmax(d, s), Metal!rms_norm(d, s), Metal!layer_norm(d, s), Metal!reduce(d, s),
               Metal!reduce_arg(d, s), Metal!copy_strided(d, s), Metal!scatter_set(d, s),
               Metal!broadcast_binary(d, s), Metal!conv1d(d, s), Metal!conv_transpose1d(d, s)}
    BY DEF Metal!PairPrograms
  <2>8. Metal!copy(d, s) \subseteq G
    BY <2>2 DEF PairShapes
  <2> HIDE DEF G
  <2>9. p \in G
    BY <1>4, <2>3, <2>4, <2>5, <2>6, <2>7, <2>8
  <2> QED  BY <2>9 DEF G
<1> QED  BY <1>1, <1>2, <1>3, <1>4, ShapesArePrograms

-----------------------------------------------------------------------------
(* Vulkan: the invariant and its consequences                              *)

LEMMA AgreementNow ==
  ASSUME NEW R, NEW S, R = todo', S = ExecAll(mem, cmds)', Agreement(R, S)'
  PROVE  Agreement(todo, ExecAll(mem, cmds))'
BY DEF Agreement, Settles, Due, Intact

LEMMA ReadyNow ==
  ASSUME NEW cs, cs = Commands(cmds'), \A u \in Threads : HostReady(u, cs)'
  PROVE  VulkanReady'
BY DEF VulkanReady, HostReady, Commands

LEMMA VulkanFacts ==
  ASSUME VulkanInv
  PROVE  /\ Discipline /\ VulkanControl /\ pool \cap Touched(cmds) = {}
         /\ (~lost => Agreement(todo, ExecAll(mem, cmds)))
         /\ \A u \in Threads : HostReady(u, Commands(cmds))
         /\ mem \in [Buffers -> Contents] /\ cmds \in Seq(CommandsOver(Buffers))
         /\ ExecAll(mem, cmds) \in [Buffers -> Contents] /\ DeviceTyped
         /\ \A k \in Keys : Place[k] \notin free_bufs \cup pool
         /\ free_bufs \cap pool = {} /\ DOMAIN todo = Threads
<1>1. /\ Discipline /\ VulkanControl /\ pool \cap Touched(cmds) = {}
      /\ (~lost => Agreement(todo, ExecAll(mem, cmds)))
      /\ \A u \in Threads : HostReady(u, Commands(cmds))
  BY DEF VulkanInv, VulkanPoolIsIdle, VulkanReady
<1>2. /\ mem \in [Buffers -> Contents] /\ cmds \in Seq(CommandsOver(Buffers)) /\ DeviceTyped
      /\ \A k \in Keys : Place[k] \notin free_bufs \cup pool
      /\ free_bufs \cap pool = {} /\ DOMAIN todo = Threads
  BY <1>1 DEF Discipline, DeviceTyped, CallsTyped, Owners
<1>3. ExecAll(mem, cmds) \in [Buffers -> Contents]
  BY <1>2, ExecAllType
<1> QED  BY <1>1, <1>2, <1>3

LEMMA VulkanHolds ==
  ASSUME VulkanInv
  PROVE  VulkanTypeOK /\ VulkanPoolIsIdle /\ VulkanAsIfEager
<1>1. VulkanTypeOK
  <2>1. SharedTypeOK /\ VulkanControl /\ cmds \in Seq(CommandsOver(Buffers))
    BY VulkanFacts, AllTyped
  <2>2. /\ (cmds # <<>> => open) /\ (ctx = None => n_sets <= Len(cmds)) /\ (running => ctx # None /\ open)
        /\ open \in BOOLEAN /\ running \in BOOLEAN /\ lost \in BOOLEAN /\ n_sets \in 0 .. MaxSets
    BY <2>1 DEF VulkanControl
  <2> QED  BY <2>1, <2>2 DEF VulkanTypeOK
<1>2. VulkanPoolIsIdle
  BY DEF VulkanInv
<1>3. VulkanAsIfEager
  BY VulkanFacts, Readies DEF VulkanAsIfEager, Agreement
<1> QED  BY <1>1, <1>2, <1>3

LEMMA VulkanRecordKeeps ==
  ASSUME VulkanInv, NEW th \in Threads, VulkanRecord(th)
  PROVE  VulkanInv'
<1> DEFINE c == NextCommand(th)
<1>f. /\ Discipline /\ VulkanControl /\ pool \cap Touched(cmds) = {}
      /\ mem \in [Buffers -> Contents] /\ cmds \in Seq(CommandsOver(Buffers))
      /\ DeviceTyped /\ DOMAIN todo = Threads
      /\ \A u \in Threads : HostReady(u, Commands(cmds))
  BY VulkanFacts
<1>1. /\ todo[th] # <<>> /\ Records(Head(todo[th])) /\ ctx = None /\ ~Full(Head(todo[th]))
      /\ cmds' = Append(cmds, c) /\ open' = TRUE
      /\ n_sets' = n_sets + (IF Next1(th, "dispatch") THEN 1 ELSE 0)
      /\ Advance(th) /\ UNCHANGED <<mem, ctx, bufs, running, lost, profiled>>
      /\ UNCHANGED <<free_bufs, pool, buffer>>
  BY DEF VulkanRecord, AddTo, bufs
<1>2. /\ Makes(Head(todo[th])) /\ ~Allocates(Head(todo[th]))
      /\ Head(todo[th]).do \notin {"defer", "flush", "flushused", "host", "data"}
      /\ c \in CommandsOver(Buffers) /\ Uses(c) \cap (free_bufs \cup pool) = {}
  BY <1>f, <1>1, RecordFacts
<1>3. todo' = [todo EXCEPT ![th] = Tail(todo[th])]
  BY <1>1 DEF Advance, Continue
<1> HIDE DEF c
<1>4. /\ cmds' \in Seq(CommandsOver(Buffers)) /\ cmds' # <<>> /\ Len(cmds') = Len(cmds) + 1
      /\ Commands(cmds') = Commands(cmds) \cup {c} /\ Touched(cmds') = Touched(cmds) \cup Uses(c)
  BY <1>f, <1>1, <1>2, CommandLists
<1>5. Discipline'
  <2>1. DeviceTyped'
    BY <1>f, <1>1, <1>4 DEF DeviceTyped
  <2>2. \A k \in Keys : Place[k] \notin free_bufs' \cup pool'
    BY <1>1, VulkanFacts
  <2>3. free_bufs' \cap pool' = {}
    BY <1>1, VulkanFacts
  <2> QED  BY <1>f, <1>1, <1>2, <2>1, <2>2, <2>3, AdvanceDisciplined
<1>6. VulkanControl'
  <2>1. n_sets' \in 0 .. MaxSets /\ n_sets' <= Len(cmds')
    <3>1. n_sets \in 0 .. MaxSets /\ n_sets <= Len(cmds) /\ Len(cmds) \in Nat /\ MaxSets \in Nat
      BY <1>f, <1>1, VulkanAssumption DEF VulkanControl
    <3>2. Next1(th, "dispatch") => n_sets < MaxSets
      BY <1>1, <3>1 DEF Full, Next1
    <3> QED  BY <1>1, <1>4, <3>1, <3>2
  <2> QED  BY <1>f, <1>1, <1>4, <2>1 DEF VulkanControl
<1>7. VulkanPoolIsIdle'
  BY <1>f, <1>1, <1>2, <1>4 DEF VulkanPoolIsIdle
<1>8. ASSUME ~lost' PROVE Agreement(todo, ExecAll(mem, cmds))'
  <2>1. PICK R, R2, S : R = todo /\ R2 = todo' /\ S = ExecAll(mem, cmds)
    OBVIOUS
  <2>2. Agreement(R, S) /\ S \in [Buffers -> Contents]
    BY <1>1, <1>8, <2>1, VulkanFacts
  <2>3. R[th] = todo[th] /\ R2[th] = Tail(todo[th]) /\ \A u \in Threads \ {th} : R2[u] = R[u]
    BY <1>f, <1>3, <2>1
  <2>4. PICK S2 \in [Buffers -> Contents] : S2 = Exec(S, c)
    BY <1>f, <1>1, <2>2, <2>3, RecordAgrees DEF c
  <2>5. Agreement(R2, S2)
    BY <1>f, <1>1, <2>2, <2>3, <2>4, RecordAgrees DEF c
  <2>6. Agreement(R2, S2)'
    BY <1>f, <1>1, <1>2, <2>3, <2>4, <2>5, AdvanceAgrees
  <2>7. S2 = ExecAll(mem, cmds)'
    BY <1>f, <1>1, <1>2, <2>1, <2>4, ExecAllAppend
  <2> QED  BY <2>1, <2>6, <2>7, AgreementNow
<1>9. VulkanReady'
  <2>1. PICK cs, cs2 : cs = Commands(cmds) /\ cs2 = Commands(cmds')
    OBVIOUS
  <2>2. cs2 \subseteq cs \cup {NextCommand(th)} /\ \A u \in Threads : HostReady(u, cs)
    BY <1>f, <1>4, <2>1 DEF c
  <2>3. SameBut({}, mem, mem')
    BY <1>1 DEF SameBut
  <2>4. \A u \in Threads : HostReady(u, cs2)'
    BY <1>f, <1>1, <2>2, <2>3, RecordReadies
  <2> QED  BY <2>1, <2>4, ReadyNow
<1> QED  BY <1>5, <1>6, <1>7, <1>8, <1>9 DEF VulkanInv

LEMMA VulkanSubmitKeeps ==
  ASSUME VulkanInv, NEW th \in Threads, Submit(th)
  PROVE  VulkanInv'
<1>f. /\ Discipline /\ VulkanControl /\ pool \cap Touched(cmds) = {} /\ DeviceTyped
      /\ \A u \in Threads : HostReady(u, Commands(cmds))
      /\ \A k \in Keys : Place[k] \notin free_bufs \cup pool
      /\ free_bufs \cap pool = {} /\ cmds \in Seq(CommandsOver(Buffers))
  BY VulkanFacts
<1>1. /\ todo[th] # <<>> /\ ctx = None /\ ctx' = th /\ running' = TRUE
      /\ (Next1(th, "flush") /\ open) \/ (Records(Head(todo[th])) /\ Full(Head(todo[th])))
      /\ UNCHANGED <<eager, mem, cmds, bufs, threads, open, n_sets, lost, profiled>>
      /\ UNCHANGED <<free_bufs, pool, buffer, op, todo, val>>
  BY DEF Submit, bufs, threads, eager
<1>2. open
  <2>1. CASE Full(Head(todo[th]))
    <3>1. n_sets \in Nat /\ (n_sets >= MaxSets => n_sets # 0) /\ MaxSets \in Nat
      BY <1>f, VulkanAssumption DEF VulkanControl
    <3>2. cmds = <<>> => n_sets <= 0
      BY <1>f, <1>1 DEF VulkanControl
    <3>3. ~open => n_queries = 0
      BY DEF n_queries
    <3>4. ~(0 + 1 >= QueryCap)
      BY VulkanAssumption
    <3>5. ~open => cmds = <<>>
      BY <1>f, <1>1 DEF VulkanControl
    <3> QED  BY <2>1, <3>1, <3>2, <3>3, <3>4, <3>5 DEF Full
  <2> QED  BY <1>1, <2>1
<1>3. Discipline'
  <2>1. DeviceTyped'
    BY <1>f, <1>1 DEF DeviceTyped
  <2> QED  BY <1>f, <1>1, <2>1, StayDisciplined
<1>4. VulkanControl'
  <2>1. Next1(th, "flush")' <=> Next1(th, "flush")
    BY <1>1 DEF Next1
  <2>2. th # None
    BY NameFacts
  <2> QED  BY <1>f, <1>1, <1>2, <2>1, <2>2 DEF VulkanControl, Next1
<1>5. VulkanPoolIsIdle'
  BY <1>f, <1>1 DEF VulkanPoolIsIdle
<1>6. ASSUME ~lost' PROVE Agreement(todo, ExecAll(mem, cmds))'
  <2>1. PICK R, S : R = todo /\ S = ExecAll(mem, cmds)
    OBVIOUS
  <2>2. Agreement(R, S)
    BY <1>1, <1>6, <2>1, VulkanFacts
  <2>3. Agreement(R, S)'
    BY <1>1, <2>2, StayAgrees
  <2> QED  BY <1>1, <2>1, <2>3, AgreementNow
<1>7. VulkanReady'
  <2>1. PICK cs : cs = Commands(cmds)
    OBVIOUS
  <2>2. ASSUME NEW u \in Threads PROVE HostReady(u, cs)'
    <3>1. HostReady(u, cs)
      BY <1>f, <2>1
    <3> QED  BY <1>f, <1>1, <3>1, HostStays
  <2> QED  BY <1>1, <2>1, <2>2, ReadyNow
<1> QED  BY <1>3, <1>4, <1>5, <1>6, <1>7 DEF VulkanInv

(* A flush goes on once nothing is recorded and memory is as it will be.   *)
LEMMA FlushGoesOn ==
  ASSUME Discipline, NEW th \in Threads, todo[th] # <<>>, Head(todo[th]).do \in {"flush", "flushused"},
         Advance(th), buffer' = buffer, SameBut({}, mem, mem'),
         NEW S, Settles(S), NEW cs, \A u \in Threads : HostReady(u, cs),
         \A t \in Tensors : Live(t) /\ (Head(todo[th]).do = "flush" \/ Head(todo[th]).cmd.dst = t) =>
           mem'[buffer[t]] = S[buffer[t]] /\ \A c \in cs : buffer[t] \notin Uses(c)
  PROVE  \A u \in Threads : HostReady(u, cs)'
<1>1. HostReady(th, cs)'
  BY FlushReadies
<1>2. ~Allocates(Head(todo[th]))
  BY DEF Allocates
<1>3. Going(th, Tail(todo[th]), op[th].result, temp[th])
  BY <1>2, TailGoing
<1>4. SameBut(Own(th), mem, mem')
  BY DEF SameBut
<1>5. ASSUME NEW u \in Threads, u # th PROVE HostReady(u, cs)'
  BY <1>3, <1>4, <1>5, HostContinues
<1> QED  BY <1>1, <1>5

LEMMA VulkanFlushNothingKeeps ==
  ASSUME VulkanInv, NEW th \in Threads, FlushNothing(th)
  PROVE  VulkanInv'
<1>f. /\ Discipline /\ VulkanControl /\ pool \cap Touched(cmds) = {} /\ DeviceTyped
      /\ \A u \in Threads : HostReady(u, Commands(cmds))
      /\ \A k \in Keys : Place[k] \notin free_bufs \cup pool
      /\ free_bufs \cap pool = {} /\ cmds \in Seq(CommandsOver(Buffers))
      /\ mem \in [Buffers -> Contents] /\ DOMAIN todo = Threads
  BY VulkanFacts
<1>1. /\ todo[th] # <<>> /\ Head(todo[th]).do = "flush" /\ ctx = None /\ ~open /\ Advance(th)
      /\ UNCHANGED <<mem, cmds, ctx, bufs, open, n_sets, running, lost, profiled>>
      /\ UNCHANGED <<free_bufs, pool, buffer>>
  BY DEF FlushNothing, Next1, vulkan_state, bufs
<1>2. cmds = <<>> /\ ~lost
  BY <1>f, <1>1 DEF VulkanControl
<1>3. ExecAll(mem, cmds) = mem /\ Commands(cmds) = {}
  BY <1>2, ExecAllEmpty, CommandLists
<1>4. ~Allocates(Head(todo[th])) /\ Head(todo[th]).do # "defer"
  BY <1>1 DEF Allocates
<1>5. todo' = [todo EXCEPT ![th] = Tail(todo[th])]
  BY <1>1 DEF Advance, Continue
<1>6. Discipline'
  <2>1. DeviceTyped'
    BY <1>f, <1>1 DEF DeviceTyped
  <2> QED  BY <1>f, <1>1, <1>4, <2>1, AdvanceDisciplined
<1>7. VulkanControl'
  BY <1>f, <1>1 DEF VulkanControl
<1>8. VulkanPoolIsIdle'
  BY <1>f, <1>1 DEF VulkanPoolIsIdle
<1>9. Agreement(todo, ExecAll(mem, cmds))'
  <2>1. PICK R, R2, S : R = todo /\ R2 = todo' /\ S = ExecAll(mem, cmds)
    OBVIOUS
  <2>2. Agreement(R, S) /\ S \in [Buffers -> Contents]
    BY <1>2, <2>1, VulkanFacts
  <2>3. R[th] = todo[th] /\ R2[th] = Tail(todo[th]) /\ \A u \in Threads \ {th} : R2[u] = R[u]
    BY <1>f, <1>5, <2>1
  <2>4. Agreement(R2, S)
    BY <1>f, <1>1, <2>2, <2>3, SkipSettles
  <2>5. Agreement(R2, S)'
    BY <1>f, <1>1, <1>4, <2>2, <2>3, <2>4, AdvanceAgrees
  <2> QED  BY <1>1, <2>1, <2>5, AgreementNow
<1>10. VulkanReady'
  <2>1. PICK cs, S : cs = Commands(cmds) /\ S = mem
    OBVIOUS
  <2>2. cs = {} /\ \A u \in Threads : HostReady(u, cs)
    BY <1>f, <1>3, <2>1
  <2>3. Settles(S)
    BY <1>2, <1>3, <2>1, VulkanFacts DEF Agreement
  <2>4. SameBut({}, mem, mem')
    BY <1>1 DEF SameBut
  <2>5. \A t : mem'[buffer[t]] = S[buffer[t]] /\ \A c \in cs : buffer[t] \notin Uses(c)
    BY <1>1, <2>1, <2>2
  <2>6. \A u \in Threads : HostReady(u, cs)'
    BY <1>f, <1>1, <2>2, <2>3, <2>4, <2>5, FlushGoesOn
  <2> QED  BY <1>1, <2>1, <2>6, ReadyNow
<1> QED  BY <1>6, <1>7, <1>8, <1>9, <1>10 DEF VulkanInv

(* Running what a readback does not wait for leaves what it reads alone.   *)
LEMMA ExecReadies ==
  ASSUME Discipline, NEW cs \in Seq(CommandsOver(Buffers)), NEW A, NEW B,
         Commands(cs) \subseteq A, B \subseteq A, \A u \in Threads : HostReady(u, A),
         mem' = ExecAll(mem, cs), UNCHANGED <<eager, threads, buffer>>
  PROVE  \A u \in Threads : HostReady(u, B)'
<1>1. mem \in [Buffers -> Contents] /\ op' = op /\ todo' = todo /\ val' = val /\ buffer' = buffer
  BY DEF Discipline, DeviceTyped, threads, eager
<1>2. ASSUME NEW u \in Threads, Next1(u, "data") PROVE mem'[buffer[op[u].src]] = mem[buffer[op[u].src]]
  <2>1. buffer[op[u].src] \in Buffers
    BY <1>2, HostOperands
  <2>2. \A c \in Commands(cs) : c.dst # buffer[op[u].src]
    BY <1>2 DEF HostReady
  <2>3. Spares(cs, buffer[op[u].src])
    BY <2>2 DEF Spares, Commands
  <2> QED  BY <1>1, <2>1, <2>3, ExecAllUnwritten
<1>3. ASSUME NEW u \in Threads PROVE HostReady(u, B)'
  BY <1>1, <1>2, HostStays
<1> QED  BY <1>3

LEMMA VulkanExecuteKeeps ==
  ASSUME VulkanInv, VulkanExecute
  PROVE  VulkanInv'
<1>f. /\ Discipline /\ VulkanControl /\ pool \cap Touched(cmds) = {} /\ DeviceTyped
      /\ \A u \in Threads : HostReady(u, Commands(cmds))
      /\ \A k \in Keys : Place[k] \notin free_bufs \cup pool
      /\ free_bufs \cap pool = {} /\ cmds \in Seq(CommandsOver(Buffers))
      /\ mem \in [Buffers -> Contents] /\ ExecAll(mem, cmds) \in [Buffers -> Contents]
  BY VulkanFacts
<1>1. /\ running /\ ~lost /\ mem' = ExecAll(mem, cmds) /\ cmds' = <<>> /\ running' = FALSE
      /\ UNCHANGED <<eager, ctx, bufs, threads, open, n_sets, lost, profiled>>
      /\ UNCHANGED <<free_bufs, pool, buffer, todo>>
  BY DEF VulkanExecute, bufs, threads
<1>2. Discipline'
  <2>1. DeviceTyped'
    BY <1>f, <1>1 DEF DeviceTyped
  <2> QED  BY <1>f, <1>1, <2>1, StayDisciplined
<1>3. VulkanControl'
  BY <1>f, <1>1 DEF VulkanControl, Next1
<1>4. VulkanPoolIsIdle'
  <2>1. Touched(cmds') = {}
    BY <1>1, CommandLists
  <2> QED  BY <2>1 DEF VulkanPoolIsIdle
<1>5. Agreement(todo, ExecAll(mem, cmds))'
  <2>1. PICK R, S : R = todo /\ S = ExecAll(mem, cmds)
    OBVIOUS
  <2>2. Agreement(R, S)
    BY <1>1, <2>1, VulkanFacts
  <2>3. Agreement(R, S)'
    BY <1>1, <2>2, StayAgrees
  <2>4. ExecAll(mem, cmds)' = S
    BY <1>1, <2>1, ExecAllEmpty
  <2> QED  BY <1>1, <2>1, <2>3, <2>4, AgreementNow
<1>6. VulkanReady'
  <2>1. PICK A, B : A = Commands(cmds) /\ B = Commands(cmds')
    OBVIOUS
  <2>2. B = {}
    BY <1>1, <2>1, CommandLists
  <2>3. \A u \in Threads : HostReady(u, B)'
    BY <1>f, <1>1, <2>1, <2>2, ExecReadies
  <2> QED  BY <2>1, <2>3, ReadyNow
<1> QED  BY <1>2, <1>3, <1>4, <1>5, <1>6 DEF VulkanInv

(* What a flush recycles is no one's.                                      *)
LEMMA RecycledFacts ==
  ASSUME Discipline, NEW bs, bs \subseteq Buffers, \A k \in Keys : Place[k] \notin bs,
         mem' = Recycled(mem, bs)
  PROVE  mem' \in [Buffers -> Contents] /\ SameBut({}, mem, mem') /\ \A b \in Buffers \ bs : mem'[b] = mem[b]
<1>1. mem \in [Buffers -> Contents] /\ 0 \in Contents
  BY NameFacts DEF Discipline, DeviceTyped
<1>2. mem' = [b \in Buffers |-> IF b \in bs THEN 0 ELSE mem[b]]
  BY DEF Recycled
<1>3. mem' \in [Buffers -> Contents] /\ \A b \in Buffers \ bs : mem'[b] = mem[b]
  BY <1>1, <1>2
<1>4. \A k \in Keys : Place[k] \in Buffers \cup {None}
  BY PlaceFacts
<1> QED  BY <1>3, <1>4 DEF SameBut

LEMMA VulkanFlushedKeeps ==
  ASSUME VulkanInv, NEW th \in Threads, Flushed(th)
  PROVE  VulkanInv'
<1> DEFINE c == NextCommand(th)
<1>f. /\ Discipline /\ VulkanControl /\ pool \cap Touched(cmds) = {} /\ DeviceTyped
      /\ \A u \in Threads : HostReady(u, Commands(cmds))
      /\ \A k \in Keys : Place[k] \notin free_bufs \cup pool
      /\ free_bufs \cap pool = {} /\ cmds \in Seq(CommandsOver(Buffers))
      /\ mem \in [Buffers -> Contents] /\ DOMAIN todo = Threads
  BY VulkanFacts
<1>1. /\ ctx = th /\ open /\ ~running /\ cmds = <<>>
      /\ mem' = Recycled(mem, free_bufs) /\ pool' = pool \cup free_bufs /\ free_bufs' = {} /\ buffer' = buffer
      /\ ctx' = None /\ Advance(th) /\ UNCHANGED <<running, lost, profiled>>
      /\ Records(Head(todo[th])) =>
           cmds' = Append(cmds, c) /\ open' = TRUE /\ n_sets' = 0 + (IF Next1(th, "dispatch") THEN 1 ELSE 0)
      /\ ~Records(Head(todo[th])) => cmds' = cmds /\ open' = FALSE /\ n_sets' = 0
  BY DEF Flushed, Recycle, AddTo
<1>2. /\ ~lost /\ todo[th] # <<>> /\ (Records(Head(todo[th])) \/ Head(todo[th]).do = "flush")
  BY <1>f, <1>1, NameFacts DEF VulkanControl, Next1
<1>3. ~Allocates(Head(todo[th])) /\ Head(todo[th]).do # "defer" /\ todo' = [todo EXCEPT ![th] = Tail(todo[th])]
  BY <1>1, <1>2, KindFacts DEF Advance, Continue, Allocates
<1>4. Records(Head(todo[th])) => c \in CommandsOver(Buffers) /\ Uses(c) \cap (free_bufs \cup pool) = {}
  BY <1>f, <1>2, RecordFacts
<1> HIDE DEF c
<1>5. /\ <<>> \in Seq(CommandsOver(Buffers)) /\ Commands(<<>>) = {} /\ Touched(<<>>) = {} /\ Len(<<>>) = 0
  BY CommandLists
<1>6. Records(Head(todo[th])) =>
        /\ cmds' \in Seq(CommandsOver(Buffers)) /\ cmds' # <<>> /\ Len(cmds') = 1
        /\ Commands(cmds') = {c} /\ Touched(cmds') = Uses(c)
  <2>1. Records(Head(todo[th])) => cmds' = Append(cmds, c)
    BY <1>1
  <2>2. Records(Head(todo[th])) =>
          /\ cmds' \in Seq(CommandsOver(Buffers)) /\ cmds' # <<>> /\ Len(cmds') = Len(cmds) + 1
          /\ Commands(cmds') = Commands(cmds) \cup {c} /\ Touched(cmds') = Touched(cmds) \cup Uses(c)
    BY <1>f, <1>4, <2>1, CommandLists
  <2>3. Len(cmds) = 0 /\ Commands(cmds) = {} /\ Touched(cmds) = {}
    BY <1>1, <1>5
  <2> QED  BY <2>2, <2>3
<1>7. mem' \in [Buffers -> Contents] /\ SameBut({}, mem, mem')
  <2>1. free_bufs \subseteq Buffers /\ \A k \in Keys : Place[k] \notin free_bufs
    BY <1>f DEF DeviceTyped
  <2> QED  BY <1>f, <1>1, <2>1, RecycledFacts
<1>8. Discipline'
  <2>1. DeviceTyped'
    BY <1>f, <1>1, <1>6, <1>7 DEF DeviceTyped
  <2>2. \A k \in Keys : Place[k] \notin free_bufs' \cup pool'
    BY <1>f, <1>1
  <2>3. free_bufs' \cap pool' = {}
    BY <1>1
  <2> QED  BY <1>f, <1>1, <1>2, <1>3, <2>1, <2>2, <2>3, AdvanceDisciplined
<1>9. VulkanControl'
  <2>1. n_sets' \in 0 .. MaxSets /\ n_sets' <= Len(cmds')
    <3>1. MaxSets \in Nat /\ MaxSets # 0
      BY VulkanAssumption
    <3> QED  BY <1>1, <1>5, <1>6, <3>1
  <2>2. open' <=> cmds' # <<>>
    BY <1>1, <1>6
  <2> QED  BY <1>f, <1>1, <1>2, <2>1, <2>2 DEF VulkanControl
<1>10. VulkanPoolIsIdle'
  BY <1>1, <1>4, <1>5, <1>6 DEF VulkanPoolIsIdle
<1>11. PICK R, R2, S0, S : R = todo /\ R2 = todo' /\ S0 = mem /\ S = mem' /\ S \in [Buffers -> Contents]
  BY <1>7
<1>12. Agreement(R, S)
  <2>1. Agreement(R, S0)
    BY <1>1, <1>2, <1>11, ExecAllEmpty, VulkanFacts
  <2>2. SameBut({}, S0, S)
    BY <1>7, <1>11
  <2> QED  BY <1>f, <2>1, <2>2, SameSettles
<1>13. R[th] = todo[th] /\ R2[th] = Tail(todo[th]) /\ \A u \in Threads \ {th} : R2[u] = R[u]
  BY <1>f, <1>3, <1>11
<1>14. Agreement(todo, ExecAll(mem, cmds))'
  <2>1. CASE Records(Head(todo[th]))
    <3>1. PICK S2 \in [Buffers -> Contents] : S2 = Exec(S, c)
      BY <1>f, <1>2, <1>11, <1>12, <1>13, <2>1, RecordAgrees DEF c
    <3>2. Agreement(R2, S2)
      BY <1>f, <1>2, <1>11, <1>12, <1>13, <2>1, <3>1, RecordAgrees DEF c
    <3>3. Agreement(R2, S2)'
      BY <1>f, <1>1, <1>2, <1>3, <1>13, <3>1, <3>2, AdvanceAgrees
    <3>4. ExecAll(mem, cmds)' = S2
      <4>1. ExecAll(S, Append(cmds, c)) = Exec(ExecAll(S, cmds), c)
        BY <1>f, <1>4, <2>1, ExecAllAppend
      <4>2. ExecAll(S, cmds) = S
        BY <1>1, ExecAllEmpty
      <4> QED  BY <1>1, <1>11, <2>1, <3>1, <4>1, <4>2
    <3> QED  BY <1>11, <3>3, <3>4, AgreementNow
  <2>2. CASE ~Records(Head(todo[th]))
    <3>1. Agreement(R2, S)
      BY <1>f, <1>2, <1>12, <1>13, <2>2, SkipSettles
    <3>2. Agreement(R2, S)'
      BY <1>f, <1>1, <1>2, <1>3, <1>11, <1>13, <3>1, AdvanceAgrees
    <3>3. ExecAll(mem, cmds)' = S
      BY <1>1, <1>11, <2>2, ExecAllEmpty
    <3> QED  BY <1>11, <3>2, <3>3, AgreementNow
  <2> QED  BY <2>1, <2>2
<1>15. VulkanReady'
  <2>1. PICK cs, cs2 : cs = Commands(cmds) /\ cs2 = Commands(cmds')
    OBVIOUS
  <2>2. \A u \in Threads : HostReady(u, cs)
    BY <1>f, <2>1
  <2>3. CASE Records(Head(todo[th]))
    <3>1. cs2 \subseteq cs \cup {NextCommand(th)}
      BY <1>6, <2>1, <2>3 DEF c
    <3>2. \A u \in Threads : HostReady(u, cs2)'
      BY <1>f, <1>1, <1>2, <1>7, <2>2, <2>3, <3>1, RecordReadies
    <3> QED  BY <2>1, <3>2, ReadyNow
  <2>4. CASE ~Records(Head(todo[th]))
    <3>1. Settles(S) /\ cs = {} /\ cs2 = cs
      BY <1>1, <1>5, <1>12, <2>1, <2>4 DEF Agreement
    <3>2. \A t : mem'[buffer[t]] = S[buffer[t]] /\ \A e \in cs : buffer[t] \notin Uses(e)
      BY <1>11, <3>1
    <3>3. \A u \in Threads : HostReady(u, cs)'
      BY <1>f, <1>1, <1>2, <1>7, <2>2, <2>4, <3>1, <3>2, FlushGoesOn
    <3> QED  BY <2>1, <3>1, <3>3, ReadyNow
  <2> QED  BY <2>3, <2>4
<1> QED  BY <1>8, <1>9, <1>10, <1>14, <1>15 DEF VulkanInv

LEMMA VulkanFlushFailsKeeps ==
  ASSUME VulkanInv, NEW th \in Threads, FlushFails(th)
  PROVE  VulkanInv'
<1>f. /\ Discipline /\ VulkanControl /\ pool \cap Touched(cmds) = {} /\ DeviceTyped
      /\ \A u \in Threads : HostReady(u, Commands(cmds))
  BY VulkanFacts
<1>1. /\ ctx = th /\ running /\ lost' = TRUE /\ running' = FALSE /\ ctx' = None /\ Abort(th)
      /\ UNCHANGED <<mem, cmds, bufs, open, n_sets, profiled>> /\ UNCHANGED <<free_bufs, pool, buffer>>
  BY DEF FlushFails, bufs
<1>2. todo[th] # <<>> /\ open /\ (open <=> cmds # <<>>) /\ n_sets <= Len(cmds)
  BY <1>f, <1>1, NameFacts DEF VulkanControl
<1>3. Discipline'
  <2>1. DeviceTyped'
    BY <1>f, <1>1 DEF DeviceTyped
  <2> QED  BY <1>f, <1>1, <1>2, <2>1, AbortDisciplined
<1>4. VulkanControl'
  BY <1>f, <1>1, <1>2 DEF VulkanControl
<1>5. VulkanPoolIsIdle'
  BY <1>f, <1>1 DEF VulkanPoolIsIdle
<1>6. VulkanReady'
  <2>1. PICK cs : cs = Commands(cmds)
    OBVIOUS
  <2>2. /\ Going(th, Given(th), OldContents(th), temp[th])
        /\ \A i \in DOMAIN Given(th) : Given(th)[i].do = "defer"
    BY <1>f, <1>1, <1>2, AbortGoing
  <2>3. Given(th) # <<>> => Head(Given(th)).do \notin {"host", "data"}
    <3>1. Given(th) \in Seq(AllSteps)
      BY <2>2 DEF Going
    <3>2. Given(th) # <<>> => 1 \in DOMAIN Given(th) /\ Head(Given(th)) = Given(th)[1]
      BY <3>1, TailFacts
    <3> QED  BY <2>2, <3>2
  <2>4. todo' = [todo EXCEPT ![th] = Given(th)]
    BY <1>f, <2>2, ContinueChanges
  <2>5. HostReady(th, cs)'
    BY <1>f, <2>3, <2>4, NoHostNext
  <2>6. SameBut(Own(th), mem, mem')
    BY <1>1 DEF SameBut
  <2>7. ASSUME NEW u \in Threads, u # th PROVE HostReady(u, cs)'
    <3>1. HostReady(u, cs)
      BY <1>f, <2>1
    <3> QED  BY <1>f, <2>2, <2>6, <2>7, <3>1, HostContinues
  <2> QED  BY <1>1, <2>1, <2>5, <2>7, ReadyNow
<1> QED  BY <1>1, <1>3, <1>4, <1>5, <1>6 DEF VulkanInv

LEMMA VulkanControlStays ==
  ASSUME VulkanControl, UNCHANGED <<cmds, ctx, vulkan_state>>, ctx # None => todo'[ctx] = todo[ctx]
  PROVE  VulkanControl'
BY DEF VulkanControl, vulkan_state, Next1

LEMMA VulkanSharedKeeps ==
  ASSUME VulkanInv, NEW th \in Threads, SharedStep(th), UNCHANGED vulkan_state
  PROVE  VulkanInv'
<1>f. /\ Discipline /\ VulkanControl /\ pool \cap Touched(cmds) = {} /\ cmds \in Seq(CommandsOver(Buffers))
      /\ \A u \in Threads : HostReady(u, Commands(cmds))
  BY VulkanFacts
<1>1. PICK cs, bs : cs = Commands(cmds) /\ bs = cmds
  OBVIOUS
<1>2. \A u \in Threads : HostReady(u, cs)
  BY <1>f, <1>1
<1>3. profiled' = profiled /\ lost' = lost
  BY DEF vulkan_state
<1>4. /\ Discipline' /\ UNCHANGED <<cmds, ctx, buffer>> /\ pool' \subseteq pool
      /\ todo[th] # <<>> /\ Head(todo[th]).do \in {"defer", "host", "data", "alloc", "scratch"}
      /\ \A u \in Threads \ {th} : todo'[u] = todo[u]
      /\ \A u \in Threads : HostReady(u, cs)'
  BY <1>f, <1>2, <1>3, SharedStepKeeps
<1>5. VulkanControl'
  <2>1. ctx # None => ctx # th
    BY <1>f, <1>4 DEF VulkanControl, Next1, Records
  <2>2. ctx \in Threads \cup {None}
    BY <1>f DEF Discipline, DeviceTyped
  <2> QED  BY <1>f, <1>4, <2>1, <2>2, VulkanControlStays
<1>6. VulkanPoolIsIdle'
  BY <1>f, <1>4 DEF VulkanPoolIsIdle
<1>7. ASSUME ~lost' PROVE Agreement(todo, ExecAll(mem, cmds))'
  <2>1. PICK R, R2, S, S2 : R = todo /\ R2 = todo' /\ S = ExecAll(mem, bs) /\ S2 = ExecAll(mem', bs)
    OBVIOUS
  <2>2. Agreement(R, S)
    BY <1>1, <1>3, <1>7, <2>1, VulkanFacts
  <2>3. R[th] = todo[th] /\ R2[th] = todo'[th] /\ \A u \in Threads \ {th} : R2[u] = R[u]
    BY <1>4, <2>1
  <2>4. bs \in Seq(CommandsOver(Buffers)) /\ pool \cap Touched(bs) = {} /\ HostReady(th, Commands(bs))
    BY <1>f, <1>1
  <2>5. Agreement(R2, S2)'
    BY <1>f, <1>3, <2>1, <2>2, <2>3, <2>4, SharedStepAgrees
  <2>6. S2 = ExecAll(mem, cmds)'
    BY <1>1, <1>4, <2>1
  <2> QED  BY <2>1, <2>5, <2>6, AgreementNow
<1>8. VulkanReady'
  BY <1>1, <1>4, ReadyNow
<1> QED  BY <1>4, <1>5, <1>6, <1>7, <1>8 DEF VulkanInv

LEMMA VulkanBeginKeeps ==
  ASSUME VulkanInv, NEW th \in Threads, NEW d, NEW s, NEW p, Begin(th, d, s, p), Program(p, d, s),
         UNCHANGED vulkan_state
  PROVE  VulkanInv'
<1>f. /\ Discipline /\ VulkanControl /\ pool \cap Touched(cmds) = {}
      /\ \A u \in Threads : HostReady(u, Commands(cmds)) /\ DOMAIN todo = Threads
  BY VulkanFacts
<1>1. PICK cs : cs = Commands(cmds)
  OBVIOUS
<1>2. \A u \in Threads : HostReady(u, cs)
  BY <1>f, <1>1
<1>3. profiled' = profiled /\ lost' = lost
  BY DEF vulkan_state
<1>4. /\ Discipline' /\ UNCHANGED <<mem, cmds, ctx, bufs>>
      /\ todo[th] = <<>> /\ \A u \in Threads \ {th} : todo'[u] = todo[u]
      /\ todo'[th] = p
      /\ \A u \in Threads : HostReady(u, cs)'
  BY <1>f, <1>2, <1>3, BeginKeeps
<1>5. VulkanControl'
  <2>1. ctx # None => ctx # th
    BY <1>f, <1>4 DEF VulkanControl
  <2>2. ctx \in Threads \cup {None}
    BY <1>f DEF Discipline, DeviceTyped
  <2> QED  BY <1>f, <1>4, <2>1, <2>2, VulkanControlStays
<1>6. VulkanPoolIsIdle'
  BY <1>f, <1>4 DEF VulkanPoolIsIdle, bufs
<1>7. ASSUME ~lost' PROVE Agreement(todo, ExecAll(mem, cmds))'
  <2>1. PICK R, R2, S : R = todo /\ R2 = todo' /\ S = ExecAll(mem, cmds)
    OBVIOUS
  <2>2. Agreement(R, S) /\ S \in [Buffers -> Contents]
    BY <1>3, <1>7, <2>1, VulkanFacts
  <2>3. R2[th] = p /\ \A u \in Threads \ {th} : R2[u] = R[u]
    BY <1>4, <2>1
  <2>4. Agreement(R2, S)'
    BY <1>f, <1>3, <2>2, <2>3, BeginAgrees
  <2>5. S = ExecAll(mem, cmds)'
    BY <1>4, <2>1
  <2> QED  BY <2>1, <2>4, <2>5, AgreementNow
<1>8. VulkanReady'
  BY <1>1, <1>4, ReadyNow
<1> QED  BY <1>4, <1>5, <1>6, <1>7, <1>8 DEF VulkanInv

LEMMA VulkanNewStorageKeeps ==
  ASSUME VulkanInv, NEW t \in Tensors, NEW b \in Buffers, NEW v \in Contents, NewStorage(t, b, v),
         UNCHANGED vulkan_state
  PROVE  VulkanInv'
<1>f. /\ Discipline /\ VulkanControl /\ pool \cap Touched(cmds) = {} /\ cmds \in Seq(CommandsOver(Buffers))
      /\ \A u \in Threads : HostReady(u, Commands(cmds))
  BY VulkanFacts
<1>1. PICK cs, bs : cs = Commands(cmds) /\ bs = cmds
  OBVIOUS
<1>2. \A u \in Threads : HostReady(u, cs)
  BY <1>f, <1>1
<1>3. profiled' = profiled /\ lost' = lost
  BY DEF vulkan_state
<1>4. /\ Discipline' /\ UNCHANGED <<cmds, ctx, threads>> /\ pool' \subseteq pool
      /\ \A u \in Threads : HostReady(u, cs)'
  BY <1>f, <1>2, <1>3, NewStorageKeeps
<1>5. VulkanControl'
  BY <1>f, <1>4, VulkanControlStays DEF threads
<1>6. VulkanPoolIsIdle'
  BY <1>f, <1>4 DEF VulkanPoolIsIdle
<1>7. ASSUME ~lost' PROVE Agreement(todo, ExecAll(mem, cmds))'
  <2>1. PICK R, S, S2 : R = todo /\ S = ExecAll(mem, bs) /\ S2 = ExecAll(mem', bs)
    OBVIOUS
  <2>2. Agreement(R, S)
    BY <1>1, <1>3, <1>7, <2>1, VulkanFacts
  <2>3. bs \in Seq(CommandsOver(Buffers)) /\ pool \cap Touched(bs) = {}
    BY <1>f, <1>1
  <2>4. Agreement(R, S2)'
    BY <1>f, <2>1, <2>2, <2>3, NewStorageKeepsAgreement
  <2>5. S2 = ExecAll(mem, cmds)' /\ R = todo'
    BY <1>1, <1>4, <2>1 DEF threads
  <2> QED  BY <2>4, <2>5, AgreementNow
<1>8. VulkanReady'
  BY <1>1, <1>4, ReadyNow
<1> QED  BY <1>4, <1>5, <1>6, <1>7, <1>8 DEF VulkanInv

LEMMA VulkanDropStorageKeeps ==
  ASSUME VulkanInv, NEW t \in Tensors, DropStorage(t), UNCHANGED vulkan_state
  PROVE  VulkanInv'
<1>f. /\ Discipline /\ VulkanControl /\ pool \cap Touched(cmds) = {}
      /\ \A u \in Threads : HostReady(u, Commands(cmds))
  BY VulkanFacts
<1>1. PICK cs : cs = Commands(cmds)
  OBVIOUS
<1>2. \A u \in Threads : HostReady(u, cs)
  BY <1>f, <1>1
<1>3. profiled' = profiled /\ lost' = lost
  BY DEF vulkan_state
<1>4. /\ Discipline' /\ UNCHANGED <<mem, cmds, ctx, pool, threads>>
      /\ \A u \in Threads : HostReady(u, cs)'
  BY <1>f, <1>2, <1>3, DropStorageKeeps
<1>5. VulkanControl'
  BY <1>f, <1>4, VulkanControlStays DEF threads
<1>6. VulkanPoolIsIdle'
  BY <1>f, <1>4 DEF VulkanPoolIsIdle
<1>7. ASSUME ~lost' PROVE Agreement(todo, ExecAll(mem, cmds))'
  <2>1. PICK R, S : R = todo /\ S = ExecAll(mem, cmds)
    OBVIOUS
  <2>2. Agreement(R, S)
    BY <1>3, <1>7, <2>1, VulkanFacts
  <2>3. Agreement(R, S)'
    BY <1>f, <2>2, DropStorageAgrees
  <2>4. S = ExecAll(mem, cmds)' /\ R = todo'
    BY <1>4, <2>1 DEF threads
  <2> QED  BY <2>3, <2>4, AgreementNow
<1>8. VulkanReady'
  BY <1>1, <1>4, ReadyNow
<1> QED  BY <1>4, <1>5, <1>6, <1>7, <1>8 DEF VulkanInv

LEMMA VulkanInitHolds == VulkanInit => VulkanInv
<1> SUFFICES ASSUME VulkanInit PROVE VulkanInv
  OBVIOUS
<1>1. SharedInit /\ open = FALSE /\ n_sets = 0 /\ running = FALSE /\ lost = FALSE
  BY DEF VulkanInit
<1>2. Discipline
  BY <1>1, InitDisciplined
<1>3. /\ cmds = <<>> /\ ctx = None /\ \A th \in Threads : todo[th] = <<>> /\ op[th].dst = None
      /\ \A t \in Tensors : ~Live(t)
  BY <1>1 DEF SharedInit, EagerInit, Live, NoOp
<1>4. VulkanControl
  <2>1. MaxSets \in Nat
    BY VulkanAssumption
  <2>2. n_sets \in 0 .. MaxSets /\ n_sets <= Len(cmds)
    BY <1>1, <1>3, <2>1
  <2>3. open \in BOOLEAN /\ running \in BOOLEAN /\ lost \in BOOLEAN /\ ~open /\ ~running /\ ~lost
    BY <1>1
  <2> QED  BY <1>3, <2>2, <2>3 DEF VulkanControl
<1>5. VulkanPoolIsIdle
  BY <1>3, CommandLists DEF VulkanPoolIsIdle
<1>6. Agreement(todo, ExecAll(mem, cmds))
  BY <1>3 DEF Agreement, Settles, Due, Intact
<1>7. VulkanReady
  BY <1>3 DEF VulkanReady, HostReady, Next1
<1> QED  BY <1>2, <1>4, <1>5, <1>6, <1>7 DEF VulkanInv

LEMMA VulkanNextKeeps ==
  ASSUME VulkanInv, VulkanNext
  PROVE  VulkanInv'
<1>1. CASE VulkanExecute
  BY <1>1, VulkanExecuteKeeps
<1>2. ASSUME NEW t \in Tensors, VulkanStorage(t) PROVE VulkanInv'
  <2>1. UNCHANGED vulkan_state
    BY <1>2 DEF VulkanStorage
  <2>2. CASE DropStorage(t)
    BY <2>1, <2>2, VulkanDropStorageKeeps
  <2>3. ASSUME NEW b \in Buffers, AllocUninit(t, b) PROVE VulkanInv'
    BY <2>1, <2>3, VulkanNewStorageKeeps DEF AllocUninit
  <2>4. ASSUME NEW b \in Buffers, NEW v \in Inputs, FromVec(t, b, v) PROVE VulkanInv'
    <3>1. v \in Contents
      BY NameFacts
    <3> QED  BY <2>1, <2>4, <3>1, VulkanNewStorageKeeps DEF FromVec
  <2> QED  BY <1>2, <2>2, <2>3, <2>4 DEF VulkanStorage
<1>3. ASSUME NEW th \in Threads, VulkanStart(th) PROVE VulkanInv'
  <2>1. UNCHANGED vulkan_state
    BY <1>3 DEF VulkanStart
  <2>2. ASSUME NEW p \in Vulkan!synchronize, Begin(th, None, None, p) PROVE VulkanInv'
    BY <2>1, <2>2, VulkanPrograms, VulkanBeginKeeps
  <2>3. ASSUME NEW t \in Tensors, NEW p \in Vulkan!data(t), Begin(th, None, t, p) PROVE VulkanInv'
    BY <2>1, <2>3, VulkanPrograms, VulkanBeginKeeps
  <2>4. ASSUME NEW t \in Tensors, NEW p \in Vulkan!AlonePrograms[t], BeginBounded(th, t, None, p)
        PROVE  VulkanInv'
    BY <2>1, <2>4, VulkanPrograms, VulkanBeginKeeps DEF BeginBounded
  <2>5. ASSUME NEW t \in Tensors, NEW s \in Tensors \ {t}, NEW p \in Vulkan!PairPrograms[t][s],
               BeginBounded(th, t, s, p)
        PROVE  VulkanInv'
    <3>1. Begin(th, t, s, p) /\ p # <<>>
      BY <2>5 DEF BeginBounded, Begin
    <3>2. Program(p, t, s)
      BY <2>5, <3>1, VulkanPrograms
    <3> QED  BY <2>1, <3>1, <3>2, VulkanBeginKeeps
  <2> QED  BY <1>3, <2>2, <2>3, <2>4, <2>5 DEF VulkanStart
<1>4. ASSUME NEW th \in Threads, VulkanProceed(th) PROVE VulkanInv'
  <2>1. CASE VulkanRecord(th)
    BY <2>1, VulkanRecordKeeps
  <2>2. CASE Submit(th)
    BY <2>2, VulkanSubmitKeeps
  <2>3. CASE FlushNothing(th)
    BY <2>3, VulkanFlushNothingKeeps
  <2>4. CASE Flushed(th)
    BY <2>4, VulkanFlushedKeeps
  <2>5. CASE UNCHANGED vulkan_state /\ SharedStep(th)
    BY <2>5, VulkanSharedKeeps
  <2> QED  BY <1>4, <2>1, <2>2, <2>3, <2>4, <2>5 DEF VulkanProceed, SharedStep
<1>5. ASSUME NEW th \in Threads, VulkanFails(th) PROVE VulkanInv'
  <2>1. CASE FlushFails(th)
    BY <2>1, VulkanFlushFailsKeeps
  <2>2. CASE AllocFails(th) /\ UNCHANGED vulkan_state
    BY <2>2, VulkanSharedKeeps DEF SharedStep
  <2> QED  BY <1>5, <2>1, <2>2 DEF VulkanFails
<1> QED  BY <1>1, <1>2, <1>3, <1>4, <1>5 DEF VulkanNext

LEMMA VulkanStutterKeeps ==
  ASSUME VulkanInv, UNCHANGED vulkan_vars
  PROVE  VulkanInv'
<1>1. /\ UNCHANGED <<eager, threads, mem, cmds, ctx, bufs, open, n_sets, running, lost, profiled>>
      /\ UNCHANGED <<free_bufs, pool, buffer, todo, val, op>>
  BY DEF vulkan_vars, shared, bufs, threads, eager
<1>2. DeviceTyped'
  BY <1>1, VulkanFacts DEF DeviceTyped
<1>3. Discipline'
  BY <1>1, <1>2, VulkanFacts, StayDisciplined
<1>4. VulkanControl'
  BY <1>1, VulkanFacts, VulkanControlStays DEF vulkan_state
<1>5. VulkanPoolIsIdle'
  BY <1>1, VulkanFacts DEF VulkanPoolIsIdle
<1>6. ASSUME ~lost' PROVE Agreement(todo, ExecAll(mem, cmds))'
  <2>1. PICK R, S : R = todo /\ S = ExecAll(mem, cmds)
    OBVIOUS
  <2>2. Agreement(R, S)
    BY <1>1, <1>6, <2>1, VulkanFacts
  <2>3. Agreement(R, S)'
    BY <1>1, <2>2, StayAgrees
  <2> QED  BY <1>1, <2>1, <2>3, AgreementNow
<1>7. VulkanReady'
  <2>1. PICK cs : cs = Commands(cmds)
    OBVIOUS
  <2>2. ASSUME NEW u \in Threads PROVE HostReady(u, cs)'
    BY <1>1, <2>1, VulkanFacts, HostStays
  <2> QED  BY <1>1, <2>1, <2>2, ReadyNow
<1> QED  BY <1>3, <1>4, <1>5, <1>6, <1>7 DEF VulkanInv

-----------------------------------------------------------------------------
(* Metal: the batches in flight, one after another                         *)

(* f is the memory after each of the first n batches.                      *)
BatchTrace(m, fl, n, f) ==
  f = [i \in 0 .. n |-> IF i = 0 THEN m ELSE ExecAll(f[i - 1], fl[i].cmds)]

(* The memories f goes through, from m, as the first n batches run.        *)
Runs(m, fl, n, f) ==
  f[0] = m /\ \A i \in 0 .. n : i < n => f[i + 1] = ExecAll(f[i], fl[i + 1].cmds)

FrontCompleted(fl, k) == \A i \in 1 .. k : Completed(fl[i])

LEMMA BatchTraceFacts ==
  ASSUME NEW m, NEW fl, NEW n \in Nat, NEW f, BatchTrace(m, fl, n, f)
  PROVE  Runs(m, fl, n, f)
<1>1. \A i \in 0 .. n : f[i] = IF i = 0 THEN m ELSE ExecAll(f[i - 1], fl[i].cmds)
  BY DEF BatchTrace
<1>2. ASSUME NEW i \in 0 .. n, i < n PROVE f[i + 1] = ExecAll(f[i], fl[i + 1].cmds)
  <2>1. i + 1 \in 0 .. n /\ i + 1 # 0 /\ (i + 1) - 1 = i
    BY <1>2
  <2> QED  BY <1>1, <2>1
<1>3. 0 \in 0 .. n
  OBVIOUS
<1> QED  BY <1>1, <1>2, <1>3 DEF Runs

LEMMA BatchTraceExists ==
  ASSUME NEW m, NEW fl, NEW n \in Nat
  PROVE  \E f : BatchTrace(m, fl, n, f)
<1> DEFINE S == {k \in Nat : \E f : BatchTrace(m, fl, k, f)}
<1>1. 0 \in S
  <2>1. BatchTrace(m, fl, 0, [i \in 0 .. 0 |-> m])
    BY DEF BatchTrace
  <2> QED  BY <2>1
<1>2. ASSUME NEW k \in Nat, k \in S PROVE k + 1 \in S
  <2>1. PICK f : BatchTrace(m, fl, k, f)
    BY <1>2
  <2> DEFINE g == [i \in 0 .. k + 1 |-> IF i = k + 1 THEN ExecAll(f[k], fl[k + 1].cmds) ELSE f[i]]
  <2>2. \A i \in 0 .. k : f[i] = IF i = 0 THEN m ELSE ExecAll(f[i - 1], fl[i].cmds)
    BY <2>1 DEF BatchTrace
  <2>3. \A i \in 0 .. k + 1 : g[i] = IF i = 0 THEN m ELSE ExecAll(g[i - 1], fl[i].cmds)
    BY <2>2
  <2>4. BatchTrace(m, fl, k + 1, g)
    BY <2>3 DEF BatchTrace
  <2> QED  BY <2>4
<1> HIDE DEF S
<1>3. Nat \subseteq S
  BY <1>1, <1>2, Induction
<1> QED  BY <1>3 DEF S

LEMMA BatchesTrace ==
  ASSUME NEW m, NEW fl, Len(fl) \in Nat
  PROVE  \E f : BatchTrace(m, fl, Len(fl), f) /\ ExecBatches(m, fl) = f[Len(fl)]
<1> DEFINE F == CHOOSE f : BatchTrace(m, fl, Len(fl), f)
<1>1. BatchTrace(m, fl, Len(fl), F)
  BY BatchTraceExists
<1>2. ExecBatches(m, fl) = F[Len(fl)]
  BY DEF ExecBatches, BatchTrace
<1> QED  BY <1>1, <1>2

LEMMA BatchesRuns ==
  ASSUME NEW m, NEW fl, NEW n \in Nat, Len(fl) = n
  PROVE  \E f : Runs(m, fl, n, f) /\ ExecBatches(m, fl) = f[n]
<1>1. PICK f : BatchTrace(m, fl, n, f) /\ ExecBatches(m, fl) = f[n]
  BY BatchesTrace
<1>2. Runs(m, fl, n, f)
  BY <1>1, BatchTraceFacts
<1> QED  BY <1>1, <1>2

(* Any such sequence of memories ends where ExecBatches does.              *)
LEMMA BatchesEnd ==
  ASSUME NEW fl, NEW n \in Nat, Len(fl) = n, NEW m, NEW g, Runs(m, fl, n, g)
  PROVE  ExecBatches(m, fl) = g[n]
<1>1. PICK f : Runs(m, fl, n, f) /\ ExecBatches(m, fl) = f[n]
  BY BatchesRuns
<1> DEFINE S == {i \in Nat : i <= n => f[i] = g[i]}
<1>2. 0 \in S
  BY <1>1 DEF Runs
<1>3. ASSUME NEW i \in Nat, i \in S PROVE i + 1 \in S
  <2> SUFFICES ASSUME i + 1 <= n PROVE f[i + 1] = g[i + 1]
    OBVIOUS
  <2>1. i \in 0 .. n /\ i < n /\ i <= n
    OBVIOUS
  <2> QED  BY <1>1, <1>3, <2>1 DEF Runs
<1> HIDE DEF S
<1>4. Nat \subseteq S
  BY <1>2, <1>3, Induction
<1> QED  BY <1>1, <1>4 DEF S

LEMMA BatchesEmpty ==
  ASSUME NEW m
  PROVE  ExecBatches(m, <<>>) = m
<1>1. Len(<<>>) = 0 /\ 0 \in Nat
  OBVIOUS
<1>2. PICK f : Runs(m, <<>>, 0, f) /\ ExecBatches(m, <<>>) = f[0]
  BY <1>1, BatchesRuns
<1> QED  BY <1>2 DEF Runs

LEMMA BatchesAppend ==
  ASSUME NEW m, NEW C, NEW fl \in Seq(C), NEW b \in C
  PROVE  ExecBatches(m, Append(fl, b)) = ExecAll(ExecBatches(m, fl), b.cmds)
<1> DEFINE n == Len(fl)
           gl == Append(fl, b)
<1>1. n \in Nat /\ Len(gl) = n + 1 /\ gl[n + 1] = b /\ \A i \in 1 .. n : gl[i] = fl[i]
  OBVIOUS
<1> HIDE DEF n, gl
<1>2. PICK f : Runs(m, fl, n, f) /\ ExecBatches(m, fl) = f[n]
  BY <1>1, BatchesRuns DEF n
<1>3. f[0] = m /\ \A i \in 0 .. n : i < n => f[i + 1] = ExecAll(f[i], fl[i + 1].cmds)
  BY <1>2 DEF Runs
<1> DEFINE g == [i \in 0 .. n + 1 |-> IF i = n + 1 THEN ExecAll(f[n], b.cmds) ELSE f[i]]
<1>4. g[0] = m /\ g[n + 1] = ExecAll(f[n], b.cmds) /\ \A i \in 0 .. n : g[i] = f[i]
  BY <1>1, <1>3
<1> HIDE DEF g
<1>5. ASSUME NEW i \in 0 .. n + 1, i < n + 1 PROVE g[i + 1] = ExecAll(g[i], gl[i + 1].cmds)
  <2>1. CASE i = n
    BY <1>1, <1>4, <2>1
  <2>2. CASE i # n
    <3>1. i \in 0 .. n /\ i < n /\ i + 1 \in 1 .. n /\ i + 1 \in 0 .. n
      BY <1>1, <1>5, <2>2
    <3> QED  BY <1>1, <1>3, <1>4, <3>1
  <2> QED  BY <2>1, <2>2
<1>6. ExecBatches(m, gl) = g[n + 1]
  <2>1. Runs(m, gl, n + 1, g)
    BY <1>4, <1>5 DEF Runs
  <2>2. n + 1 \in Nat
    BY <1>1
  <2> QED  BY <1>1, <2>1, <2>2, BatchesEnd
<1> QED  BY <1>2, <1>4, <1>6 DEF gl

(* The batches that have completed change nothing.                         *)
LEMMA FrontChangesNothing ==
  ASSUME NEW m, NEW fl, NEW f, NEW n \in Nat, Runs(m, fl, n, f), NEW k \in 0 .. n, FrontCompleted(fl, k)
  PROVE  \A i \in 0 .. k : f[i] = m
<1> DEFINE S == {i \in Nat : i <= k => f[i] = m}
<1>1. 0 \in S
  BY DEF Runs
<1>2. ASSUME NEW i \in Nat, i \in S PROVE i + 1 \in S
  <2> SUFFICES ASSUME i + 1 <= k PROVE f[i + 1] = m
    OBVIOUS
  <2>1. i \in 0 .. n /\ i < n /\ i <= k /\ i + 1 \in 1 .. k
    OBVIOUS
  <2>2. f[i] = m /\ fl[i + 1].cmds = <<>>
    BY <1>2, <2>1 DEF Completed, FrontCompleted
  <2>3. f[i + 1] = ExecAll(m, <<>>)
    BY <2>1, <2>2 DEF Runs
  <2> QED  BY <2>3, ExecAllEmpty
<1> HIDE DEF S
<1>3. Nat \subseteq S
  BY <1>1, <1>2, Induction
<1> QED  BY <1>3 DEF S

LEMMA RetiredFacts ==
  ASSUME NEW C, NEW fl \in Seq(C), NEW k \in 0 .. Len(fl)
  PROVE  /\ Retired(fl, k) \in Seq(C) /\ Len(Retired(fl, k)) = Len(fl) - k
         /\ DOMAIN Retired(fl, k) = 1 .. Len(fl) - k
         /\ \A i \in 1 .. Len(fl) - k : i + k \in DOMAIN fl /\ Retired(fl, k)[i] = fl[i + k]
BY DEF Retired

LEMMA BatchesRetired ==
  ASSUME NEW m, NEW C, NEW fl \in Seq(C), NEW k \in 0 .. Len(fl), FrontCompleted(fl, k)
  PROVE  ExecBatches(m, Retired(fl, k)) = ExecBatches(m, fl)
<1> DEFINE n == Len(fl)
           gl == Retired(fl, k)
<1>1. n \in Nat /\ k \in 0 .. n /\ Len(gl) = n - k /\ \A i \in 1 .. n - k : gl[i] = fl[i + k]
  BY RetiredFacts
<1>0. Len(fl) = n
  OBVIOUS
<1> HIDE DEF gl, n
<1>2. PICK f : Runs(m, fl, n, f) /\ ExecBatches(m, fl) = f[n]
  BY <1>0, <1>1, BatchesRuns
<1>3. f[0] = m /\ \A i \in 0 .. n : i < n => f[i + 1] = ExecAll(f[i], fl[i + 1].cmds)
  BY <1>2 DEF Runs
<1>4. f[k] = m
  <2>1. \A i \in 0 .. k : f[i] = m
    BY <1>1, <1>2, FrontChangesNothing
  <2> QED  BY <1>1, <2>1
<1> DEFINE g == [i \in 0 .. n - k |-> f[i + k]]
<1>5. g[0] = m /\ g[n - k] = f[n] /\ \A i \in 0 .. n - k : g[i] = f[i + k]
  BY <1>1, <1>4
<1> HIDE DEF g
<1>6. ASSUME NEW i \in 0 .. n - k, i < n - k PROVE g[i + 1] = ExecAll(g[i], gl[i + 1].cmds)
  <2>1. /\ i + k \in 0 .. n /\ i + k < n /\ i + 1 \in 1 .. n - k /\ i + 1 \in 0 .. n - k
        /\ (i + 1) + k = (i + k) + 1
    BY <1>1, <1>6
  <2>2. f[(i + k) + 1] = ExecAll(f[i + k], fl[(i + k) + 1].cmds)
    BY <1>3, <2>1
  <2>3. g[i + 1] = f[(i + k) + 1] /\ g[i] = f[i + k] /\ gl[i + 1] = fl[(i + k) + 1]
    BY <1>1, <1>5, <2>1
  <2> QED  BY <2>2, <2>3
<1>7. ExecBatches(m, gl) = g[n - k]
  <2>1. n - k \in Nat
    BY <1>1
  <2>2. Runs(m, gl, n - k, g)
    BY <1>5, <1>6 DEF Runs
  <2> QED  BY <1>1, <2>1, <2>2, BatchesEnd
<1> QED  BY <1>2, <1>5, <1>7 DEF gl

(* Running the first batch that has not completed leaves the end the same. *)
LEMMA BatchesRun ==
  ASSUME NEW m, NEW fl \in Seq(Batches), NEW i \in DOMAIN fl, FrontCompleted(fl, i - 1),
         NEW m2, m2 = ExecAll(m, fl[i].cmds)
  PROVE  ExecBatches(m2, [fl EXCEPT ![i].cmds = <<>>]) = ExecBatches(m, fl)
<1> DEFINE n == Len(fl)
           gl == [fl EXCEPT ![i].cmds = <<>>]
<1>1. /\ n \in Nat /\ i \in 1 .. n /\ i - 1 \in 0 .. n /\ Len(gl) = n
      /\ gl[i].cmds = <<>> /\ \A j \in 1 .. n : j # i => gl[j] = fl[j]
  <2>1. fl[i] \in Batches
    OBVIOUS
  <2> QED  BY <2>1 DEF Batches
<1> HIDE DEF gl
<1>2. PICK f : Runs(m, fl, n, f) /\ ExecBatches(m, fl) = f[n]
  BY <1>1, BatchesRuns DEF n
<1> HIDE DEF n
<1>3. f[0] = m /\ \A j \in 0 .. n : j < n => f[j + 1] = ExecAll(f[j], fl[j + 1].cmds)
  BY <1>2 DEF Runs
<1>4. \A j \in 0 .. i - 1 : f[j] = m
  BY <1>1, <1>2, FrontChangesNothing
<1>5. f[i] = m2
  <2>1. i - 1 \in 0 .. n /\ i - 1 < n /\ (i - 1) + 1 = i /\ i - 1 \in 0 .. i - 1
    BY <1>1
  <2> QED  BY <1>3, <1>4, <2>1
<1> DEFINE g == [j \in 0 .. n |-> IF j < i THEN m2 ELSE f[j]]
<1>6. /\ g[0] = m2 /\ g[n] = f[n] /\ g[i] = m2 /\ (\A j \in 0 .. n : j < i => g[j] = m2)
      /\ \A j \in 0 .. n : j >= i => g[j] = f[j]
  BY <1>1, <1>5
<1> HIDE DEF g
<1>7. ASSUME NEW j \in 0 .. n, j < n PROVE g[j + 1] = ExecAll(g[j], gl[j + 1].cmds)
  <2>1. j + 1 \in 1 .. n /\ j + 1 \in 0 .. n
    BY <1>1, <1>7
  <2>2. CASE j < i
    <3>1. gl[j + 1].cmds = <<>>
      <4>1. CASE j + 1 = i
        BY <1>1, <4>1
      <4>2. CASE j + 1 # i
        <5>1. j + 1 \in 1 .. i - 1
          BY <1>1, <2>1, <2>2, <4>2
        <5> QED  BY <1>1, <2>1, <4>2, <5>1 DEF Completed, FrontCompleted
      <4> QED  BY <4>1, <4>2
    <3>2. g[j] = m2 /\ g[j + 1] = m2
      <4>1. CASE j + 1 = i
        BY <1>6, <2>2, <4>1
      <4>2. CASE j + 1 # i
        <5>1. j + 1 < i
          BY <1>1, <2>1, <2>2, <4>2
        <5> QED  BY <1>6, <2>1, <2>2, <5>1
      <4> QED  BY <4>1, <4>2
    <3> QED  BY <3>1, <3>2, ExecAllEmpty
  <2>3. CASE ~(j < i)
    <3>1. j >= i /\ j + 1 >= i /\ j + 1 # i
      BY <1>1, <2>1, <2>3
    <3> QED  BY <1>1, <1>3, <1>6, <1>7, <2>1, <3>1
  <2> QED  BY <2>2, <2>3
<1>8. ExecBatches(m2, gl) = g[n]
  <2>1. Runs(m2, gl, n, g)
    BY <1>6, <1>7 DEF Runs
  <2> QED  BY <1>1, <2>1, BatchesEnd
<1> QED  BY <1>2, <1>6, <1>8 DEF gl

-----------------------------------------------------------------------------
(* Lists of batches                                                        *)

LEMMA BatchFacts ==
  ASSUME NEW fl \in Seq(Batches)
  PROVE  /\ Len(fl) \in Nat /\ DOMAIN fl = 1 .. Len(fl)
         /\ \A i \in DOMAIN fl : fl[i] \in Batches /\ fl[i].cmds \in Seq(CommandsOver(Buffers)) /\ fl[i].free \subseteq Buffers
<1>1. \A i \in DOMAIN fl : fl[i] \in Batches
  OBVIOUS
<1> QED  BY <1>1 DEF Batches

(* ds is the commands of fl and then those of cs.                          *)
Flat(fl, cs, ds) ==
  /\ ds \in Seq(CommandsOver(Buffers)) /\ Commands(ds) = PendingIn(fl, cs)
  /\ \A m : SettledIn(m, fl, cs) = ExecAll(m, ds)

LEMMA ConcatCommands ==
  ASSUME NEW C, NEW a \in Seq(C), NEW b \in Seq(C)
  PROVE  a \o b \in Seq(C) /\ Commands(a \o b) = Commands(a) \cup Commands(b)
<1>1. /\ a \o b \in Seq(C) /\ DOMAIN (a \o b) = 1 .. Len(a) + Len(b) /\ Len(a) \in Nat /\ Len(b) \in Nat
      /\ DOMAIN a = 1 .. Len(a) /\ DOMAIN b = 1 .. Len(b)
      /\ \A i \in 1 .. Len(a) : (a \o b)[i] = a[i]
      /\ \A i \in 1 .. Len(b) : (a \o b)[Len(a) + i] = b[i]
  OBVIOUS
<1> DEFINE e == a \o b
<1> HIDE DEF e
<1>2. \A i \in DOMAIN a : i \in DOMAIN e /\ e[i] = a[i]
  BY <1>1 DEF e
<1>3. \A i \in DOMAIN b : Len(a) + i \in DOMAIN e /\ e[Len(a) + i] = b[i]
  BY <1>1 DEF e
<1>4. ASSUME NEW i \in DOMAIN e PROVE e[i] \in Commands(a) \cup Commands(b)
  <2>1. CASE i <= Len(a)
    <3>1. i \in DOMAIN a
      BY <1>1, <2>1 DEF e
    <3> QED  BY <1>2, <3>1 DEF Commands
  <2>2. CASE ~(i <= Len(a))
    <3>1. PICK j \in DOMAIN b : i = Len(a) + j
      <4>1. i - Len(a) \in DOMAIN b /\ i = Len(a) + (i - Len(a))
        BY <1>1, <2>2 DEF e
      <4> QED  BY <4>1
    <3> QED  BY <1>3, <3>1 DEF Commands
  <2> QED  BY <2>1, <2>2
<1>5. Commands(e) \subseteq Commands(a) \cup Commands(b)
  BY <1>4 DEF Commands
<1>6. Commands(a) \cup Commands(b) \subseteq Commands(e)
  BY <1>2, <1>3 DEF Commands
<1> QED  BY <1>1, <1>5, <1>6 DEF e

(* What is pending, as batches come and go.                                *)
LEMMA PendingOfNone == PendingIn(<<>>, <<>>) = {}
<1>1. DOMAIN <<>> = {}
  OBVIOUS
<1> QED  BY <1>1, CommandLists DEF PendingIn

LEMMA PendingAppend ==
  ASSUME NEW fl \in Seq(Batches), NEW b \in Batches
  PROVE  PendingIn(Append(fl, b), <<>>) = PendingIn(fl, b.cmds)
<1> DEFINE gl == Append(fl, b)
<1>1. /\ \A i \in DOMAIN fl : i \in DOMAIN gl /\ gl[i] = fl[i]
      /\ Len(fl) + 1 \in DOMAIN gl /\ gl[Len(fl) + 1] = b
      /\ \A i \in DOMAIN gl : i \in DOMAIN fl \/ i = Len(fl) + 1
  BY ListParts
<1> HIDE DEF gl
<1>2. Commands(<<>>) = {}
  BY CommandLists
<1>3. \A i \in DOMAIN gl : Commands(gl[i].cmds) \subseteq PendingIn(fl, b.cmds)
  BY <1>1 DEF PendingIn
<1>4. \A i \in DOMAIN fl : Commands(fl[i].cmds) \subseteq PendingIn(gl, <<>>)
  BY <1>1 DEF PendingIn
<1>5. Commands(b.cmds) \subseteq PendingIn(gl, <<>>)
  BY <1>1 DEF PendingIn
<1>6. PendingIn(gl, <<>>) \subseteq PendingIn(fl, b.cmds)
  BY <1>2, <1>3 DEF PendingIn
<1>7. PendingIn(fl, b.cmds) \subseteq PendingIn(gl, <<>>)
  BY <1>4, <1>5 DEF PendingIn
<1> QED  BY <1>6, <1>7 DEF gl

LEMMA PendingCommand ==
  ASSUME NEW fl, NEW cs \in Seq(CommandsOver(Buffers)), NEW c \in CommandsOver(Buffers)
  PROVE  PendingIn(fl, Append(cs, c)) = PendingIn(fl, cs) \cup {c}
<1>1. Commands(Append(cs, c)) = Commands(cs) \cup {c}
  BY CommandLists
<1> QED  BY <1>1 DEF PendingIn

LEMMA FlatBatches ==
  ASSUME NEW fl \in Seq(Batches)
  PROVE  \E ds : Flat(fl, <<>>, ds)
<1> DEFINE S == {n \in Nat : \A gl \in Seq(Batches) : Len(gl) = n => \E ds : Flat(gl, <<>>, ds)}
<1>1. 0 \in S
  <2>1. ASSUME NEW gl \in Seq(Batches), Len(gl) = 0 PROVE \E ds : Flat(gl, <<>>, ds)
    <3>1. gl = <<>> /\ <<>> \in Seq(CommandsOver(Buffers))
      BY <2>1
    <3>2. Commands(<<>>) = PendingIn(gl, <<>>)
      BY <3>1, PendingOfNone, CommandLists
    <3>3. \A m : SettledIn(m, gl, <<>>) = ExecAll(m, <<>>)
      BY <3>1, BatchesEmpty DEF SettledIn
    <3>4. Flat(gl, <<>>, <<>>)
      BY <3>1, <3>2, <3>3 DEF Flat
    <3> QED  BY <3>4
  <2> QED  BY <2>1
<1>2. ASSUME NEW n \in Nat, n \in S PROVE n + 1 \in S
  <2>1. ASSUME NEW gl \in Seq(Batches), Len(gl) = n + 1 PROVE \E ds : Flat(gl, <<>>, ds)
    <3>1. PICK hl \in Seq(Batches), b \in Batches : gl = Append(hl, b) /\ Len(hl) = n
      BY <2>1, ListCases
    <3>2. PICK ds : Flat(hl, <<>>, ds)
      BY <1>2, <3>1
    <3>3. b.cmds \in Seq(CommandsOver(Buffers)) /\ ds \in Seq(CommandsOver(Buffers))
      BY <3>2 DEF Batches, Flat
    <3> DEFINE es == ds \o b.cmds
    <3>4. es \in Seq(CommandsOver(Buffers)) /\ Commands(es) = Commands(ds) \cup Commands(b.cmds)
      BY <3>3, ConcatCommands
    <3>5. \A m : ExecAll(m, es) = ExecAll(ExecAll(m, ds), b.cmds)
      BY <3>3, ExecAllConcat
    <3> HIDE DEF es
    <3>6. Commands(es) = PendingIn(gl, <<>>)
      <4>1. Commands(ds) = PendingIn(hl, <<>>) /\ Commands(<<>>) = {}
        BY <3>2, CommandLists DEF Flat
      <4>2. PendingIn(gl, <<>>) = PendingIn(hl, b.cmds)
        BY <3>1, PendingAppend
      <4> QED  BY <3>4, <4>1, <4>2 DEF PendingIn
    <3>7. ASSUME NEW m PROVE SettledIn(m, gl, <<>>) = ExecAll(m, es)
      <4>1. ExecBatches(m, gl) = ExecAll(ExecBatches(m, hl), b.cmds)
        BY <3>1, BatchesAppend
      <4>2. ExecBatches(m, hl) = ExecAll(m, ds)
        BY <3>2, ExecAllEmpty DEF Flat, SettledIn
      <4> QED  BY <3>5, <4>1, <4>2, ExecAllEmpty DEF SettledIn
    <3>8. Flat(gl, <<>>, es)
      BY <3>4, <3>6, <3>7 DEF Flat
    <3> QED  BY <3>8
  <2> QED  BY <2>1
<1> HIDE DEF S
<1>3. Nat \subseteq S
  BY <1>1, <1>2, Induction
<1>4. Len(fl) \in Nat
  BY BatchFacts
<1> QED  BY <1>3, <1>4 DEF S

LEMMA Flattened ==
  ASSUME NEW fl \in Seq(Batches), NEW cs \in Seq(CommandsOver(Buffers))
  PROVE  \E ds : Flat(fl, cs, ds)
<1>1. PICK ds : Flat(fl, <<>>, ds)
  BY FlatBatches
<1>2. ds \in Seq(CommandsOver(Buffers)) /\ Commands(ds) = PendingIn(fl, <<>>) /\ Commands(<<>>) = {}
  BY <1>1, CommandLists DEF Flat
<1> DEFINE es == ds \o cs
<1>3. es \in Seq(CommandsOver(Buffers)) /\ Commands(es) = Commands(ds) \cup Commands(cs)
  BY <1>2, ConcatCommands
<1>4. \A m : ExecAll(m, es) = ExecAll(ExecAll(m, ds), cs)
  BY <1>2, ExecAllConcat
<1> HIDE DEF es
<1>5. Commands(es) = PendingIn(fl, cs)
  BY <1>2, <1>3 DEF PendingIn
<1>6. ASSUME NEW m PROVE SettledIn(m, fl, cs) = ExecAll(m, es)
  <2>1. ExecBatches(m, fl) = ExecAll(m, ds)
    BY <1>1, ExecAllEmpty DEF Flat, SettledIn
  <2> QED  BY <1>4, <2>1 DEF SettledIn
<1>7. Flat(fl, cs, es)
  BY <1>3, <1>5, <1>6 DEF Flat
<1> QED  BY <1>7

LEMMA SettledType ==
  ASSUME NEW fl \in Seq(Batches), NEW cs \in Seq(CommandsOver(Buffers)), NEW m \in [Buffers -> Contents]
  PROVE  SettledIn(m, fl, cs) \in [Buffers -> Contents]
<1>1. PICK ds : Flat(fl, cs, ds)
  BY Flattened
<1> QED  BY <1>1, ExecAllType DEF Flat

(* The batches that maybe_submit retires.                                  *)
IsFront(fl, n) == n \in 0 .. Len(fl) /\ FrontCompleted(fl, n) /\ (n < Len(fl) => ~Completed(fl[n + 1]))

LEMMA FrontFacts ==
  ASSUME NEW fl \in Seq(Batches)
  PROVE  IsFront(fl, CompletedFront(fl))
<1> DEFINE N == Len(fl)
           Found(k) == \E n \in 0 .. N : n < k /\ IsFront(fl, n)
           S == {k \in Nat : k <= N => FrontCompleted(fl, k) \/ Found(k)}
<1>1. N \in Nat
  BY BatchFacts
<1>2. 0 \in S
  BY DEF FrontCompleted
<1>3. ASSUME NEW k \in Nat, k \in S PROVE k + 1 \in S
  <2> SUFFICES ASSUME k + 1 <= N, ~Found(k + 1) PROVE FrontCompleted(fl, k + 1)
    OBVIOUS
  <2>1. ~Found(k)
    BY <1>1
  <2>2. FrontCompleted(fl, k)
    BY <1>1, <1>3, <2>1
  <2>3. Completed(fl[k + 1])
    BY <1>1, <2>2 DEF IsFront
  <2> QED  BY <2>2, <2>3 DEF FrontCompleted
<1> HIDE DEF S
<1>4. Nat \subseteq S
  BY <1>2, <1>3, Induction
<1>5. \E n \in 0 .. N : IsFront(fl, n)
  <2>1. FrontCompleted(fl, N) \/ Found(N)
    BY <1>1, <1>4 DEF S
  <2> QED  BY <1>1, <2>1 DEF IsFront
<1>6. CompletedFront(fl) = CHOOSE n \in 0 .. N : (\A i \in 1 .. n : Completed(fl[i])) /\ (n < N => ~Completed(fl[n + 1]))
  BY DEF CompletedFront
<1>7. \E n \in 0 .. N : (\A i \in 1 .. n : Completed(fl[i])) /\ (n < N => ~Completed(fl[n + 1]))
  BY <1>5 DEF IsFront, FrontCompleted
<1> QED  BY <1>6, <1>7 DEF IsFront, FrontCompleted

-----------------------------------------------------------------------------
(* What batches free                                                       *)

LEMMA SealedLess ==
  ASSUME NEW fl \in Seq(Batches), NEW cs, NEW K, NEW K2, Sealed(fl, cs, K), K2 \subseteq K \cup {None}
  PROVE  Sealed(fl, cs, K2)
<1>1. \A i \in DOMAIN fl : None \notin fl[i].free
  BY BatchFacts, NameFacts
<1>2. \A i \in DOMAIN fl : fl[i].free \cap K2 = {}
  BY <1>1 DEF Sealed
<1> QED  BY <1>2 DEF Sealed

LEMMA SealedCommand ==
  ASSUME NEW fl \in Seq(Batches), NEW cs \in Seq(CommandsOver(Buffers)), NEW K, Sealed(fl, cs, K),
         NEW c \in CommandsOver(Buffers), Uses(c) \subseteq K
  PROVE  Sealed(fl, Append(cs, c), K)
<1>1. Commands(Append(cs, c)) = Commands(cs) \cup {c}
  BY CommandLists
<1>2. \A i \in DOMAIN fl : Later(fl, Append(cs, c), i) = Later(fl, cs, i) \cup {c}
  BY <1>1 DEF Later
<1>3. \A i \in DOMAIN fl : fl[i].free \cap Uses(c) = {}
  BY DEF Sealed
<1> QED  BY <1>2, <1>3 DEF Sealed

LEMMA SealedSubmit ==
  ASSUME NEW fl \in Seq(Batches), NEW b \in Batches, NEW K, NEW K2, Sealed(fl, b.cmds, K),
         b.free \subseteq K, K2 \subseteq K, b.free \cap K2 = {}
  PROVE  Sealed(Append(fl, b), <<>>, K2)
<1> DEFINE gl == Append(fl, b)
           n == Len(fl) + 1
<1>1. /\ \A i \in DOMAIN fl : i \in DOMAIN gl /\ gl[i] = fl[i] /\ i < n
      /\ n \in DOMAIN gl /\ gl[n] = b
      /\ \A i \in DOMAIN gl : i \in DOMAIN fl \/ i = n
      /\ \A i \in DOMAIN gl : ~(n < i) /\ ~(i < i)
  <2>1. /\ \A i \in DOMAIN fl : i \in DOMAIN gl /\ gl[i] = fl[i]
        /\ n \in DOMAIN gl /\ gl[n] = b
        /\ \A i \in DOMAIN gl : i \in DOMAIN fl \/ i = n
    BY ListParts
  <2>2. \A i \in DOMAIN gl : i \in Nat /\ i <= n
    OBVIOUS
  <2>3. \A i \in DOMAIN fl : i < n
    OBVIOUS
  <2>4. n \in Nat
    BY BatchFacts
  <2> QED  BY <2>1, <2>2, <2>3, <2>4
<1> HIDE DEF gl, n
<1>2. Commands(<<>>) = {}
  BY CommandLists
<1>3. \A i \in DOMAIN fl : Later(gl, <<>>, i) \subseteq Later(fl, b.cmds, i)
  BY <1>1, <1>2 DEF Later
<1>4. Later(gl, <<>>, n) = {}
  BY <1>1, <1>2 DEF Later
<1>5. \A i \in DOMAIN gl : gl[i].free \cap K2 = {}
  BY <1>1 DEF Sealed
<1>6. \A i \in DOMAIN gl : \A c \in Later(gl, <<>>, i) : gl[i].free \cap Uses(c) = {}
  BY <1>1, <1>3, <1>4 DEF Sealed
<1>7. ASSUME NEW i \in DOMAIN gl, NEW j \in DOMAIN gl, i < j PROVE gl[i].free \cap gl[j].free = {}
  <2>1. i \in DOMAIN fl
    BY <1>1, <1>7
  <2>2. CASE j \in DOMAIN fl
    BY <1>1, <1>7, <2>1, <2>2 DEF Sealed
  <2>3. CASE j = n
    BY <1>1, <2>1, <2>3 DEF Sealed
  <2> QED  BY <1>1, <2>2, <2>3
<1> QED  BY <1>5, <1>6, <1>7 DEF Sealed, gl

(* The first k batches retire.                                             *)
LEMMA SealedRetire ==
  ASSUME NEW fl \in Seq(Batches), NEW cs \in Seq(CommandsOver(Buffers)), NEW K, Sealed(fl, cs, K),
         NEW k \in 0 .. Len(fl)
  PROVE  /\ Retired(fl, k) \in Seq(Batches)
         /\ Sealed(Retired(fl, k), cs, K \cup Freed(fl, k))
         /\ Freed(fl, k) \subseteq Buffers /\ Freed(fl, k) \cap K = {}
         /\ \A c \in PendingIn(Retired(fl, k), cs) : Uses(c) \cap Freed(fl, k) = {}
<1> DEFINE gl == Retired(fl, k)
           n == Len(fl) - k
<1>1. /\ gl \in Seq(Batches) /\ DOMAIN gl = 1 .. n /\ k \in Nat /\ n \in Nat
      /\ \A i \in DOMAIN gl : i \in Nat /\ i + k \in DOMAIN fl /\ gl[i] = fl[i + k] /\ k < i + k
      /\ 1 .. k \subseteq DOMAIN fl
  <2>1. Len(fl) \in Nat /\ DOMAIN fl = 1 .. Len(fl)
    BY BatchFacts
  <2>2. /\ gl \in Seq(Batches) /\ DOMAIN gl = 1 .. n
        /\ \A i \in 1 .. n : i + k \in DOMAIN fl /\ gl[i] = fl[i + k]
    BY RetiredFacts
  <2>3. \A i \in 1 .. n : i \in Nat /\ k < i + k
    BY <2>1
  <2>4. k \in Nat /\ n \in Nat /\ 1 .. k \subseteq DOMAIN fl
    BY <2>1
  <2> QED  BY <2>2, <2>3, <2>4
<1> HIDE DEF gl, n
<1>2. Freed(fl, k) \subseteq Buffers /\ Freed(fl, k) \cap K = {}
  BY <1>1, BatchFacts DEF Freed, Sealed
<1>3. ASSUME NEW i \in DOMAIN gl PROVE Later(gl, cs, i) \subseteq Later(fl, cs, i + k)
  <2>1. ASSUME NEW j \in DOMAIN gl, i < j PROVE Commands(gl[j].cmds) \subseteq Later(fl, cs, i + k)
    <3>1. j + k \in DOMAIN fl /\ gl[j] = fl[j + k] /\ i + k < j + k
      BY <1>1, <2>1
    <3> QED  BY <3>1 DEF Later
  <2>2. Commands(cs) \subseteq Later(fl, cs, i + k)
    BY DEF Later
  <2>3. \A c \in Later(gl, cs, i) : c \in Commands(cs) \/ \E j \in DOMAIN gl : i < j /\ c \in Commands(gl[j].cmds)
    BY DEF Later
  <2> QED  BY <2>1, <2>2, <2>3
<1>4. ASSUME NEW h \in 1 .. k PROVE PendingIn(gl, cs) \subseteq Later(fl, cs, h)
  <2>1. ASSUME NEW j \in DOMAIN gl PROVE Commands(gl[j].cmds) \subseteq Later(fl, cs, h)
    <3>1. j + k \in DOMAIN fl /\ gl[j] = fl[j + k] /\ h < j + k
      BY <1>1
    <3> QED  BY <3>1 DEF Later
  <2>2. Commands(cs) \subseteq Later(fl, cs, h)
    BY DEF Later
  <2>3. \A c \in PendingIn(gl, cs) : c \in Commands(cs) \/ \E j \in DOMAIN gl : c \in Commands(gl[j].cmds)
    BY DEF PendingIn
  <2> QED  BY <2>1, <2>2, <2>3
<1>5. ASSUME NEW c \in PendingIn(gl, cs), NEW h \in 1 .. k PROVE Uses(c) \cap fl[h].free = {}
  <2>1. c \in Later(fl, cs, h) /\ h \in DOMAIN fl
    BY <1>1, <1>4
  <2> QED  BY <2>1 DEF Sealed
<1>6. \A c \in PendingIn(gl, cs) : Uses(c) \cap Freed(fl, k) = {}
  BY <1>5 DEF Freed
<1>7. ASSUME NEW i \in DOMAIN gl
      PROVE  /\ gl[i].free \cap (K \cup Freed(fl, k)) = {}
             /\ \A c \in Later(gl, cs, i) : gl[i].free \cap Uses(c) = {}
             /\ \A j \in DOMAIN gl : i < j => gl[i].free \cap gl[j].free = {}
  <2>1. i + k \in DOMAIN fl /\ gl[i] = fl[i + k]
    BY <1>1
  <2>2. gl[i].free \cap K = {} /\ \A c \in Later(gl, cs, i) : gl[i].free \cap Uses(c) = {}
    BY <1>3, <2>1 DEF Sealed
  <2>3. ASSUME NEW h \in 1 .. k PROVE gl[i].free \cap fl[h].free = {}
    <3>1. h \in DOMAIN fl /\ h < i + k
      BY <1>1
    <3> QED  BY <2>1, <3>1 DEF Sealed
  <2>4. ASSUME NEW j \in DOMAIN gl, i < j PROVE gl[i].free \cap gl[j].free = {}
    <3>1. j + k \in DOMAIN fl /\ gl[j] = fl[j + k] /\ i + k < j + k
      BY <1>1, <2>4
    <3> QED  BY <2>1, <3>1 DEF Sealed
  <2>5. gl[i].free \cap Freed(fl, k) = {}
    BY <2>3 DEF Freed
  <2> QED  BY <2>2, <2>4, <2>5
<1>8. Sealed(gl, cs, K \cup Freed(fl, k))
  BY <1>7 DEF Sealed
<1> QED  BY <1>1, <1>2, <1>6, <1>8 DEF gl

(* A batch runs.                                                           *)
LEMMA BatchRunFacts ==
  ASSUME NEW fl \in Seq(Batches), NEW i \in DOMAIN fl
  PROVE  LET gl == [fl EXCEPT ![i].cmds = <<>>]
         IN /\ gl \in Seq(Batches) /\ Len(gl) = Len(fl) /\ DOMAIN gl = DOMAIN fl
            /\ gl[i].cmds = <<>> /\ gl[i].free = fl[i].free
            /\ \A j \in DOMAIN fl : j # i => gl[j] = fl[j]
            /\ \A j \in DOMAIN fl : gl[j].free = fl[j].free /\ Commands(gl[j].cmds) \subseteq Commands(fl[j].cmds)
<1> DEFINE gl == [fl EXCEPT ![i].cmds = <<>>]
<1>1. fl[i] \in Batches /\ <<>> \in Seq(CommandsOver(Buffers))
  OBVIOUS
<1>2. [fl[i] EXCEPT !.cmds = <<>>] \in Batches
  BY <1>1 DEF Batches
<1>3. gl = [fl EXCEPT ![i] = [fl[i] EXCEPT !.cmds = <<>>]]
  OBVIOUS
<1>4. gl \in Seq(Batches) /\ Len(gl) = Len(fl) /\ DOMAIN gl = DOMAIN fl
  BY <1>2, <1>3
<1>5. gl[i].cmds = <<>> /\ gl[i].free = fl[i].free /\ \A j \in DOMAIN fl : j # i => gl[j] = fl[j]
  BY <1>1, <1>3 DEF Batches
<1> HIDE DEF gl
<1>6. Commands(gl[i].cmds) = {}
  BY <1>5, CommandLists
<1>7. \A j \in DOMAIN fl : gl[j].free = fl[j].free /\ Commands(gl[j].cmds) \subseteq Commands(fl[j].cmds)
  BY <1>5, <1>6
<1> QED  BY <1>4, <1>5, <1>7 DEF gl

LEMMA SealedRun ==
  ASSUME NEW fl \in Seq(Batches), NEW cs, NEW K, Sealed(fl, cs, K), NEW i \in DOMAIN fl
  PROVE  /\ Sealed([fl EXCEPT ![i].cmds = <<>>], cs, K)
         /\ PendingIn([fl EXCEPT ![i].cmds = <<>>], cs) \subseteq PendingIn(fl, cs)
<1> DEFINE gl == [fl EXCEPT ![i].cmds = <<>>]
<1>1. /\ DOMAIN gl = DOMAIN fl
      /\ \A j \in DOMAIN fl : gl[j].free = fl[j].free /\ Commands(gl[j].cmds) \subseteq Commands(fl[j].cmds)
  BY BatchRunFacts
<1> HIDE DEF gl
<1>2. PendingIn(gl, cs) \subseteq PendingIn(fl, cs)
  BY <1>1 DEF PendingIn
<1>3. \A j \in DOMAIN fl : Later(gl, cs, j) \subseteq Later(fl, cs, j)
  BY <1>1 DEF Later
<1>4. \A j \in DOMAIN gl : \A c \in Later(gl, cs, j) : gl[j].free \cap Uses(c) = {}
  BY <1>1, <1>3 DEF Sealed
<1>5. Sealed(gl, cs, K)
  BY <1>1, <1>4 DEF Sealed
<1> QED  BY <1>2, <1>5 DEF gl

(* Batches in order stay so.                                               *)
LEMMA InOrderKept ==
  ASSUME NEW fl \in Seq(Batches), InOrder(fl)
  PROVE  /\ \A b \in Batches : ~Completed(b) => InOrder(Append(fl, b))
         /\ \A k \in 0 .. Len(fl) : InOrder(Retired(fl, k))
         /\ \A i \in DOMAIN fl : FrontCompleted(fl, i - 1) => InOrder([fl EXCEPT ![i].cmds = <<>>])
<1>0. Len(fl) \in Nat /\ DOMAIN fl = 1 .. Len(fl)
  BY BatchFacts
<1>1. ASSUME NEW b \in Batches, ~Completed(b) PROVE InOrder(Append(fl, b))
  <2> DEFINE gl == Append(fl, b)
  <2>1. /\ \A i \in DOMAIN fl : gl[i] = fl[i]
        /\ gl[Len(fl) + 1] = b
        /\ DOMAIN gl = 1 .. Len(fl) + 1
    BY ListParts
  <2> HIDE DEF gl
  <2>2. \A i, j \in DOMAIN gl : i < j /\ Completed(gl[j]) => Completed(gl[i])
    BY <1>0, <1>1, <2>1 DEF InOrder
  <2> QED  BY <2>2 DEF InOrder, gl
<1>2. ASSUME NEW k \in 0 .. Len(fl) PROVE InOrder(Retired(fl, k))
  <2> DEFINE gl == Retired(fl, k)
  <2>1. DOMAIN gl = 1 .. Len(fl) - k /\ \A i \in 1 .. Len(fl) - k : i + k \in DOMAIN fl /\ gl[i] = fl[i + k]
    BY RetiredFacts
  <2> HIDE DEF gl
  <2>2. \A i, j \in DOMAIN gl : i < j /\ Completed(gl[j]) => Completed(gl[i])
    BY <1>0, <2>1 DEF InOrder
  <2> QED  BY <2>2 DEF InOrder, gl
<1>3. ASSUME NEW i \in DOMAIN fl, FrontCompleted(fl, i - 1) PROVE InOrder([fl EXCEPT ![i].cmds = <<>>])
  <2> DEFINE gl == [fl EXCEPT ![i].cmds = <<>>]
  <2>1. /\ DOMAIN gl = DOMAIN fl /\ gl[i].cmds = <<>> /\ \A j \in DOMAIN fl : j # i => gl[j] = fl[j]
    BY BatchRunFacts
  <2> HIDE DEF gl
  <2>2. Completed(gl[i])
    BY <2>1 DEF Completed
  <2>3. \A h \in DOMAIN fl : h < i => Completed(gl[h])
    BY <1>0, <1>3, <2>1 DEF FrontCompleted
  <2>4. \A h, j \in DOMAIN gl : h < j /\ Completed(gl[j]) => Completed(gl[h])
    BY <1>0, <2>1, <2>2, <2>3 DEF InOrder
  <2> QED  BY <2>4 DEF InOrder, gl
<1> QED  BY <1>1, <1>2, <1>3

(* Retiring completed batches leaves what is pending.                      *)
LEMMA PendingRetired ==
  ASSUME NEW fl \in Seq(Batches), NEW cs, NEW k \in 0 .. Len(fl), FrontCompleted(fl, k)
  PROVE  PendingIn(Retired(fl, k), cs) = PendingIn(fl, cs)
<1> DEFINE gl == Retired(fl, k)
<1>0. Len(fl) \in Nat /\ DOMAIN fl = 1 .. Len(fl)
  BY BatchFacts
<1>1. DOMAIN gl = 1 .. Len(fl) - k /\ \A i \in 1 .. Len(fl) - k : i + k \in DOMAIN fl /\ gl[i] = fl[i + k]
  BY RetiredFacts
<1> HIDE DEF gl
<1>2. \A i \in DOMAIN gl : Commands(gl[i].cmds) \subseteq PendingIn(fl, cs)
  BY <1>1 DEF PendingIn
<1>3. ASSUME NEW i \in DOMAIN fl PROVE Commands(fl[i].cmds) \subseteq PendingIn(gl, cs)
  <2>1. CASE i <= k
    <3>1. fl[i].cmds = <<>>
      BY <1>0, <2>1 DEF FrontCompleted, Completed
    <3> QED  BY <3>1, CommandLists
  <2>2. CASE ~(i <= k)
    <3>1. i - k \in DOMAIN gl /\ (i - k) + k = i
      BY <1>0, <1>1, <2>2
    <3>2. gl[i - k] = fl[i]
      BY <1>1, <3>1
    <3> QED  BY <3>1, <3>2 DEF PendingIn
  <2> QED  BY <2>1, <2>2
<1>4. PendingIn(gl, cs) \subseteq PendingIn(fl, cs)
  BY <1>2 DEF PendingIn
<1>5. PendingIn(fl, cs) \subseteq PendingIn(gl, cs)
  BY <1>3 DEF PendingIn
<1> QED  BY <1>4, <1>5 DEF gl

(* What a buffer that no command pending uses holds is not to change.      *)
LEMMA SettledElsewhere ==
  ASSUME NEW fl \in Seq(Batches), NEW cs \in Seq(CommandsOver(Buffers)), NEW m \in [Buffers -> Contents],
         NEW b \in Buffers, \A c \in PendingIn(fl, cs) : b \notin Uses(c)
  PROVE  SettledIn(m, fl, cs)[b] = m[b]
<1>1. PICK ds : Flat(fl, cs, ds)
  BY Flattened
<1>2. ds \in Seq(CommandsOver(Buffers)) /\ Commands(ds) = PendingIn(fl, cs)
  BY <1>1 DEF Flat
<1>3. Spares(ds, b)
  BY <1>2 DEF Spares, Commands, Uses
<1>4. ExecAll(m, ds)[b] = m[b]
  BY <1>2, <1>3, ExecAllUnwritten
<1> QED  BY <1>1, <1>4 DEF Flat

(* Recycling buffers that no command pending uses and no one has.          *)
LEMMA RecycledAgrees ==
  ASSUME Discipline, NEW fl \in Seq(Batches), NEW cs \in Seq(CommandsOver(Buffers)),
         NEW bs \in SUBSET Buffers, \A c \in PendingIn(fl, cs) : Uses(c) \cap bs = {},
         \A k \in Keys : Place[k] \notin bs,
         NEW m \in [Buffers -> Contents], NEW m2 \in [Buffers -> Contents], SameOn(m2, m, Buffers \ bs)
  PROVE  SameBut({}, SettledIn(m, fl, cs), SettledIn(m2, fl, cs))
<1>1. PICK ds : Flat(fl, cs, ds)
  BY Flattened
<1>2. ds \in Seq(CommandsOver(Buffers)) /\ Commands(ds) = PendingIn(fl, cs)
  BY <1>1 DEF Flat
<1> DEFINE K == Buffers \ bs
<1>3. ClosedIn(ds, K)
  <2>1. ASSUME NEW i \in DOMAIN ds PROVE ClosedCommand(ds[i], K)
    <3>1. ds[i] \in CommandsOver(Buffers) /\ ds[i] \in PendingIn(fl, cs)
      BY <1>2 DEF Commands
    <3>2. Uses(ds[i]) \subseteq Buffers
      BY <3>1 DEF Uses, CommandsOver
    <3>3. Reads(ds[i]) \subseteq Uses(ds[i])
      BY <3>1 DEF Reads, Uses, CommandsOver
    <3> QED  BY <3>1, <3>2, <3>3 DEF ClosedCommand
  <2> QED  BY <2>1 DEF ClosedIn
<1>4. K \in SUBSET Buffers
  OBVIOUS
<1> HIDE DEF K
<1>5. SameOn(ExecAll(m2, ds), ExecAll(m, ds), K)
  BY <1>2, <1>3, <1>4, ExecAllAgree DEF K
<1>6. \A k \in Keys : Place[k] # None => Place[k] \in K
  BY PlaceFacts DEF K
<1>7. SameBut({}, ExecAll(m, ds), ExecAll(m2, ds))
  BY <1>5, <1>6 DEF SameBut, SameOn
<1> QED  BY <1>1, <1>7 DEF Flat

-----------------------------------------------------------------------------
(* Metal: the invariant and its consequences                               *)

LEMMA PendingTouched ==
  ASSUME NEW fl \in Seq(Batches), NEW cs \in Seq(CommandsOver(Buffers)), NEW P
  PROVE  P \cap (Touched(cs) \cup UNION {Touched(fl[i].cmds) : i \in DOMAIN fl}) = {}
           <=> \A c \in PendingIn(fl, cs) : Uses(c) \cap P = {}
<1>1. Touched(cs) = UNION {Uses(c) : c \in Commands(cs)}
  BY CommandLists
<1>2. \A i \in DOMAIN fl : Touched(fl[i].cmds) = UNION {Uses(c) : c \in Commands(fl[i].cmds)}
  BY BatchFacts, CommandLists
<1>3. Touched(cs) \cup UNION {Touched(fl[i].cmds) : i \in DOMAIN fl} = UNION {Uses(c) : c \in PendingIn(fl, cs)}
  BY <1>1, <1>2 DEF PendingIn
<1> QED  BY <1>3

LEMMA LimitFacts ==
  ASSUME limits \in Limits
  PROVE  SubmitChunk \in Nat /\ SubmitChunk # 0 /\ MaxInFlight \in Nat
BY MetalAssumption DEF SubmitChunk, MaxInFlight

LEMMA MetalFacts ==
  ASSUME MetalInv
  PROVE  /\ Discipline /\ MetalControl /\ DeviceTyped /\ DOMAIN todo = Threads
         /\ in_flight \in Seq(Batches) /\ cmds \in Seq(CommandsOver(Buffers)) /\ mem \in [Buffers -> Contents]
         /\ Sealed(in_flight, cmds, Known)
         /\ \A c \in Pending : Uses(c) \cap pool = {}
         /\ \A t \in Tensors \ gpu_used, c \in Pending : buffer[t] \notin Uses(c)
         /\ Agreement(Rest, SettledIn(mem, in_flight, cmds))
         /\ \A u \in Threads : HostReady(u, Pending)
         /\ SettledIn(mem, in_flight, cmds) \in [Buffers -> Contents]
         /\ \A k \in Keys : Place[k] \notin free_bufs \cup pool
         /\ free_bufs \cap pool = {} /\ free_bufs \subseteq Buffers /\ pool \subseteq Buffers
         /\ limits \in Limits /\ SubmitChunk \in Nat /\ SubmitChunk # 0 /\ MaxInFlight \in Nat
<1>1. Discipline /\ MetalControl /\ MetalPoolIsIdle /\ FreedLast /\ Unmarked /\ MetalAgrees /\ MetalReady
  BY DEF MetalInv
<1>2. /\ mem \in [Buffers -> Contents] /\ cmds \in Seq(CommandsOver(Buffers)) /\ DeviceTyped
      /\ (\A k \in Keys : Place[k] \notin free_bufs \cup pool)
      /\ free_bufs \cap pool = {} /\ DOMAIN todo = Threads /\ free_bufs \subseteq Buffers /\ pool \subseteq Buffers
  BY <1>1 DEF Discipline, DeviceTyped, CallsTyped, Owners
<1>3. in_flight \in Seq(Batches) /\ limits \in Limits
  BY <1>1 DEF MetalControl
<1>4. SettledIn(mem, in_flight, cmds) \in [Buffers -> Contents]
  BY <1>2, <1>3, SettledType
<1>5. \A c \in Pending : Uses(c) \cap pool = {}
  BY <1>1, <1>2, <1>3, PendingTouched DEF MetalPoolIsIdle, Pending
<1>6. SubmitChunk \in Nat /\ SubmitChunk # 0 /\ MaxInFlight \in Nat
  BY <1>3, LimitFacts
<1> QED  BY <1>1, <1>2, <1>3, <1>4, <1>5, <1>6 DEF FreedLast, Unmarked, MetalAgrees, MetalReady

LEMMA MetalHolds ==
  ASSUME MetalInv
  PROVE  MetalTypeOK /\ MetalPoolIsIdle /\ MetalAsIfEager
<1>1. MetalTypeOK
  <2>1. SharedTypeOK /\ MetalControl
    BY MetalFacts, AllTyped
  <2>2. ASSUME NEW i \in DOMAIN in_flight
        PROVE  Touched(in_flight[i].cmds) \subseteq Buffers /\ in_flight[i].free \subseteq Buffers
    <3>1. in_flight[i].cmds \in Seq(CommandsOver(Buffers)) /\ in_flight[i].free \subseteq Buffers
      BY MetalFacts, BatchFacts
    <3> QED  BY <3>1, CommandLists
  <2> QED  BY <2>1, <2>2 DEF MetalTypeOK, MetalControl
<1>2. MetalPoolIsIdle
  BY DEF MetalInv
<1>3. MetalAsIfEager
  <2>1. Settles(SettledIn(mem, in_flight, cmds)) /\ ReadsRight
    BY MetalFacts, Readies DEF Agreement
  <2> QED  BY <2>1 DEF MetalAsIfEager, SettledIn
<1> QED  BY <1>1, <1>2, <1>3

LEMMA MetalAgreesNow ==
  ASSUME NEW R, NEW S, R = Rest', S = SettledIn(mem', in_flight', cmds'), Agreement(R, S)'
  PROVE  MetalAgrees'
BY DEF MetalAgrees, Agreement, Settles, Due, Intact

LEMMA MetalReadyNow ==
  ASSUME NEW cs, cs = PendingIn(in_flight', cmds'), \A u \in Threads : HostReady(u, cs)'
  PROVE  MetalReady'
BY DEF MetalReady, Pending, HostReady

(* The parts of the invariant, after a step.                               *)
LEMMA MetalTogether ==
  ASSUME Discipline', MetalControl', NEW fl, NEW cs, fl = in_flight', cs = cmds',
         NEW K, Sealed(fl, cs, K), Known' \subseteq K \cup {None},
         NEW P, P = PendingIn(fl, cs), \A c \in P : Uses(c) \cap pool' = {},
         \A t \in Tensors \ gpu_used', c \in P : buffer'[t] \notin Uses(c),
         MetalAgrees', \A u \in Threads : HostReady(u, P)'
  PROVE  MetalInv'
<1>1. fl \in Seq(Batches) /\ cs \in Seq(CommandsOver(Buffers))
  BY DEF MetalControl, Discipline, DeviceTyped
<1>2. FreedLast'
  <2>1. Sealed(fl, cs, Known')
    BY <1>1, SealedLess
  <2> QED  BY <2>1 DEF FreedLast
<1>3. MetalPoolIsIdle'
  <2>1. pool' \cap (Touched(cs) \cup UNION {Touched(fl[i].cmds) : i \in DOMAIN fl}) = {}
    BY <1>1, PendingTouched
  <2> QED  BY <2>1 DEF MetalPoolIsIdle
<1>4. Unmarked'
  BY DEF Unmarked, Pending
<1>5. MetalReady'
  BY MetalReadyNow
<1> QED  BY <1>2, <1>3, <1>4, <1>5 DEF MetalInv

LEMMA KnownNow ==
  ASSUME PlacesBut({})
  PROVE  Known' = free_bufs' \cup pool' \cup {Place[k] : k \in Keys}
<1>1. \A k \in Keys : Place'[k] = Place[k]
  BY DEF PlacesBut
<1>2. Known' = free_bufs' \cup pool' \cup {Place'[k] : k \in Keys}
  BY DEF Known, Keys
<1> QED  BY <1>1, <1>2

(* The steps whose commands are still to be recorded.                      *)
LEMMA RestFacts ==
  /\ Rest = [th \in Threads |-> IF ctx = th /\ Records(Head(todo[th])) THEN Tail(todo[th]) ELSE todo[th]]
  /\ \A th \in Threads : ctx # th => Rest[th] = todo[th]
BY DEF Rest

-----------------------------------------------------------------------------
(* Metal: committing and retiring batches                                  *)

Places == {Place[k] : k \in Keys}

(* A batch is committed with the buffers freed so far.                     *)
LEMMA SubmitFacts ==
  ASSUME MetalInv, NEW batch \in Seq(CommandsOver(Buffers)), batch # <<>>, Sealed(in_flight, batch, Known)
  PROVE  /\ KeptFree(batch) = {}
         /\ Submitted(batch) \in Seq(Batches) /\ InOrder(Submitted(batch))
         /\ Submitted(batch) # <<>> /\ Len(Submitted(batch)) = Len(in_flight) + 1
         /\ PendingIn(Submitted(batch), <<>>) = PendingIn(in_flight, batch)
         /\ \A m : SettledIn(m, Submitted(batch), <<>>) = SettledIn(m, in_flight, batch)
         /\ Sealed(Submitted(batch), <<>>, pool \cup Places)
<1>f. /\ in_flight \in Seq(Batches) /\ MetalControl
      /\ (\A k \in Keys : Place[k] \notin free_bufs \cup pool) /\ free_bufs \cap pool = {} /\ free_bufs \subseteq Buffers
  BY MetalFacts
<1> DEFINE b == [cmds |-> batch, free |-> free_bufs]
<1>1. b \in Batches /\ b.cmds = batch /\ b.free = free_bufs /\ ~Completed(b)
  BY <1>f DEF Batches, Completed
<1> HIDE DEF b
<1>2. Submitted(batch) = Append(in_flight, b) /\ KeptFree(batch) = {}
  BY DEF Submitted, KeptFree, b
<1>3. Append(in_flight, b) \in Seq(Batches) /\ Append(in_flight, b) # <<>> /\ Len(Append(in_flight, b)) = Len(in_flight) + 1
  BY <1>f, <1>1
<1>4. InOrder(Append(in_flight, b))
  BY <1>f, <1>1, InOrderKept DEF MetalControl
<1>5. PendingIn(Append(in_flight, b), <<>>) = PendingIn(in_flight, batch)
  BY <1>f, <1>1, PendingAppend
<1>6. ASSUME NEW m PROVE SettledIn(m, Append(in_flight, b), <<>>) = SettledIn(m, in_flight, batch)
  <2>1. ExecBatches(m, Append(in_flight, b)) = ExecAll(ExecBatches(m, in_flight), batch)
    BY <1>f, <1>1, BatchesAppend
  <2> QED  BY <2>1, ExecAllEmpty DEF SettledIn
<1>7. Sealed(Append(in_flight, b), <<>>, pool \cup Places)
  <2>1. pool \cup Places \subseteq Known /\ free_bufs \subseteq Known
    BY DEF Known, Places
  <2>2. free_bufs \cap (pool \cup Places) = {}
    BY <1>f DEF Places
  <2> QED  BY <1>f, <1>1, <2>1, <2>2, SealedSubmit
<1> QED  BY <1>2, <1>3, <1>4, <1>5, <1>6, <1>7

(* The first k batches have completed, and what they free is pooled.       *)
LEMMA RetireFacts ==
  ASSUME Discipline, NEW fl \in Seq(Batches), NEW cs \in Seq(CommandsOver(Buffers)), NEW K, Sealed(fl, cs, K),
         Places \subseteq K, InOrder(fl), NEW k \in 0 .. Len(fl), FrontCompleted(fl, k),
         mem' = Recycled(mem, Freed(fl, k))
  PROVE  /\ Retired(fl, k) \in Seq(Batches) /\ InOrder(Retired(fl, k)) /\ Len(Retired(fl, k)) = Len(fl) - k
         /\ Sealed(Retired(fl, k), cs, K \cup Freed(fl, k))
         /\ Freed(fl, k) \subseteq Buffers /\ Freed(fl, k) \cap K = {}
         /\ PendingIn(Retired(fl, k), cs) = PendingIn(fl, cs)
         /\ \A c \in PendingIn(fl, cs) : Uses(c) \cap Freed(fl, k) = {}
         /\ \A e \in Keys : Place[e] \notin Freed(fl, k)
         /\ mem' \in [Buffers -> Contents] /\ SameBut({}, mem, mem')
         /\ SameBut({}, SettledIn(mem, fl, cs), SettledIn(mem', Retired(fl, k), cs))
<1> DEFINE gl == Retired(fl, k)
           F == Freed(fl, k)
<1>1. /\ gl \in Seq(Batches) /\ Sealed(gl, cs, K \cup F) /\ F \subseteq Buffers /\ F \cap K = {}
      /\ \A c \in PendingIn(gl, cs) : Uses(c) \cap F = {}
  BY SealedRetire
<1>2. InOrder(gl) /\ Len(gl) = Len(fl) - k
  BY InOrderKept, RetiredFacts
<1>3. PendingIn(gl, cs) = PendingIn(fl, cs)
  BY PendingRetired
<1>4. ExecBatches(mem, gl) = ExecBatches(mem, fl)
  BY BatchesRetired
<1> HIDE DEF gl, F
<1>5. \A e \in Keys : Place[e] \notin F
  BY <1>1 DEF Places
<1>6. /\ mem' \in [Buffers -> Contents] /\ SameBut({}, mem, mem') /\ \A b \in Buffers \ F : mem'[b] = mem[b]
  BY <1>1, <1>5, RecycledFacts DEF F
<1>7. SameBut({}, SettledIn(mem, fl, cs), SettledIn(mem', gl, cs))
  <2>1. SettledIn(mem, fl, cs) = SettledIn(mem, gl, cs)
    BY <1>4 DEF SettledIn
  <2>2. PICK m, m2 : m = mem /\ m2 = mem'
    OBVIOUS
  <2>3. m \in [Buffers -> Contents] /\ m2 \in [Buffers -> Contents] /\ SameOn(m2, m, Buffers \ F) /\ F \in SUBSET Buffers
    BY <1>1, <1>6, <2>2 DEF SameOn, Discipline, DeviceTyped
  <2>4. SameBut({}, SettledIn(m, gl, cs), SettledIn(m2, gl, cs))
    BY <1>1, <1>5, <2>3, RecycledAgrees
  <2> QED  BY <2>1, <2>2, <2>4
<1> QED  BY <1>1, <1>2, <1>3, <1>5, <1>6, <1>7 DEF gl, F

-----------------------------------------------------------------------------
(* Metal: recording                                                        *)

(* A command joins those that have not run, and the operation goes on or   *)
(* waits with the mutex held.                                              *)
LEMMA MetalRecordEnds ==
  ASSUME MetalInv, NEW th \in Threads, todo[th] # <<>>, Records(Head(todo[th])), ctx = None,
         gpu_used' = gpu_used \cup Named(Head(todo[th]).cmd), buffer' = buffer, MetalControl', DeviceTyped',
         NEW fl, NEW cs, fl = in_flight', cs = cmds',
         PendingIn(fl, cs) = Pending \cup {NextCommand(th)}, SameBut({}, mem, mem'),
         Sealed(fl, cs, free_bufs' \cup pool' \cup Places),
         \A k \in Keys : Place[k] \notin free_bufs' \cup pool', free_bufs' \cap pool' = {},
         \A c \in PendingIn(fl, cs) : Uses(c) \cap pool' = {},
         SameBut({}, Exec(SettledIn(mem, in_flight, cmds), NextCommand(th)), SettledIn(mem', fl, cs)),
         \/ Advance(th) /\ ctx' = None
         \/ ctx' = th /\ UNCHANGED <<eager, threads>>
  PROVE  MetalInv'
<1>f. /\ Discipline /\ MetalControl /\ DOMAIN todo = Threads
      /\ \A u \in Threads : HostReady(u, Pending)
      /\ \A t \in Tensors \ gpu_used, c \in Pending : buffer[t] \notin Uses(c)
      /\ Agreement(Rest, SettledIn(mem, in_flight, cmds))
      /\ SettledIn(mem, in_flight, cmds) \in [Buffers -> Contents]
  BY MetalFacts
<1>1. /\ Makes(Head(todo[th])) /\ ~Allocates(Head(todo[th]))
      /\ Head(todo[th]).do \notin {"defer", "flush", "flushused", "host", "data"}
  BY <1>f, RecordFacts
<1>2. Discipline' /\ PlacesBut({})
  <2>1. CASE Advance(th)
    BY <1>f, <1>1, <2>1, AdvanceDisciplined
  <2>2. CASE UNCHANGED <<eager, threads>>
    BY <1>f, <2>2, StayDisciplined
  <2> QED  BY <2>1, <2>2
<1>3. MetalAgrees'
  <2>1. PICK R, R2, S, S2 : R = Rest /\ R2 = Rest' /\ S = SettledIn(mem, in_flight, cmds) /\ S2 = SettledIn(mem', fl, cs)
    OBVIOUS
  <2>2. S \in [Buffers -> Contents] /\ S2 \in [Buffers -> Contents] /\ Agreement(R, S)
    <3>1. fl \in Seq(Batches) /\ cs \in Seq(CommandsOver(Buffers)) /\ mem' \in [Buffers -> Contents]
      BY DEF MetalControl, DeviceTyped
    <3>2. SettledIn(mem', fl, cs) \in [Buffers -> Contents]
      BY <3>1, SettledType
    <3> QED  BY <1>f, <2>1, <3>2
  <2>3. R[th] = todo[th] /\ R2[th] = Tail(todo[th]) /\ \A u \in Threads \ {th} : R2[u] = R[u]
    <3>0. \A u \in Threads : R[u] = todo[u]
      BY <2>1, NameFacts, RestFacts
    <3>1. R2 = [u \in Threads |-> IF ctx' = u /\ Records(Head(todo'[u])) THEN Tail(todo'[u]) ELSE todo'[u]]
      BY <2>1 DEF Rest, Records
    <3>2. CASE Advance(th) /\ ctx' = None
      <4>1. todo' = [todo EXCEPT ![th] = Tail(todo[th])]
        BY <3>2 DEF Advance, Continue
      <4>2. \A u \in Threads : R2[u] = todo'[u]
        BY <3>1, <3>2, NameFacts
      <4> QED  BY <1>f, <3>0, <4>1, <4>2
    <3>3. CASE ctx' = th /\ UNCHANGED <<eager, threads>>
      <4>1. todo' = todo
        BY <3>3 DEF threads
      <4> QED  BY <3>0, <3>1, <3>3, <4>1
    <3> QED  BY <3>2, <3>3
  <2>4. PICK S1 \in [Buffers -> Contents] : S1 = Exec(S, NextCommand(th))
    BY <1>f, <2>2, <2>3, RecordAgrees
  <2>5. Agreement(R2, S1)
    BY <1>f, <2>2, <2>3, <2>4, RecordAgrees
  <2>6. Agreement(R2, S2)
    BY <1>f, <2>1, <2>4, <2>5, SameSettles
  <2>7. Agreement(R2, S2)'
    <3>1. CASE Advance(th)
      BY <1>f, <1>1, <2>2, <2>3, <2>6, <3>1, AdvanceAgrees
    <3>2. CASE UNCHANGED <<eager, threads>>
      BY <2>6, <3>2, StayAgrees
    <3> QED  BY <3>1, <3>2
  <2> QED  BY <2>1, <2>7, MetalAgreesNow
<1>4. PICK P, P2 : P = Pending /\ P2 = PendingIn(fl, cs)
  OBVIOUS
<1>5. \A u \in Threads : HostReady(u, P2)'
  <2>1. P2 \subseteq P \cup {NextCommand(th)} /\ \A u \in Threads : HostReady(u, P)
    BY <1>f, <1>4
  <2>2. CASE Advance(th)
    BY <1>f, <2>1, <2>2, RecordReadies
  <2>3. CASE UNCHANGED <<eager, threads>>
    <3>1. op' = op /\ todo' = todo /\ val' = val
      BY <2>3 DEF threads, eager
    <3>2. todo' = [todo EXCEPT ![th] = todo[th]]
      <4>1. todo \in [Threads -> Seq(AllSteps)]
        BY <1>f DEF Discipline, CallsTyped
      <4> QED  BY <3>1, <4>1
    <3>3. HostReady(th, P2)'
      BY <1>f, <1>1, <3>2, NoHostNext
    <3>4. ASSUME NEW u \in Threads, u # th PROVE HostReady(u, P2)'
      <4>1. Clear(u, NextCommand(th))
        BY <1>f, <1>1, <3>4, CommandsApart
      <4>2. \A c \in P2 : c \in P \/ Clear(u, c)
        BY <2>1, <4>1
      <4>3. Next1(u, "data") => mem'[buffer[op[u].src]] = mem[buffer[op[u].src]]
        <5>1. Next1(u, "data") => op[u].src \in Tensors /\ buffer[op[u].src] \in Buffers
          BY <1>f, HostOperands
        <5> QED  BY <1>f, <5>1, PlaceFacts, NameFacts DEF SameBut
      <4> QED  BY <1>f, <2>1, <3>1, <4>2, <4>3, HostStays
    <3> QED  BY <3>3, <3>4
  <2> QED  BY <2>2, <2>3
<1>6. ASSUME NEW t \in Tensors \ gpu_used', NEW c \in P2 PROVE buffer'[t] \notin Uses(c)
  <2>1. CASE c \in P
    BY <1>4, <1>6, <1>f, <2>1
  <2>2. CASE c = NextCommand(th)
    <3>1. t \notin {NextOn(th).dst, NextOn(th).src}
      BY <1>6 DEF Named, NextOn
    <3> QED  BY <1>6, <1>f, <2>2, <3>1, RecordNames
  <2> QED  BY <1>4, <2>1, <2>2
<1>7. Known' \subseteq (free_bufs' \cup pool' \cup Places) \cup {None}
  BY <1>2, KnownNow DEF Places
<1> QED  BY <1>2, <1>3, <1>4, <1>5, <1>6, <1>7, MetalTogether

LEMMA ControlFree ==
  ASSUME limits \in Limits, limits' = limits, gpu_used' \subseteq Tensors,
         in_flight' \in Seq(Batches), InOrder(in_flight'), Len(in_flight') <= MaxInFlight,
         Len(cmds') < SubmitChunk, ctx' = None
  PROVE  MetalControl'
<1>1. MaxInFlight \in Nat /\ Len(in_flight') \in Nat
  BY LimitFacts, BatchFacts
<1>2. Len(in_flight') <= MaxInFlight + 1
  BY <1>1
<1> QED  BY <1>2 DEF MetalControl, SubmitChunk, MaxInFlight

LEMMA ControlHeld ==
  ASSUME limits \in Limits, limits' = limits, gpu_used' \subseteq Tensors,
         in_flight' \in Seq(Batches), InOrder(in_flight'), Len(in_flight') <= MaxInFlight + 1,
         in_flight' # <<>>, cmds' = <<>>, NEW th \in Threads, ctx' = th, todo' = todo, todo[th] # <<>>,
         \/ Records(Head(todo[th])) \/ Next1(th, "flush")
         \/ Next1(th, "flushused") /\ Head(todo[th]).cmd.dst \in gpu_used'
  PROVE  MetalControl'
<1>1. SubmitChunk \in Nat /\ SubmitChunk # 0 /\ th # None /\ Len(<<>>) = 0
  BY LimitFacts, NameFacts
<1>2. Records(Head(todo'[ctx'])) \/ Drains(ctx)'
  BY DEF Drains, Next1
<1> QED  BY <1>1, <1>2 DEF MetalControl, SubmitChunk, MaxInFlight

LEMMA MetalRecordKeeps ==
  ASSUME MetalInv, NEW th \in Threads, MetalRecord(th)
  PROVE  MetalInv'
<1> DEFINE c == NextCommand(th)
           batch == Append(cmds, c)
           fl == Submitted(batch)
           n == CompletedFront(fl)
<1>f. /\ Discipline /\ MetalControl /\ DeviceTyped
      /\ in_flight \in Seq(Batches) /\ cmds \in Seq(CommandsOver(Buffers)) /\ mem \in [Buffers -> Contents]
      /\ Sealed(in_flight, cmds, Known)
      /\ (\A e \in Pending : Uses(e) \cap pool = {})
      /\ (\A k \in Keys : Place[k] \notin free_bufs \cup pool)
      /\ free_bufs \cap pool = {} /\ pool \subseteq Buffers
      /\ limits \in Limits /\ SubmitChunk \in Nat /\ SubmitChunk # 0 /\ MaxInFlight \in Nat
      /\ InOrder(in_flight) /\ gpu_used \subseteq Tensors
  BY MetalFacts DEF MetalControl
<1>1. /\ todo[th] # <<>> /\ Records(Head(todo[th])) /\ ctx = None
      /\ gpu_used' = gpu_used \cup Named(Head(todo[th]).cmd) /\ profiled' = profiled /\ limits' = limits
      /\ \/ /\ ~profiled /\ Len(batch) < SubmitChunk
            /\ cmds' = batch
            /\ Advance(th)
            /\ UNCHANGED <<mem, ctx, bufs, in_flight>>
         \/ /\ ~profiled /\ Len(batch) >= SubmitChunk
            /\ cmds' = <<>>
            /\ in_flight' = Retired(fl, n)
            /\ free_bufs' = {}
            /\ pool' = pool \cup Freed(fl, n)
            /\ mem' = Recycled(mem, Freed(fl, n))
            /\ IF Len(in_flight') > MaxInFlight
               THEN ctx' = th /\ UNCHANGED <<eager, threads>>
               ELSE Advance(th) /\ UNCHANGED ctx
            /\ UNCHANGED buffer
         \/ /\ profiled
            /\ cmds' = <<>>
            /\ in_flight' = fl
            /\ free_bufs' = {}
            /\ ctx' = th
            /\ UNCHANGED <<eager, mem, threads, pool, buffer>>
  BY DEF MetalRecord, RecordTo
<1>2. /\ c \in CommandsOver(Buffers) /\ Uses(c) \cap (free_bufs \cup pool) = {} /\ Uses(c) \subseteq Places
  BY <1>f, <1>1, RecordFacts DEF Places
<1> HIDE DEF c
<1>3. /\ batch \in Seq(CommandsOver(Buffers)) /\ batch # <<>>
      /\ PendingIn(in_flight, batch) = Pending \cup {NextCommand(th)}
  <2>1. batch \in Seq(CommandsOver(Buffers)) /\ batch # <<>>
    BY <1>f, <1>2, CommandLists
  <2>2. PendingIn(in_flight, batch) = PendingIn(in_flight, cmds) \cup {c}
    BY <1>f, <1>2, PendingCommand
  <2> QED  BY <2>1, <2>2 DEF Pending, c
<1>4. Known = free_bufs \cup pool \cup Places
  BY DEF Known, Places
<1>5. Sealed(in_flight, batch, Known)
  BY <1>f, <1>2, <1>4, SealedCommand
<1>6. SettledIn(mem, in_flight, batch) = Exec(SettledIn(mem, in_flight, cmds), NextCommand(th))
  BY <1>f, <1>2, ExecAllAppend DEF SettledIn, c
<1>7. \A e \in PendingIn(in_flight, batch) : Uses(e) \cap pool = {}
  BY <1>f, <1>2, <1>3 DEF c
<1> HIDE DEF batch
<1>8. gpu_used' \subseteq Tensors /\ \A S : SameBut({}, S, S)
  BY <1>f, <1>1 DEF Named, SameBut
<1>9. ASSUME ~profiled, Len(batch) < SubmitChunk, cmds' = batch, Advance(th), UNCHANGED <<mem, ctx, bufs, in_flight>>
      PROVE  MetalInv'
  <2>1. UNCHANGED <<free_bufs, pool, buffer>> /\ ctx' = None
    BY <1>1, <1>9 DEF bufs
  <2>2. Len(in_flight) <= MaxInFlight
    BY <1>f, <1>1 DEF MetalControl
  <2>3. MetalControl'
    BY <1>f, <1>1, <1>8, <1>9, <2>1, <2>2, ControlFree
  <2>4. DeviceTyped'
    BY <1>f, <1>1, <1>3, <1>9, <2>1 DEF DeviceTyped
  <2>5. SameBut({}, Exec(SettledIn(mem, in_flight, cmds), NextCommand(th)), SettledIn(mem', in_flight, batch))
    BY <1>6, <1>8, <1>9
  <2>6. SameBut({}, mem, mem')
    BY <1>8, <1>9
  <2>7. Sealed(in_flight, batch, free_bufs' \cup pool' \cup Places)
    BY <1>4, <1>5, <2>1
  <2> QED  BY <1>f, <1>1, <1>3, <1>7, <1>9, <2>1, <2>3, <2>4, <2>5, <2>6, <2>7, MetalRecordEnds
<1>10. /\ fl \in Seq(Batches) /\ InOrder(fl) /\ fl # <<>> /\ Len(fl) = Len(in_flight) + 1
       /\ PendingIn(fl, <<>>) = Pending \cup {NextCommand(th)}
       /\ SettledIn(mem, fl, <<>>) = Exec(SettledIn(mem, in_flight, cmds), NextCommand(th))
       /\ Sealed(fl, <<>>, pool \cup Places)
       /\ \A e \in PendingIn(fl, <<>>) : Uses(e) \cap pool = {}
  BY <1>3, <1>5, <1>6, <1>7, SubmitFacts
<1> HIDE DEF fl
<1>11. Len(fl) \in Nat /\ Len(in_flight) <= MaxInFlight /\ Len(fl) <= MaxInFlight + 1
  BY <1>f, <1>1, <1>10, BatchFacts DEF MetalControl
<1>12. <<>> \in Seq(CommandsOver(Buffers)) /\ Len(<<>>) = 0
  OBVIOUS
<1>13. ASSUME ~profiled, Len(batch) >= SubmitChunk, cmds' = <<>>, in_flight' = Retired(fl, n), free_bufs' = {},
              pool' = pool \cup Freed(fl, n), mem' = Recycled(mem, Freed(fl, n)), UNCHANGED buffer,
              IF Len(in_flight') > MaxInFlight
              THEN ctx' = th /\ UNCHANGED <<eager, threads>>
              ELSE Advance(th) /\ UNCHANGED ctx
       PROVE  MetalInv'
  <2>1. n \in 0 .. Len(fl) /\ FrontCompleted(fl, n)
    BY <1>10, FrontFacts DEF IsFront
  <2> HIDE DEF n
  <2>2. /\ Retired(fl, n) \in Seq(Batches) /\ InOrder(Retired(fl, n)) /\ Len(Retired(fl, n)) = Len(fl) - n
        /\ Sealed(Retired(fl, n), <<>>, (pool \cup Places) \cup Freed(fl, n))
        /\ Freed(fl, n) \subseteq Buffers
        /\ PendingIn(Retired(fl, n), <<>>) = PendingIn(fl, <<>>)
        /\ (\A e \in PendingIn(fl, <<>>) : Uses(e) \cap Freed(fl, n) = {})
        /\ (\A k \in Keys : Place[k] \notin Freed(fl, n))
        /\ mem' \in [Buffers -> Contents] /\ SameBut({}, mem, mem')
        /\ SameBut({}, SettledIn(mem, fl, <<>>), SettledIn(mem', Retired(fl, n), <<>>))
    <3>1. PICK cs, K : cs = <<>> /\ K = pool \cup Places
      OBVIOUS
    <3>2. cs \in Seq(CommandsOver(Buffers)) /\ Places \subseteq K /\ Sealed(fl, cs, K)
      BY <1>10, <3>1
    <3>3. Discipline /\ fl \in Seq(Batches) /\ InOrder(fl) /\ mem' = Recycled(mem, Freed(fl, n))
      BY <1>f, <1>10, <1>13
    <3>4. /\ Retired(fl, n) \in Seq(Batches) /\ InOrder(Retired(fl, n)) /\ Len(Retired(fl, n)) = Len(fl) - n
          /\ Sealed(Retired(fl, n), cs, K \cup Freed(fl, n))
          /\ Freed(fl, n) \subseteq Buffers
          /\ PendingIn(Retired(fl, n), cs) = PendingIn(fl, cs)
          /\ (\A e \in PendingIn(fl, cs) : Uses(e) \cap Freed(fl, n) = {})
          /\ (\A k \in Keys : Place[k] \notin Freed(fl, n))
          /\ mem' \in [Buffers -> Contents] /\ SameBut({}, mem, mem')
          /\ SameBut({}, SettledIn(mem, fl, cs), SettledIn(mem', Retired(fl, n), cs))
      BY <2>1, <3>2, <3>3, RetireFacts
    <3> QED  BY <3>1, <3>4
  <2>3. DeviceTyped'
    <3>1. ctx' \in Threads \cup {None}
      BY <1>1, <1>13
    <3> QED  BY <1>f, <1>1, <1>12, <1>13, <2>2, <3>1 DEF DeviceTyped
  <2>4. Len(in_flight') <= MaxInFlight + 1 /\ Len(in_flight') \in Nat
    BY <1>f, <1>11, <1>13, <2>1, <2>2
  <2>5. MetalControl'
    <3>1. CASE Len(in_flight') > MaxInFlight
      <4>1. todo' = todo /\ ctx' = th
        BY <1>13, <3>1 DEF threads
      <4>2. in_flight' # <<>>
        BY <1>f, <1>12, <3>1
      <4> QED  BY <1>f, <1>1, <1>8, <1>13, <2>2, <2>4, <4>1, <4>2, ControlHeld
    <3>2. CASE ~(Len(in_flight') > MaxInFlight)
      <4>1. Len(in_flight') <= MaxInFlight
        BY <1>f, <2>4, <3>2
      <4>2. ctx' = None /\ Len(cmds') < SubmitChunk
        BY <1>f, <1>1, <1>12, <1>13, <3>2
      <4> QED  BY <1>f, <1>1, <1>8, <1>13, <2>2, <4>1, <4>2, ControlFree
    <3> QED  BY <3>1, <3>2
  <2>6. \A e \in PendingIn(Retired(fl, n), <<>>) : Uses(e) \cap pool' = {}
    BY <1>10, <1>13, <2>2
  <2>7. Sealed(Retired(fl, n), <<>>, free_bufs' \cup pool' \cup Places)
    <3>1. free_bufs' \cup pool' \cup Places = (pool \cup Places) \cup Freed(fl, n)
      BY <1>13
    <3> QED  BY <2>2, <3>1
  <2>8. (\A k \in Keys : Place[k] \notin free_bufs' \cup pool') /\ free_bufs' \cap pool' = {}
    BY <1>f, <1>13, <2>2
  <2>9. PendingIn(Retired(fl, n), <<>>) = Pending \cup {NextCommand(th)}
    BY <1>10, <2>2
  <2>10. SameBut({}, Exec(SettledIn(mem, in_flight, cmds), NextCommand(th)), SettledIn(mem', Retired(fl, n), <<>>))
    BY <1>10, <2>2
  <2>11. (Advance(th) /\ ctx' = None) \/ (ctx' = th /\ UNCHANGED <<eager, threads>>)
    BY <1>1, <1>13
  <2> QED  BY <1>1, <1>13, <2>2, <2>3, <2>5, <2>6, <2>7, <2>8, <2>9, <2>10, <2>11, MetalRecordEnds
<1>14. ASSUME profiled, cmds' = <<>>, in_flight' = fl, free_bufs' = {}, ctx' = th,
              UNCHANGED <<eager, mem, threads, pool, buffer>>
       PROVE  MetalInv'
  <2>1. DeviceTyped'
    BY <1>f, <1>1, <1>12, <1>14 DEF DeviceTyped
  <2>2. MetalControl'
    <3>1. todo' = todo
      BY <1>14 DEF threads
    <3> QED  BY <1>f, <1>1, <1>8, <1>10, <1>11, <1>14, <3>1, ControlHeld
  <2>3. Sealed(fl, <<>>, free_bufs' \cup pool' \cup Places)
    <3>1. free_bufs' \cup pool' \cup Places = pool \cup Places
      BY <1>14
    <3> QED  BY <1>10, <3>1
  <2>4. /\ (\A k \in Keys : Place[k] \notin free_bufs' \cup pool') /\ free_bufs' \cap pool' = {}
        /\ \A e \in PendingIn(fl, <<>>) : Uses(e) \cap pool' = {}
    BY <1>f, <1>10, <1>14
  <2>5. SameBut({}, Exec(SettledIn(mem, in_flight, cmds), NextCommand(th)), SettledIn(mem', fl, <<>>))
    BY <1>8, <1>10, <1>14
  <2>6. SameBut({}, mem, mem') /\ UNCHANGED <<eager, threads>> /\ buffer' = buffer
    BY <1>8, <1>14
  <2> QED  BY <1>1, <1>10, <1>14, <2>1, <2>2, <2>3, <2>4, <2>5, <2>6, MetalRecordEnds
<1> QED  BY <1>1, <1>9, <1>13, <1>14 DEF fl, batch, c

-----------------------------------------------------------------------------
(* Metal: waiting for the GPU                                              *)

LEMMA MetalStays ==
  ASSUME MetalInv, UNCHANGED <<eager, threads, buffer>>, gpu_used' = gpu_used, MetalControl', DeviceTyped',
         Rest' = Rest, NEW fl, NEW cs, fl = in_flight', cs = cmds',
         NEW P, P = PendingIn(fl, cs), P \subseteq Pending, \A u \in Threads : HostReady(u, P)',
         Sealed(fl, cs, free_bufs' \cup pool' \cup Places),
         free_bufs' \cup pool' \subseteq free_bufs \cup pool, free_bufs' \cap pool' = {}, pool' = pool,
         SettledIn(mem', fl, cs) = SettledIn(mem, in_flight, cmds)
  PROVE  MetalInv'
<1>f. /\ Discipline /\ (\A c \in Pending : Uses(c) \cap pool = {})
      /\ \A k \in Keys : Place[k] \notin free_bufs \cup pool
  BY MetalFacts
<1>1. Discipline' /\ PlacesBut({})
  <2>1. \A k \in Keys : Place[k] \notin free_bufs' \cup pool'
    BY <1>f
  <2> QED  BY <1>f, <2>1, StayDisciplined
<1>2. MetalAgrees'
  <2>1. PICK R, S : R = Rest /\ S = SettledIn(mem, in_flight, cmds)
    OBVIOUS
  <2>2. Agreement(R, S)
    BY <2>1, MetalFacts
  <2>3. Agreement(R, S)'
    BY <2>2, StayAgrees
  <2> QED  BY <2>1, <2>3, MetalAgreesNow
<1>3. \A t \in Tensors \ gpu_used', c \in P : buffer'[t] \notin Uses(c)
  BY MetalFacts
<1>4. \A c \in P : Uses(c) \cap pool' = {}
  BY <1>f
<1>5. Known' \subseteq (free_bufs' \cup pool' \cup Places) \cup {None}
  BY <1>1, KnownNow DEF Places
<1> QED  BY <1>1, <1>2, <1>3, <1>4, <1>5, MetalTogether

(* The mutex, held across a wait or not, is not held by th any longer.     *)
Resumes(th) ==
  \/ Records(Head(todo[th])) /\ ctx = th /\ ctx' = None
  \/ Head(todo[th]).do \in {"flush", "flushused"} /\ ((ctx = th /\ ctx' = None) \/ (ctx' = ctx /\ ctx # th))

(* Memory, m, is what it will be, S, where a flush lets the host look, and *)
(* no command in P uses it.                                                *)
Flushes(th, P, m, S) ==
  \A t \in Tensors : Live(t) /\ (Head(todo[th]).do = "flush" \/ Head(todo[th]).cmd.dst = t) =>
    m[buffer[t]] = S[buffer[t]] /\ \A c \in P : buffer[t] \notin Uses(c)

(* A wait is over, or there was none: the operation goes on.               *)
LEMMA MetalGoesOn ==
  ASSUME MetalInv, NEW th \in Threads, todo[th] # <<>>, Advance(th), buffer' = buffer, gpu_used' = gpu_used,
         Resumes(th), MetalControl', DeviceTyped', NEW fl, NEW cs, fl = in_flight', cs = cmds',
         NEW P, P = PendingIn(fl, cs), P \subseteq Pending,
         Sealed(fl, cs, free_bufs' \cup pool' \cup Places),
         \A k \in Keys : Place[k] \notin free_bufs' \cup pool', free_bufs' \cap pool' = {},
         \A c \in P : Uses(c) \cap pool' = {},
         NEW m, m = mem', SameBut({}, mem, m),
         NEW S2, S2 = SettledIn(m, fl, cs), SameBut({}, SettledIn(mem, in_flight, cmds), S2),
         ~Records(Head(todo[th])) => Flushes(th, P, m, S2)
  PROVE  MetalInv'
<1>f. /\ Discipline /\ DOMAIN todo = Threads /\ \A u \in Threads : HostReady(u, Pending)
  BY MetalFacts
<1>1. ~Allocates(Head(todo[th])) /\ Head(todo[th]).do # "defer" /\ ~(Records(Head(todo[th])) /\ Head(todo[th]).do \in {"flush", "flushused"})
  BY KindFacts DEF Allocates, Resumes
<1>2. todo' = [todo EXCEPT ![th] = Tail(todo[th])]
  BY DEF Advance, Continue
<1>3. Discipline' /\ PlacesBut({})
  BY <1>f, <1>1, AdvanceDisciplined
<1>4. PICK R, R2, S : R = Rest /\ R2 = Rest' /\ S = SettledIn(mem, in_flight, cmds)
  OBVIOUS
<1>5. S2 \in [Buffers -> Contents]
  <2>1. fl \in Seq(Batches) /\ cs \in Seq(CommandsOver(Buffers)) /\ mem' \in [Buffers -> Contents]
    BY DEF MetalControl, DeviceTyped
  <2> QED  BY <2>1, SettledType
<1>6. Agreement(R, S2)
  <2>1. Agreement(R, S)
    BY <1>4, MetalFacts
  <2> QED  BY <1>f, <1>4, <2>1, SameSettles
<1>7. /\ R = [u \in Threads |-> IF ctx = u /\ Records(Head(todo[u])) THEN Tail(todo[u]) ELSE todo[u]]
      /\ R2 = [u \in Threads |-> IF ctx' = u /\ Records(Head(todo'[u])) THEN Tail(todo'[u]) ELSE todo'[u]]
  BY <1>4 DEF Rest, Records
<1>8. todo'[th] = Tail(todo[th]) /\ \A u \in Threads \ {th} : todo'[u] = todo[u]
  BY <1>f, <1>2
<1>9. Agreement(R2, S2) /\ R2[th] = Tail(todo[th]) /\ \A u \in Threads \ {th} : R2[u] = R[u]
  <2>1. ASSUME NEW u \in Threads, u # th PROVE R2[u] = R[u]
    BY <1>7, <1>8, <2>1, NameFacts DEF Resumes
  <2>2. R2[th] = Tail(todo[th])
    BY <1>1, <1>7, <1>8, NameFacts DEF Resumes
  <2>3. CASE Records(Head(todo[th]))
    <3>1. R[th] = Tail(todo[th])
      BY <1>1, <1>7, <2>3 DEF Resumes
    <3>2. \A u \in Threads : R2[u] = R[u]
      BY <2>1, <2>2, <3>1
    <3>3. R2 = R
      BY <1>7, <3>2
    <3> QED  BY <1>6, <2>1, <2>2, <3>3
  <2>4. CASE Head(todo[th]).do \in {"flush", "flushused"}
    <3>1. R[th] = todo[th]
      BY <1>1, <1>7, <2>4
    <3> QED  BY <1>f, <1>6, <2>1, <2>2, <2>4, <3>1, SkipSettles
  <2> QED  BY <2>1, <2>2, <2>3, <2>4 DEF Resumes
<1>10. Agreement(R2, S2)'
  BY <1>f, <1>1, <1>5, <1>9, AdvanceAgrees
<1>11. MetalAgrees'
  BY <1>4, <1>10, MetalAgreesNow
<1>12. PICK A : A = Pending
  OBVIOUS
<1>13. \A u \in Threads : HostReady(u, P)'
  <2>1. \A u \in Threads : HostReady(u, A)
    BY <1>f, <1>12
  <2>2. \A u \in Threads : HostReady(u, P)
    BY <1>12, <2>1 DEF HostReady
  <2>3. CASE Records(Head(todo[th]))
    <3>1. P \subseteq P \cup {NextCommand(th)}
      OBVIOUS
    <3> QED  BY <1>f, <2>2, <2>3, <3>1, RecordReadies
  <2>4. CASE Head(todo[th]).do \in {"flush", "flushused"}
    <3>1. Settles(S2)
      BY <1>6 DEF Agreement
    <3>2. \A t \in Tensors : Live(t) /\ (Head(todo[th]).do = "flush" \/ Head(todo[th]).cmd.dst = t) =>
             mem'[buffer[t]] = S2[buffer[t]] /\ \A c \in P : buffer[t] \notin Uses(c)
      BY <1>1, <2>4 DEF Flushes
    <3> QED  BY <1>f, <2>2, <2>4, <3>1, <3>2, FlushGoesOn
  <2> QED  BY <2>3, <2>4 DEF Resumes
<1>14. \A t \in Tensors \ gpu_used', c \in P : buffer'[t] \notin Uses(c)
  BY <1>12, MetalFacts
<1>15. Known' \subseteq (free_bufs' \cup pool' \cup Places) \cup {None}
  BY <1>3, KnownNow DEF Places
<1> QED  BY <1>3, <1>11, <1>12, <1>13, <1>14, <1>15, MetalTogether

LEMMA SettledOfNone == \A m : SettledIn(m, <<>>, <<>>) = m
BY BatchesEmpty, ExecAllEmpty DEF SettledIn

LEMMA MetalFlushCommitKeeps ==
  ASSUME MetalInv, NEW th \in Threads, FlushCommit(th)
  PROVE  MetalInv'
<1>f. /\ Discipline /\ MetalControl /\ DeviceTyped
      /\ in_flight \in Seq(Batches) /\ cmds \in Seq(CommandsOver(Buffers)) /\ mem \in [Buffers -> Contents]
      /\ Sealed(in_flight, cmds, Known)
      /\ (\A e \in Pending : Uses(e) \cap pool = {})
      /\ (\A k \in Keys : Place[k] \notin free_bufs \cup pool)
      /\ free_bufs \cap pool = {} /\ pool \subseteq Buffers /\ free_bufs \subseteq Buffers
      /\ limits \in Limits /\ SubmitChunk \in Nat /\ SubmitChunk # 0 /\ MaxInFlight \in Nat
      /\ InOrder(in_flight) /\ gpu_used \subseteq Tensors /\ \A u \in Threads : HostReady(u, Pending)
  BY MetalFacts DEF MetalControl
<1>1. /\ Drains(th) /\ ctx = None /\ in_flight' = Submitted(cmds) /\ free_bufs' = KeptFree(cmds) /\ cmds' = <<>>
      /\ in_flight' = <<>> => Advance(th) /\ ctx' = ctx
      /\ in_flight' # <<>> => ctx' = th /\ UNCHANGED <<eager, threads>>
      /\ UNCHANGED <<mem, pool, buffer, gpu_used, profiled, limits>>
  BY DEF FlushCommit
<1>2. /\ todo[th] # <<>> /\ Head(todo[th]).do \in {"flush", "flushused"} /\ ~Records(Head(todo[th]))
      /\ (Next1(th, "flush") \/ (Next1(th, "flushused") /\ Head(todo[th]).cmd.dst \in gpu_used))
  BY <1>1 DEF Drains, Next1, Records
<1>3. Known = free_bufs \cup pool \cup Places
  BY DEF Known, Places
<1>4. <<>> \in Seq(CommandsOver(Buffers)) /\ <<>> \in Seq(Batches) /\ Len(<<>>) = 0 /\ None \notin Threads
  BY NameFacts
<1>5. /\ in_flight' \in Seq(Batches) /\ InOrder(in_flight') /\ PendingIn(in_flight', cmds') = Pending
      /\ (\A m : SettledIn(m, in_flight', cmds') = SettledIn(m, in_flight, cmds))
      /\ Sealed(in_flight', cmds', free_bufs' \cup pool' \cup Places)
      /\ free_bufs' \subseteq free_bufs
      /\ (in_flight' # <<>> => Len(in_flight') <= MaxInFlight + 1)
  <2>1. Len(in_flight) <= MaxInFlight /\ Len(in_flight) \in Nat
    BY <1>f, <1>1, BatchFacts DEF MetalControl
  <2>2. CASE cmds = <<>>
    <3>1. in_flight' = in_flight /\ cmds' = cmds /\ free_bufs' = free_bufs
      BY <1>1, <2>2 DEF Submitted, KeptFree
    <3> QED  BY <1>f, <1>1, <1>3, <2>1, <3>1 DEF Pending
  <2>3. CASE cmds # <<>>
    <3>1. PICK fl : fl = Submitted(cmds)
      OBVIOUS
    <3>2. /\ KeptFree(cmds) = {} /\ fl \in Seq(Batches) /\ InOrder(fl) /\ Len(fl) = Len(in_flight) + 1
          /\ PendingIn(fl, <<>>) = PendingIn(in_flight, cmds)
          /\ \A m : SettledIn(m, fl, <<>>) = SettledIn(m, in_flight, cmds)
          /\ Sealed(fl, <<>>, pool \cup Places)
      BY <1>f, <2>3, <3>1, SubmitFacts
    <3>3. free_bufs' \cup pool' \cup Places = pool \cup Places /\ free_bufs' = {}
      BY <1>1, <3>2
    <3> QED  BY <1>f, <1>1, <2>1, <3>1, <3>2, <3>3 DEF Pending
  <2> QED  BY <2>2, <2>3
<1>6. /\ DeviceTyped' /\ (\A k \in Keys : Place[k] \notin free_bufs' \cup pool') /\ free_bufs' \cap pool' = {}
      /\ free_bufs' \cup pool' \subseteq free_bufs \cup pool
  <2>1. ctx' \in Threads \cup {None} /\ free_bufs' \subseteq Buffers
    BY <1>f, <1>1, <1>5
  <2> QED  BY <1>f, <1>1, <1>4, <1>5, <2>1 DEF DeviceTyped
<1>7. PICK fl, cs, P : fl = in_flight' /\ cs = cmds' /\ P = PendingIn(fl, cs)
  OBVIOUS
<1>8. P = Pending /\ Sealed(fl, cs, free_bufs' \cup pool' \cup Places)
  BY <1>5, <1>7
<1>9. CASE in_flight' = <<>>
  <2>1. PICK m, S : m = mem' /\ S = SettledIn(m, fl, cs)
    OBVIOUS
  <2>2. P = {} /\ S = m
    BY <1>1, <1>7, <1>9, <2>1, PendingOfNone, SettledOfNone
  <2>3. Len(in_flight') <= MaxInFlight /\ Len(cmds') < SubmitChunk /\ gpu_used' \subseteq Tensors
    BY <1>f, <1>1, <1>4, <1>9
  <2>4. MetalControl'
    BY <1>f, <1>1, <1>5, <1>9, <2>3, ControlFree
  <2>5. SameBut({}, mem, m) /\ SameBut({}, SettledIn(mem, in_flight, cmds), S)
    BY <1>1, <1>5, <1>7, <2>1 DEF SameBut
  <2>6. P \subseteq Pending /\ (\A c \in P : Uses(c) \cap pool' = {}) /\ Flushes(th, P, m, S)
    BY <2>2 DEF Flushes
  <2>7. Advance(th) /\ buffer' = buffer /\ gpu_used' = gpu_used /\ Resumes(th)
    BY <1>1, <1>2, <1>4, <1>9 DEF Resumes
  <2> QED  BY <1>2, <1>6, <1>7, <1>8, <2>1, <2>4, <2>5, <2>6, <2>7, MetalGoesOn
<1>10. CASE in_flight' # <<>>
  <2>1. ctx' = th /\ UNCHANGED <<eager, threads>> /\ todo' = todo /\ op' = op /\ val' = val
    BY <1>1, <1>10 DEF threads, eager
  <2>2. MetalControl'
    BY <1>f, <1>1, <1>2, <1>5, <1>10, <2>1, ControlHeld
  <2>3. Rest' = Rest
    BY <1>1, <1>2, <1>4, <2>1 DEF Rest, Records
  <2>4. \A u \in Threads : HostReady(u, P)'
    <3>1. ASSUME NEW u \in Threads PROVE HostReady(u, P)'
      <4>1. HostReady(u, P)
        BY <1>f, <1>8
      <4> QED  BY <1>f, <1>1, <2>1, <4>1, HostStays
    <3> QED  BY <3>1
  <2>5. SettledIn(mem', fl, cs) = SettledIn(mem, in_flight, cmds)
    BY <1>1, <1>5, <1>7
  <2> QED  BY <1>1, <1>6, <1>7, <1>8, <2>1, <2>2, <2>3, <2>4, <2>5, MetalStays
<1> QED  BY <1>9, <1>10

LEMMA MetalControlStays ==
  ASSUME MetalControl, UNCHANGED <<cmds, ctx, limits>>, gpu_used' \subseteq Tensors,
         in_flight' \in Seq(Batches), Len(in_flight') = Len(in_flight), InOrder(in_flight'),
         ctx # None => todo'[ctx] = todo[ctx] /\ gpu_used' = gpu_used
  PROVE  MetalControl'
<1>1. in_flight # <<>> => in_flight' # <<>>
  <2>1. in_flight \in Seq(Batches)
    BY DEF MetalControl
  <2> QED  BY <2>1
<1>2. ctx # None => (Drains(ctx) <=> Drains(ctx)')
  BY DEF Drains, Next1
<1> QED  BY <1>1, <1>2 DEF MetalControl, SubmitChunk, MaxInFlight

LEMMA MetalSkipFlushKeeps ==
  ASSUME MetalInv, NEW th \in Threads, SkipFlush(th)
  PROVE  MetalInv'
<1>f. /\ Discipline /\ MetalControl /\ DeviceTyped /\ DOMAIN todo = Threads
      /\ in_flight \in Seq(Batches) /\ cmds \in Seq(CommandsOver(Buffers)) /\ mem \in [Buffers -> Contents]
      /\ Sealed(in_flight, cmds, Known)
      /\ (\A e \in Pending : Uses(e) \cap pool = {})
      /\ (\A t \in Tensors \ gpu_used, c \in Pending : buffer[t] \notin Uses(c))
      /\ (\A k \in Keys : Place[k] \notin free_bufs \cup pool)
      /\ free_bufs \cap pool = {} /\ InOrder(in_flight) /\ gpu_used \subseteq Tensors
  BY MetalFacts DEF MetalControl
<1>1. /\ todo[th] # <<>> /\ Head(todo[th]).do = "flushused" /\ ~Drains(th) /\ Advance(th)
      /\ UNCHANGED <<mem, cmds, ctx, free_bufs, pool, buffer, in_flight, gpu_used, profiled, limits>>
  BY DEF SkipFlush, Next1, bufs, metal_state
<1>2. ctx # th /\ Head(todo[th]).cmd.dst \notin gpu_used /\ ~Records(Head(todo[th]))
  BY <1>f, <1>1, NameFacts DEF MetalControl, Drains, Next1, Records
<1>3. Resumes(th) /\ DeviceTyped'
  BY <1>f, <1>1, <1>2 DEF Resumes, DeviceTyped
<1>4. MetalControl'
  <2>1. todo' = [todo EXCEPT ![th] = Tail(todo[th])]
    BY <1>1 DEF Advance, Continue
  <2>2. ctx # None => todo'[ctx] = todo[ctx]
    BY <1>f, <1>2, <2>1 DEF DeviceTyped
  <2> QED  BY <1>f, <1>1, <2>2, MetalControlStays
<1>5. PICK fl, cs, P, m, S : /\ fl = in_flight' /\ cs = cmds' /\ P = PendingIn(fl, cs) /\ m = mem'
                             /\ S = SettledIn(m, fl, cs)
  OBVIOUS
<1>6. P = Pending /\ SettledIn(mem, in_flight, cmds) = S /\ m = mem
  BY <1>1, <1>5 DEF Pending
<1>7. Sealed(fl, cs, free_bufs' \cup pool' \cup Places)
  BY <1>f, <1>1, <1>5 DEF Known, Places
<1>8. SameBut({}, mem, m) /\ SameBut({}, SettledIn(mem, in_flight, cmds), S)
  BY <1>6 DEF SameBut
<1>9. Flushes(th, P, m, S)
  <2>1. ASSUME NEW t \in Tensors, Live(t), Head(todo[th]).cmd.dst = t
        PROVE  m[buffer[t]] = S[buffer[t]] /\ \A c \in P : buffer[t] \notin Uses(c)
    <3>1. \A c \in P : buffer[t] \notin Uses(c)
      BY <1>f, <1>2, <1>6, <2>1
    <3>2. buffer[t] \in Buffers
      BY <1>f, <2>1 DEF Discipline, DeviceTyped, Stored
    <3>3. \A c \in PendingIn(in_flight, cmds) : buffer[t] \notin Uses(c)
      BY <1>6, <3>1 DEF Pending
    <3>4. SettledIn(mem, in_flight, cmds)[buffer[t]] = mem[buffer[t]]
      BY <1>f, <3>2, <3>3, SettledElsewhere
    <3> QED  BY <1>6, <3>1, <3>4
  <2> QED  BY <1>1, <2>1 DEF Flushes
<1>10. P \subseteq Pending /\ (\A c \in P : Uses(c) \cap pool' = {})
  BY <1>f, <1>1, <1>6
<1>11. (\A k \in Keys : Place[k] \notin free_bufs' \cup pool') /\ free_bufs' \cap pool' = {}
  BY <1>f, <1>1
<1>12. buffer' = buffer /\ gpu_used' = gpu_used
  BY <1>1
<1> QED  BY <1>1, <1>3, <1>4, <1>5, <1>7, <1>8, <1>9, <1>10, <1>11, <1>12, MetalGoesOn

LEMMA MetalExecuteKeeps ==
  ASSUME MetalInv, MetalExecute
  PROVE  MetalInv'
<1>f. /\ Discipline /\ MetalControl /\ DeviceTyped /\ DOMAIN todo = Threads
      /\ in_flight \in Seq(Batches) /\ cmds \in Seq(CommandsOver(Buffers)) /\ mem \in [Buffers -> Contents]
      /\ Sealed(in_flight, cmds, Known)
      /\ (\A u \in Threads : HostReady(u, Pending))
      /\ free_bufs \cap pool = {} /\ InOrder(in_flight) /\ gpu_used \subseteq Tensors
  BY MetalFacts DEF MetalControl
<1>1. PICK i \in DOMAIN in_flight :
        /\ \A j \in 1 .. i - 1 : Completed(in_flight[j])
        /\ mem' = ExecAll(mem, in_flight[i].cmds)
        /\ in_flight' = [in_flight EXCEPT ![i].cmds = <<>>]
        /\ UNCHANGED <<eager, cmds, ctx, bufs, threads, gpu_used, profiled, limits>>
  BY DEF MetalExecute
<1>2. UNCHANGED <<eager, threads, todo, cmds, ctx, free_bufs, pool, buffer, gpu_used, profiled, limits>>
  BY <1>1 DEF bufs, threads
<1>3. PICK gl, bs : gl = [in_flight EXCEPT ![i].cmds = <<>>] /\ bs = in_flight[i].cmds
  OBVIOUS
<1>4. gl \in Seq(Batches) /\ Len(gl) = Len(in_flight) /\ bs \in Seq(CommandsOver(Buffers))
  BY <1>f, <1>3, BatchFacts, BatchRunFacts
<1>5. Sealed(gl, cmds, Known) /\ PendingIn(gl, cmds) \subseteq Pending
  BY <1>f, <1>3, SealedRun DEF Pending
<1>6. FrontCompleted(in_flight, i - 1)
  BY <1>1 DEF FrontCompleted
<1>7. InOrder(gl)
  BY <1>f, <1>3, <1>6, InOrderKept
<1>8. ExecBatches(mem', gl) = ExecBatches(mem, in_flight)
  <2>1. PICK m, m2, fl : m = mem /\ m2 = mem' /\ fl = in_flight
    OBVIOUS
  <2>2. fl \in Seq(Batches) /\ i \in DOMAIN fl /\ m2 = ExecAll(m, fl[i].cmds) /\ FrontCompleted(fl, i - 1)
    BY <1>f, <1>1, <1>6, <2>1
  <2>3. ExecBatches(m2, [fl EXCEPT ![i].cmds = <<>>]) = ExecBatches(m, fl)
    BY <2>2, BatchesRun
  <2> QED  BY <1>3, <2>1, <2>3
<1>9. Commands(bs) \subseteq Pending
  BY <1>3 DEF Pending, PendingIn
<1>10. DeviceTyped'
  <2>1. ExecAll(mem, bs) \in [Buffers -> Contents]
    BY <1>f, <1>4, ExecAllType
  <2> QED  BY <1>f, <1>1, <1>2, <1>3, <2>1 DEF DeviceTyped
<1>11. MetalControl'
  <2>1. in_flight' = gl
    BY <1>1, <1>3
  <2> QED  BY <1>f, <1>2, <1>4, <1>7, <2>1, MetalControlStays
<1>12. PICK A, P, cs : A = Pending /\ P = PendingIn(gl, cmds) /\ cs = cmds
  OBVIOUS
<1>13. \A u \in Threads : HostReady(u, P)'
  <2>1. /\ Commands(bs) \subseteq A /\ P \subseteq A /\ mem' = ExecAll(mem, bs) /\ UNCHANGED <<eager, threads, buffer>>
        /\ \A u \in Threads : HostReady(u, A)
    BY <1>f, <1>1, <1>2, <1>3, <1>5, <1>9, <1>12
  <2> QED  BY <1>f, <1>4, <2>1, ExecReadies
<1>14. /\ gl = in_flight' /\ cs = cmds' /\ P = PendingIn(gl, cs) /\ P \subseteq Pending
       /\ Sealed(gl, cs, free_bufs' \cup pool' \cup Places)
  BY <1>1, <1>2, <1>3, <1>5, <1>12 DEF Known, Places
<1>15. SettledIn(mem', gl, cs) = SettledIn(mem, in_flight, cmds)
  BY <1>8, <1>12 DEF SettledIn
<1>16. free_bufs' \cup pool' \subseteq free_bufs \cup pool /\ free_bufs' \cap pool' = {} /\ pool' = pool
  BY <1>f, <1>2
<1>17. Rest' = Rest
  BY <1>2 DEF Rest
<1> QED  BY <1>2, <1>10, <1>11, <1>13, <1>14, <1>15, <1>16, <1>17, MetalStays

(* The first k batches retire, and whoever waited for them goes on.        *)
LEMMA MetalRetireKeeps ==
  ASSUME MetalInv, NEW th \in Threads, ctx = th, NEW k \in 1 .. Len(in_flight), FrontCompleted(in_flight, k),
         Retire(th, k), Records(Head(todo[th])) \/ k = Len(in_flight)
  PROVE  MetalInv'
<1>f. /\ Discipline /\ MetalControl /\ DeviceTyped /\ DOMAIN todo = Threads
      /\ in_flight \in Seq(Batches) /\ cmds \in Seq(CommandsOver(Buffers)) /\ mem \in [Buffers -> Contents]
      /\ Sealed(in_flight, cmds, Known)
      /\ (\A e \in Pending : Uses(e) \cap pool = {})
      /\ (\A e \in Keys : Place[e] \notin free_bufs \cup pool)
      /\ free_bufs \cap pool = {} /\ pool \subseteq Buffers /\ free_bufs \subseteq Buffers
      /\ limits \in Limits /\ SubmitChunk \in Nat /\ SubmitChunk # 0 /\ MaxInFlight \in Nat
      /\ InOrder(in_flight) /\ gpu_used \subseteq Tensors /\ Len(in_flight) <= MaxInFlight + 1
  BY MetalFacts DEF MetalControl
<1>1. /\ in_flight' = Retired(in_flight, k) /\ pool' = pool \cup Freed(in_flight, k)
      /\ mem' = Recycled(mem, Freed(in_flight, k)) /\ ctx' = None /\ Advance(th)
      /\ UNCHANGED <<cmds, free_bufs, buffer, gpu_used, profiled, limits>>
  BY DEF Retire
<1>2. /\ cmds = <<>> /\ todo[th] # <<>> /\ Len(in_flight) \in Nat
      /\ Records(Head(todo[th])) \/ Head(todo[th]).do \in {"flush", "flushused"}
  BY <1>f, NameFacts, BatchFacts DEF MetalControl, Drains, Next1
<1>3. Resumes(th)
  BY <1>1, <1>2 DEF Resumes
<1>4. PICK fl, cs, K : fl = in_flight /\ cs = cmds /\ K = Known
  OBVIOUS
<1>5. k \in 0 .. Len(fl) /\ k # 0
  BY <1>2, <1>4
<1>6. /\ Discipline /\ fl \in Seq(Batches) /\ cs \in Seq(CommandsOver(Buffers)) /\ Sealed(fl, cs, K)
      /\ Places \subseteq K /\ InOrder(fl) /\ FrontCompleted(fl, k) /\ mem' = Recycled(mem, Freed(fl, k))
  BY <1>f, <1>1, <1>4 DEF Known, Places
<1>7. /\ Retired(fl, k) \in Seq(Batches) /\ InOrder(Retired(fl, k)) /\ Len(Retired(fl, k)) = Len(fl) - k
      /\ Sealed(Retired(fl, k), cs, K \cup Freed(fl, k))
      /\ Freed(fl, k) \subseteq Buffers /\ Freed(fl, k) \cap K = {}
      /\ PendingIn(Retired(fl, k), cs) = PendingIn(fl, cs)
      /\ (\A c \in PendingIn(fl, cs) : Uses(c) \cap Freed(fl, k) = {})
      /\ (\A e \in Keys : Place[e] \notin Freed(fl, k))
      /\ mem' \in [Buffers -> Contents] /\ SameBut({}, mem, mem')
      /\ SameBut({}, SettledIn(mem, fl, cs), SettledIn(mem', Retired(fl, k), cs))
  BY <1>5, <1>6, RetireFacts
<1>8. PICK gl, P, m, S : gl = Retired(fl, k) /\ P = PendingIn(gl, cs) /\ m = mem' /\ S = SettledIn(m, gl, cs)
  OBVIOUS
<1>9. gl = in_flight' /\ cs = cmds' /\ P = Pending
  BY <1>1, <1>4, <1>7, <1>8 DEF Pending
<1>10. Len(gl) \in Nat /\ Len(gl) <= MaxInFlight /\ (~Records(Head(todo[th])) => Len(gl) = 0)
  BY <1>f, <1>2, <1>4, <1>5, <1>7, <1>8
<1>11. MetalControl'
  <2>1. /\ limits' = limits /\ gpu_used' \subseteq Tensors /\ in_flight' \in Seq(Batches) /\ InOrder(in_flight')
        /\ Len(in_flight') <= MaxInFlight /\ Len(cmds') < SubmitChunk /\ ctx' = None
    BY <1>f, <1>1, <1>2, <1>7, <1>8, <1>9, <1>10
  <2> QED  BY <1>f, <2>1, ControlFree
<1>12. DeviceTyped'
  BY <1>f, <1>1, <1>4, <1>7 DEF DeviceTyped
<1>13. Sealed(gl, cs, free_bufs' \cup pool' \cup Places)
  <2>1. free_bufs' \cup pool' \cup Places = K \cup Freed(fl, k)
    BY <1>1, <1>4 DEF Known, Places
  <2> QED  BY <1>7, <1>8, <2>1
<1>14. (\A e \in Keys : Place[e] \notin free_bufs' \cup pool') /\ free_bufs' \cap pool' = {}
  BY <1>f, <1>1, <1>4, <1>7 DEF Known
<1>15. P \subseteq Pending /\ \A c \in P : Uses(c) \cap pool' = {}
  BY <1>f, <1>1, <1>4, <1>7, <1>8, <1>9
<1>16. SameBut({}, mem, m) /\ SameBut({}, SettledIn(mem, in_flight, cmds), S)
  BY <1>4, <1>7, <1>8
<1>17. ~Records(Head(todo[th])) => Flushes(th, P, m, S)
  <2>1. ASSUME ~Records(Head(todo[th])) PROVE P = {} /\ S = m
    <3>1. gl = <<>>
      BY <1>7, <1>8, <1>10, <2>1
    <3> QED  BY <1>2, <1>4, <1>8, <3>1, PendingOfNone, SettledOfNone
  <2> QED  BY <2>1 DEF Flushes
<1>18. buffer' = buffer /\ gpu_used' = gpu_used
  BY <1>1
<1> QED  BY <1>1, <1>2, <1>3, <1>8, <1>9, <1>11, <1>12, <1>13, <1>14, <1>15, <1>16, <1>17, <1>18, MetalGoesOn

LEMMA MetalWaitKeeps ==
  ASSUME MetalInv, NEW th \in Threads, FlushDone(th) \/ Backpressure(th)
  PROVE  MetalInv'
<1>f. /\ in_flight \in Seq(Batches) /\ Len(in_flight) \in Nat /\ DOMAIN in_flight = 1 .. Len(in_flight)
      /\ InOrder(in_flight) /\ MetalControl
  BY MetalFacts, BatchFacts DEF MetalControl
<1>1. CASE FlushDone(th)
  <2>1. ctx = th /\ Completed(in_flight[Len(in_flight)]) /\ Retire(th, Len(in_flight))
    BY <1>1 DEF FlushDone, WaitsForAll
  <2>2. Len(in_flight) \in 1 .. Len(in_flight)
    BY <1>f, <2>1, NameFacts DEF MetalControl
  <2>3. FrontCompleted(in_flight, Len(in_flight))
    BY <1>f, <2>1, <2>2 DEF FrontCompleted, InOrder
  <2>4. PICK k : k = Len(in_flight)
    OBVIOUS
  <2> QED  BY <2>1, <2>2, <2>3, <2>4, MetalRetireKeeps
<1>2. CASE Backpressure(th)
  <2>1. ctx = th /\ ~Drains(th) /\ Completed(in_flight[1]) /\ Retire(th, 1)
    BY <1>2 DEF Backpressure, WaitsForAll
  <2>2. Records(Head(todo[th])) /\ 1 \in 1 .. Len(in_flight)
    BY <1>f, <2>1, NameFacts DEF MetalControl
  <2>3. FrontCompleted(in_flight, 1)
    BY <2>1 DEF FrontCompleted
  <2> QED  BY <2>1, <2>2, <2>3, MetalRetireKeeps
<1> QED  BY <1>1, <1>2

-----------------------------------------------------------------------------
(* Metal: the steps of DeviceOps, with the batches as they are             *)

LEMMA MetalKept ==
  ASSUME MetalInv, Discipline', MetalControl', UNCHANGED <<cmds, in_flight>>, pool' \subseteq pool,
         Known' \subseteq Known \cup {None}, NEW P, P = Pending,
         \A t \in Tensors \ gpu_used', c \in P : buffer'[t] \notin Uses(c),
         MetalAgrees', \A u \in Threads : HostReady(u, P)'
  PROVE  MetalInv'
<1>1. PICK fl, cs, K : fl = in_flight' /\ cs = cmds' /\ K = Known
  OBVIOUS
<1>2. Sealed(fl, cs, K) /\ P = PendingIn(fl, cs) /\ \A c \in P : Uses(c) \cap pool' = {}
  BY <1>1, MetalFacts DEF Pending
<1> QED  BY <1>1, <1>2, MetalTogether

(* The batches, as one list.                                               *)
LEMMA MetalFlat ==
  ASSUME MetalInv
  PROVE  \E ds \in Seq(CommandsOver(Buffers)) :
           /\ Commands(ds) = Pending /\ pool \cap Touched(ds) = {}
           /\ \A m : SettledIn(m, in_flight, cmds) = ExecAll(m, ds)
           /\ \A c \in Pending : Uses(c) \subseteq Buffers
<1>1. PICK ds : Flat(in_flight, cmds, ds)
  BY MetalFacts, Flattened
<1>2. ds \in Seq(CommandsOver(Buffers)) /\ Commands(ds) = Pending
  BY <1>1 DEF Flat, Pending
<1>3. /\ Touched(ds) = UNION {Uses(c) : c \in Commands(ds)} /\ Touched(ds) \subseteq Buffers
  BY <1>2, CommandLists
<1>4. \A c \in Pending : Uses(c) \cap pool = {}
  BY MetalFacts
<1>5. pool \cap Touched(ds) = {} /\ \A c \in Pending : Uses(c) \subseteq Buffers
  BY <1>2, <1>3, <1>4
<1>6. \A m : SettledIn(m, in_flight, cmds) = ExecAll(m, ds)
  BY <1>1 DEF Flat
<1> QED  BY <1>2, <1>5, <1>6

(* The steps not recorded yet, when a thread that does not hold the mutex  *)
(* across a wait makes a step.                                             *)
LEMMA RestMoves ==
  ASSUME NEW th \in Threads, ctx # th, ctx' = ctx, \A u \in Threads \ {th} : todo'[u] = todo[u]
  PROVE  Rest[th] = todo[th] /\ Rest'[th] = todo'[th] /\ \A u \in Threads \ {th} : Rest'[u] = Rest[u]
<1>1. Rest' = [u \in Threads |-> IF ctx' = u /\ Records(Head(todo'[u])) THEN Tail(todo'[u]) ELSE todo'[u]]
  BY DEF Rest, Records
<1> QED  BY <1>1, RestFacts

LEMMA MetalSharedKeeps ==
  ASSUME MetalInv, NEW th \in Threads, SharedStep(th), UNCHANGED metal_state
  PROVE  MetalInv'
<1>f. /\ Discipline /\ MetalControl /\ (\A u \in Threads : HostReady(u, Pending))
      /\ (\A t \in Tensors \ gpu_used, c \in Pending : buffer[t] \notin Uses(c))
      /\ gpu_used \subseteq Tensors /\ InOrder(in_flight) /\ in_flight \in Seq(Batches)
  BY MetalFacts DEF MetalControl
<1>1. PICK ds \in Seq(CommandsOver(Buffers)) :
        /\ Commands(ds) = Pending /\ pool \cap Touched(ds) = {}
        /\ \A m : SettledIn(m, in_flight, cmds) = ExecAll(m, ds)
  BY MetalFlat
<1>2. PICK P : P = Pending
  OBVIOUS
<1>3. UNCHANGED <<in_flight, gpu_used, profiled, limits>> /\ \A u \in Threads : HostReady(u, P)
  BY <1>f, <1>2 DEF metal_state
<1>4. /\ Discipline' /\ UNCHANGED <<cmds, ctx, buffer>> /\ pool' \subseteq pool /\ Known' \subseteq Known \cup {None}
      /\ todo[th] # <<>> /\ Head(todo[th]).do \in {"defer", "host", "data", "alloc", "scratch"}
      /\ \A u \in Threads \ {th} : todo'[u] = todo[u]
      /\ \A u \in Threads : HostReady(u, P)'
  BY <1>f, <1>3, SharedStepKeeps
<1>5. ctx # th /\ ctx \in Threads \cup {None}
  BY <1>f, <1>4, NameFacts DEF MetalControl, Drains, Next1, Records, Discipline, DeviceTyped
<1>6. MetalControl'
  <2>1. ctx # None => todo'[ctx] = todo[ctx]
    BY <1>4, <1>5
  <2> QED  BY <1>f, <1>3, <1>4, <2>1, MetalControlStays
<1>7. MetalAgrees'
  <2>1. PICK R, R2, S, S2 : R = Rest /\ R2 = Rest' /\ S = ExecAll(mem, ds) /\ S2 = ExecAll(mem', ds)
    OBVIOUS
  <2>2. Agreement(R, S)
    BY <1>1, <2>1, MetalFacts
  <2>3. R[th] = todo[th] /\ R2[th] = todo'[th] /\ \A u \in Threads \ {th} : R2[u] = R[u]
    BY <1>4, <1>5, <2>1, RestMoves
  <2>4. ds \in Seq(CommandsOver(Buffers)) /\ pool \cap Touched(ds) = {} /\ HostReady(th, Commands(ds))
    BY <1>f, <1>1
  <2>5. Agreement(R2, S2)'
    BY <1>f, <1>3, <2>1, <2>2, <2>3, <2>4, SharedStepAgrees
  <2>6. S2 = SettledIn(mem', in_flight', cmds')
    BY <1>1, <1>3, <1>4, <2>1
  <2> QED  BY <2>1, <2>5, <2>6, MetalAgreesNow
<1>8. \A t \in Tensors \ gpu_used', c \in P : buffer'[t] \notin Uses(c)
  BY <1>f, <1>2, <1>3, <1>4
<1> QED  BY <1>2, <1>3, <1>4, <1>6, <1>7, <1>8, MetalKept

LEMMA MetalBeginKeeps ==
  ASSUME MetalInv, NEW th \in Threads, NEW d, NEW s, NEW p, Begin(th, d, s, p), Program(p, d, s),
         UNCHANGED metal_state
  PROVE  MetalInv'
<1>f. /\ Discipline /\ MetalControl /\ (\A u \in Threads : HostReady(u, Pending))
      /\ (\A t \in Tensors \ gpu_used, c \in Pending : buffer[t] \notin Uses(c))
      /\ gpu_used \subseteq Tensors /\ InOrder(in_flight) /\ in_flight \in Seq(Batches)
  BY MetalFacts DEF MetalControl
<1>2. PICK P : P = Pending
  OBVIOUS
<1>3. UNCHANGED <<in_flight, gpu_used, profiled, limits>> /\ \A u \in Threads : HostReady(u, P)
  BY <1>f, <1>2 DEF metal_state
<1>4. /\ Discipline' /\ UNCHANGED <<mem, cmds, ctx, bufs>> /\ Known' \subseteq Known
      /\ todo[th] = <<>> /\ (\A u \in Threads \ {th} : todo'[u] = todo[u]) /\ todo'[th] = p
      /\ \A u \in Threads : HostReady(u, P)'
  BY <1>f, <1>3, BeginKeeps
<1>5. ctx # th /\ ctx \in Threads \cup {None}
  BY <1>f, <1>4, NameFacts DEF MetalControl, Discipline, DeviceTyped
<1>6. MetalControl'
  <2>1. ctx # None => todo'[ctx] = todo[ctx]
    BY <1>4, <1>5
  <2> QED  BY <1>f, <1>3, <1>4, <2>1, MetalControlStays
<1>7. MetalAgrees'
  <2>1. PICK R, R2, S : R = Rest /\ R2 = Rest' /\ S = SettledIn(mem, in_flight, cmds)
    OBVIOUS
  <2>2. Agreement(R, S) /\ S \in [Buffers -> Contents]
    BY <2>1, MetalFacts
  <2>3. R2[th] = p /\ \A u \in Threads \ {th} : R2[u] = R[u]
    BY <1>4, <1>5, <2>1, RestMoves
  <2>4. Agreement(R2, S)'
    BY <1>f, <1>3, <2>2, <2>3, BeginAgrees
  <2>5. S = SettledIn(mem', in_flight', cmds')
    BY <1>3, <1>4, <2>1
  <2> QED  BY <2>1, <2>4, <2>5, MetalAgreesNow
<1>8. (\A t \in Tensors \ gpu_used', c \in P : buffer'[t] \notin Uses(c)) /\ pool' \subseteq pool
  BY <1>f, <1>2, <1>3, <1>4 DEF bufs
<1> QED  BY <1>2, <1>3, <1>4, <1>6, <1>7, <1>8, MetalKept

LEMMA MetalNewStorageKeeps ==
  ASSUME MetalInv, NEW t \in Tensors, NEW b \in Buffers, NEW v \in Contents, NewStorage(t, b, v),
         UNCHANGED metal_state
  PROVE  MetalInv'
<1>f. /\ Discipline /\ MetalControl /\ (\A u \in Threads : HostReady(u, Pending))
      /\ (\A x \in Tensors \ gpu_used, c \in Pending : buffer[x] \notin Uses(c))
      /\ (\A c \in Pending : Uses(c) \cap pool = {})
      /\ gpu_used \subseteq Tensors /\ InOrder(in_flight) /\ in_flight \in Seq(Batches)
  BY MetalFacts DEF MetalControl
<1>1. PICK ds \in Seq(CommandsOver(Buffers)) :
        /\ Commands(ds) = Pending /\ pool \cap Touched(ds) = {}
        /\ \A m : SettledIn(m, in_flight, cmds) = ExecAll(m, ds)
  BY MetalFlat
<1>2. PICK P : P = Pending
  OBVIOUS
<1>3. UNCHANGED <<in_flight, gpu_used, profiled, limits>> /\ \A u \in Threads : HostReady(u, P)
  BY <1>f, <1>2 DEF metal_state
<1>4. /\ Discipline' /\ UNCHANGED <<cmds, ctx, threads>> /\ pool' \subseteq pool
      /\ Known' \subseteq Known /\ b \in pool /\ buffer' = [buffer EXCEPT ![t] = b]
      /\ \A u \in Threads : HostReady(u, P)'
  BY <1>f, <1>3, NewStorageKeeps
<1>5. todo' = todo /\ ctx' = ctx /\ DOMAIN buffer = Tensors
  BY <1>f, <1>4 DEF threads, Discipline, DeviceTyped
<1>6. MetalControl'
  BY <1>f, <1>3, <1>4, <1>5, MetalControlStays
<1>7. MetalAgrees'
  <2>1. PICK R, S, S2 : R = Rest /\ S = ExecAll(mem, ds) /\ S2 = ExecAll(mem', ds)
    OBVIOUS
  <2>2. Agreement(R, S)
    BY <1>1, <2>1, MetalFacts
  <2>3. Agreement(R, S2)'
    BY <1>f, <1>1, <2>1, <2>2, NewStorageKeepsAgreement
  <2>4. S2 = SettledIn(mem', in_flight', cmds')
    BY <1>1, <1>3, <1>4, <2>1
  <2>5. R = Rest'
    BY <1>5, <2>1 DEF Rest
  <2> QED  BY <2>3, <2>4, <2>5, MetalAgreesNow
<1>8. ASSUME NEW x \in Tensors \ gpu_used', NEW c \in P PROVE buffer'[x] \notin Uses(c)
  <2>1. CASE x = t
    BY <1>f, <1>2, <1>4, <1>5, <2>1
  <2>2. CASE x # t
    BY <1>f, <1>2, <1>3, <1>4, <1>5, <2>2
  <2> QED  BY <2>1, <2>2
<1> QED  BY <1>2, <1>3, <1>4, <1>6, <1>7, <1>8, MetalKept

LEMMA MetalDropStorageKeeps ==
  ASSUME MetalInv, NEW t \in Tensors, DropStorage(t), gpu_used' = gpu_used \ {t},
         UNCHANGED <<in_flight, profiled, limits>>
  PROVE  MetalInv'
<1>f. /\ Discipline /\ MetalControl /\ (\A u \in Threads : HostReady(u, Pending))
      /\ (\A x \in Tensors \ gpu_used, c \in Pending : buffer[x] \notin Uses(c))
      /\ (\A c \in Pending : Uses(c) \subseteq Buffers)
      /\ gpu_used \subseteq Tensors /\ InOrder(in_flight) /\ in_flight \in Seq(Batches)
  BY MetalFacts, MetalFlat DEF MetalControl
<1>2. PICK P : P = Pending
  OBVIOUS
<1>3. \A u \in Threads : HostReady(u, P)
  BY <1>f, <1>2
<1>4. /\ Discipline' /\ UNCHANGED <<mem, cmds, ctx, pool, threads>> /\ Known' \subseteq Known \cup {None}
      /\ buffer' = [buffer EXCEPT ![t] = None] /\ ctx = None
      /\ \A u \in Threads : HostReady(u, P)'
  BY <1>f, <1>3, DropStorageKeeps
<1>5. todo' = todo /\ ctx' = ctx /\ DOMAIN buffer = Tensors
  BY <1>f, <1>4 DEF threads, Discipline, DeviceTyped
<1>6. MetalControl'
  BY <1>f, <1>4, <1>5, MetalControlStays
<1>7. MetalAgrees'
  <2>1. PICK R, S : R = Rest /\ S = SettledIn(mem, in_flight, cmds)
    OBVIOUS
  <2>2. Agreement(R, S)
    BY <2>1, MetalFacts
  <2>3. Agreement(R, S)'
    BY <1>f, <2>2, DropStorageAgrees
  <2>4. S = SettledIn(mem', in_flight', cmds')
    BY <1>4, <2>1
  <2>5. R = Rest'
    BY <1>5, <2>1 DEF Rest
  <2> QED  BY <2>3, <2>4, <2>5, MetalAgreesNow
<1>8. ASSUME NEW x \in Tensors \ gpu_used', NEW c \in P PROVE buffer'[x] \notin Uses(c)
  <2>1. CASE x = t
    BY <1>f, <1>2, <1>4, <1>5, <2>1, NameFacts
  <2>2. CASE x # t
    BY <1>f, <1>2, <1>4, <1>5, <2>2
  <2> QED  BY <2>1, <2>2
<1> QED  BY <1>2, <1>3, <1>4, <1>6, <1>7, <1>8, MetalKept

LEMMA MetalStutterKeeps ==
  ASSUME MetalInv, UNCHANGED metal_vars
  PROVE  MetalInv'
<1>f. /\ Discipline /\ MetalControl /\ (\A u \in Threads : HostReady(u, Pending))
      /\ (\A t \in Tensors \ gpu_used, c \in Pending : buffer[t] \notin Uses(c))
      /\ gpu_used \subseteq Tensors /\ InOrder(in_flight) /\ in_flight \in Seq(Batches)
      /\ DeviceTyped /\ (\A k \in Keys : Place[k] \notin free_bufs \cup pool) /\ free_bufs \cap pool = {}
  BY MetalFacts DEF MetalControl
<1>1. /\ UNCHANGED <<eager, threads, buffer>>
      /\ UNCHANGED <<mem, cmds, ctx, free_bufs, pool, buffer, todo, val, op, profiled, in_flight, gpu_used, limits>>
  BY DEF metal_vars, shared, bufs, threads, eager
<1>2. PICK P : P = Pending
  OBVIOUS
<1>3. Discipline' /\ PlacesBut({})
  <2>1. DeviceTyped'
    BY <1>f, <1>1 DEF DeviceTyped
  <2> QED  BY <1>f, <1>1, <2>1, StayDisciplined
<1>4. MetalControl'
  BY <1>f, <1>1, MetalControlStays
<1>5. Known' \subseteq Known \cup {None}
  BY <1>1, <1>3, KnownNow DEF Known
<1>6. MetalAgrees'
  <2>1. PICK R, S : R = Rest /\ S = SettledIn(mem, in_flight, cmds)
    OBVIOUS
  <2>2. Agreement(R, S)
    BY <2>1, MetalFacts
  <2>3. Agreement(R, S)'
    BY <1>1, <2>2, StayAgrees
  <2>4. R = Rest' /\ S = SettledIn(mem', in_flight', cmds')
    BY <1>1, <2>1 DEF Rest
  <2> QED  BY <2>3, <2>4, MetalAgreesNow
<1>7. ASSUME NEW u \in Threads PROVE HostReady(u, P)'
  <2>1. HostReady(u, P)
    BY <1>f, <1>2
  <2> QED  BY <1>f, <1>1, <2>1, HostStays
<1>8. \A t \in Tensors \ gpu_used', c \in P : buffer'[t] \notin Uses(c)
  BY <1>f, <1>1, <1>2
<1> QED  BY <1>1, <1>2, <1>3, <1>4, <1>5, <1>6, <1>7, <1>8, MetalKept

LEMMA MetalInitHolds == MetalInit => MetalInv
<1> SUFFICES ASSUME MetalInit PROVE MetalInv
  OBVIOUS
<1>1. SharedInit /\ in_flight = <<>> /\ gpu_used = {} /\ limits \in Limits
  BY DEF MetalInit
<1>2. Discipline
  BY <1>1, InitDisciplined
<1>3. /\ cmds = <<>> /\ ctx = None /\ \A th \in Threads : todo[th] = <<>> /\ op[th].dst = None
      /\ \A t \in Tensors : ~Live(t)
  BY <1>1 DEF SharedInit, EagerInit, Live, NoOp
<1>4. Pending = {} /\ DOMAIN in_flight = {} /\ in_flight \in Seq(Batches) /\ Len(in_flight) = 0 /\ Len(cmds) = 0
  BY <1>1, <1>3, PendingOfNone DEF Pending
<1>5. MetalControl
  <2>1. SubmitChunk \in Nat /\ SubmitChunk # 0 /\ MaxInFlight \in Nat
    BY <1>1, LimitFacts
  <2>2. Len(cmds) < SubmitChunk /\ Len(in_flight) <= MaxInFlight + 1 /\ Len(in_flight) <= MaxInFlight
    BY <1>4, <2>1
  <2> QED  BY <1>1, <1>3, <1>4, <2>2 DEF MetalControl, InOrder
<1>6. MetalPoolIsIdle
  BY <1>3, <1>4, CommandLists DEF MetalPoolIsIdle
<1>7. FreedLast /\ Unmarked
  BY <1>4 DEF FreedLast, Sealed, Unmarked
<1>8. MetalAgrees
  BY <1>3 DEF MetalAgrees, Agreement, Settles, Due, Intact
<1>9. MetalReady
  BY <1>3 DEF MetalReady, HostReady, Next1
<1> QED  BY <1>2, <1>5, <1>6, <1>7, <1>8, <1>9 DEF MetalInv

LEMMA MetalNextKeeps ==
  ASSUME MetalInv, MetalNext
  PROVE  MetalInv'
<1>1. CASE MetalExecute
  BY <1>1, MetalExecuteKeeps
<1>2. ASSUME NEW t \in Tensors, MetalStorage(t) PROVE MetalInv'
  <2>1. UNCHANGED <<in_flight, profiled, limits>>
    BY <1>2 DEF MetalStorage
  <2>2. CASE DropStorage(t) /\ gpu_used' = gpu_used \ {t}
    BY <2>1, <2>2, MetalDropStorageKeeps
  <2>3. ASSUME NEW b \in Buffers, AllocUninit(t, b), gpu_used' = gpu_used PROVE MetalInv'
    BY <2>1, <2>3, MetalNewStorageKeeps DEF AllocUninit, metal_state
  <2>4. ASSUME NEW b \in Buffers, NEW v \in Inputs, FromVec(t, b, v), gpu_used' = gpu_used PROVE MetalInv'
    <3>1. v \in Contents
      BY NameFacts
    <3> QED  BY <2>1, <2>4, <3>1, MetalNewStorageKeeps DEF FromVec, metal_state
  <2> QED  BY <1>2, <2>2, <2>3, <2>4 DEF MetalStorage
<1>3. ASSUME NEW th \in Threads, MetalStart(th) PROVE MetalInv'
  <2>1. UNCHANGED metal_state
    BY <1>3 DEF MetalStart
  <2>2. ASSUME NEW p \in Metal!synchronize, Begin(th, None, None, p) PROVE MetalInv'
    BY <2>1, <2>2, MetalPrograms, MetalBeginKeeps
  <2>3. ASSUME NEW t \in Tensors, NEW p \in Metal!data(t), Begin(th, None, t, p) PROVE MetalInv'
    BY <2>1, <2>3, MetalPrograms, MetalBeginKeeps
  <2>4. ASSUME NEW t \in Tensors, NEW p \in Metal!AlonePrograms[t], Begin(th, t, None, p) PROVE MetalInv'
    BY <2>1, <2>4, MetalPrograms, MetalBeginKeeps
  <2>5. ASSUME NEW t \in Tensors, NEW s \in Tensors \ {t}, NEW p \in Metal!PairPrograms[t][s], Begin(th, t, s, p)
        PROVE  MetalInv'
    <3>1. p # <<>>
      BY <2>5 DEF Begin
    <3>2. Program(p, t, s)
      BY <2>5, <3>1, MetalPrograms
    <3> QED  BY <2>1, <2>5, <3>2, MetalBeginKeeps
  <2> QED  BY <1>3, <2>2, <2>3, <2>4, <2>5 DEF MetalStart
<1>4. ASSUME NEW th \in Threads, MetalProceed(th) PROVE MetalInv'
  <2>1. CASE MetalRecord(th)
    BY <2>1, MetalRecordKeeps
  <2>2. CASE FlushCommit(th)
    BY <2>2, MetalFlushCommitKeeps
  <2>3. CASE SkipFlush(th)
    BY <2>3, MetalSkipFlushKeeps
  <2>4. CASE FlushDone(th) \/ Backpressure(th)
    BY <2>4, MetalWaitKeeps
  <2>5. CASE UNCHANGED metal_state /\ SharedStep(th)
    BY <2>5, MetalSharedKeeps
  <2> QED  BY <1>4, <2>1, <2>2, <2>3, <2>4, <2>5 DEF MetalProceed, SharedStep
<1>5. ASSUME NEW th \in Threads, MetalFails(th) PROVE MetalInv'
  BY <1>5, MetalSharedKeeps DEF MetalFails, SharedStep
<1> QED  BY <1>1, <1>2, <1>3, <1>4, <1>5 DEF MetalNext

-----------------------------------------------------------------------------
(* Either backend                                                          *)

IInv == backend \in {"vulkan", "metal"} /\ IF backend = "vulkan" THEN VulkanInv ELSE MetalInv

(* The inductive invariant of both backends holds of every state: the      *)
(* locks and the pools keep every buffer in one place, a readback follows  *)
(* its flush, and once every recorded command has run, memory holds what   *)
(* eager execution gives the storages, and gives what is left of each      *)
(* operation the operands it needs.                                        *)
THEOREM InvariantHolds == Spec => []IInv
<1>1. Init => IInv
  BY VulkanInitHolds, MetalInitHolds DEF Init, IInv
<1>2. IInv /\ [Next]_vars => IInv'
  <2> SUFFICES ASSUME IInv, [Next]_vars PROVE IInv'
    OBVIOUS
  <2>1. backend' = backend /\ backend \in {"vulkan", "metal"}
    BY DEF IInv, Next, vars
  <2>2. CASE backend = "vulkan"
    <3>1. VulkanInv /\ (VulkanNext \/ UNCHANGED vulkan_vars)
      BY <2>2 DEF IInv, Next, vars
    <3>2. VulkanInv'
      BY <3>1, VulkanNextKeeps, VulkanStutterKeeps
    <3> QED  BY <2>1, <2>2, <3>2 DEF IInv
  <2>3. CASE backend = "metal"
    <3>1. MetalInv /\ (MetalNext \/ UNCHANGED metal_vars)
      BY <2>3 DEF IInv, Next, vars
    <3>2. MetalInv'
      BY <3>1, MetalNextKeeps, MetalStutterKeeps
    <3> QED  BY <2>1, <2>3, <3>2 DEF IInv
  <2> QED  BY <2>1, <2>2, <2>3
<1> QED  BY <1>1, <1>2, PTL DEF Spec

LEMMA InvariantFacts ==
  ASSUME IInv
  PROVE  TypeOK /\ PoolIsIdle /\ AsIfEager
<1>1. CASE backend = "vulkan"
  BY <1>1, VulkanHolds DEF IInv, TypeOK, PoolIsIdle, AsIfEager
<1>2. CASE backend # "vulkan"
  BY <1>2, MetalHolds DEF IInv, TypeOK, PoolIsIdle, AsIfEager
<1> QED  BY <1>1, <1>2

(* The state of a backend over host-visible memory (Context, OpCtx,        *)
(* BufferPool, Storage) has the types and the bounds its module states.    *)
THEOREM UnifiedMemoryTyped == Spec => []TypeOK
<1>1. IInv => TypeOK
  BY InvariantFacts
<1> QED  BY <1>1, InvariantHolds, PTL

(* No buffer that alloc_buffer may hand out is known to a command that has *)
(* not run: Vulkan recycles freed buffers only when a batch has been       *)
(* flushed, Metal with the batch they were freed in.                       *)
THEOREM UnifiedPoolIsIdle == Spec => []PoolIsIdle
<1>1. IInv => PoolIsIdle
  BY InvariantFacts
<1> QED  BY <1>1, InvariantHolds, PTL

(* Batching, commits without waiting, recycled buffers and host access     *)
(* without a flush are invisible: whatever the number of threads, storages *)
(* and buffers and the sizes of the batches, once what is recorded has run *)
(* every storage no operation is writing holds what eager execution gave   *)
(* it, and what a readback copies out is right.                            *)
THEOREM UnifiedAsIfEager == Spec => []AsIfEager
<1>1. IInv => AsIfEager
  BY InvariantFacts
<1> QED  BY <1>1, InvariantHolds, PTL
=============================================================================
