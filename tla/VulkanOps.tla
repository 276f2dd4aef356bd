----------------------------- MODULE VulkanOps -----------------------------
(***************************************************************************)
(* The operations of the Backend trait as the Vulkan backend carries them  *)
(* out (vulkan_backend/backend_impl.rs): for each, the sequences of steps  *)
(* it may make. Which one depends on the dtype (a kernel exists for it or  *)
(* the host computes), on the shape and on the parameters.                 *)
(***************************************************************************)
EXTENDS DeviceOps

OnGpu(c)  == <<Dispatch(c)>>
OnHost(c) == <<Flush, Host(c)>>
Anywhere(c) == {OnGpu(c), OnHost(c)}

synchronize == {<<Flush>>}
data(s) == {<<Flush, Data(s)>>}

fill(d, v) == Anywhere(Fill(d, v))

(* Host values go through a buffer no command knows yet: no flush.         *)
rand_uniform(d, v) == {<<Scratch(X, v), Record(Copy(d, X)), Defer(X)>>}
randn(d, v)        == {<<Scratch(X, v), Record(Copy(d, X)), Defer(X)>>}

copy(d, s) == {<<Record(Copy(d, s))>>}
to_dtype(d, s) == copy(d, s) \cup Anywhere(Copy(d, s))

inplace_unary(d) == {OnGpu(Accum(d, d))}
unary(d, s)      == {OnGpu(Copy(d, s))}
bin_assign(d, s) == Anywhere(Accum(d, s))
binary(d, s)     == Anywhere(Copy(d, s))
scale_add(d, s)  == copy(d, s) \cup Anywhere(Copy(d, s))

transpose(d, s)    == copy(d, s) \cup Anywhere(Copy(d, s))
copy2d(d, s)       == {<<>>} \cup Anywhere(Accum(d, s))
index_select(d, s) == Anywhere(Copy(d, s))
scatter_set(d, s)  == {<<>>} \cup Anywhere(Accum(d, s))

rope(d, s)   == {OnGpu(Copy(d, s))}
rope_i(d, s) == {OnGpu(Copy(d, s))}
gemm(d, s)   == {OnGpu(Copy(d, s))}
apply_causality_mask(d) == {OnGpu(Accum(d, d))}
softmax(d, s)    == {OnGpu(Copy(d, s))}
rms_norm(d, s)   == {OnGpu(Copy(d, s))}
layer_norm(d, s) == {OnGpu(Copy(d, s))}

reduce(d, s)     == {<<>>, OnGpu(Copy(d, s))}
reduce_arg(d, s) == {<<>>, OnGpu(Copy(d, s))}

(* dims and strides reach the kernel in a scratch buffer, deferred once    *)
(* the dispatch that reads it is recorded, whether or not that succeeded.  *)
CopyStridedDefersFirst(d, s) ==
  {<<Scratch(X, 1), Defer(X), Dispatch(Merge(d, s, X))>>}
copy_strided(d, s) ==
  {<<>>, <<Scratch(X, 1), Dispatch(Merge(d, s, X)), Defer(X)>>, OnHost(Accum(d, s))}
broadcast_binary(d, s) ==
  {<<>>, <<Scratch(X, 1), Dispatch(Merge(d, s, X)), Defer(X)>>, OnHost(Copy(d, s))}

conv1d_im2col(d, s) ==
  {<<Alloc(X), Dispatch(Copy(X, s)), Alloc(Y), Dispatch(Copy(Y, X)), Dispatch(Copy(d, Y)),
     Defer(Y), Defer(X)>>}
conv1d(d, s) == conv1d_im2col(d, s) \cup {OnGpu(Copy(d, s))}

conv_transpose1d_col2im(d, s) ==
  {<<Alloc(X), Dispatch(Copy(X, s)), Alloc(Y), Dispatch(Copy(Y, X)), Dispatch(Copy(d, Y)),
     Defer(Y), Defer(X)>>}
conv_transpose1d(d, s) == conv_transpose1d_col2im(d, s) \cup {OnGpu(Copy(d, s))}

-----------------------------------------------------------------------------
(* All the sequences on an output alone, and on an output and an input.    *)
AlonePrograms ==
  [d \in Tensors |->
     (UNION {fill(d, v) \cup rand_uniform(d, v) \cup randn(d, v) : v \in Inputs})
       \cup inplace_unary(d) \cup apply_causality_mask(d)]
PairPrograms ==
  [d \in Tensors |-> [s \in Tensors |->
     UNION {copy(d, s), to_dtype(d, s), unary(d, s), bin_assign(d, s), binary(d, s),
            scale_add(d, s), transpose(d, s), copy2d(d, s), rope(d, s), rope_i(d, s),
            gemm(d, s), index_select(d, s), softmax(d, s), rms_norm(d, s), layer_norm(d, s),
            reduce(d, s), reduce_arg(d, s), copy_strided(d, s), scatter_set(d, s),
            broadcast_binary(d, s), conv1d(d, s), conv_transpose1d(d, s)}]]

=============================================================================
