------------------------------ MODULE MetalOps ------------------------------
(***************************************************************************)
(* The operations of the Backend trait as the Metal backend carries them   *)
(* out (metal_backend/backend_impl.rs). Nearly all of them record one      *)
(* command, whatever the dtype; the host touches a storage without a       *)
(* flush as long as no recorded command has named it.                      *)
(***************************************************************************)
EXTENDS DeviceOps

OnGpu(c)  == <<Dispatch(c)>>
OnHost(c) == <<FlushIfUsed(c.dst), Host(c)>>

synchronize == {<<Flush>>}
data(s) == {<<FlushIfUsed(s), Data(s)>>}

(* A value whose bytes are all equal is filled in by the GPU.              *)
fill(d, v) == {<<Record(Fill(d, v))>>, OnHost(Fill(d, v))}
rand_uniform(d, v) == {OnHost(Fill(d, v))}
randn(d, v)        == {OnHost(Fill(d, v))}

copy(d, s) == {<<Record(Copy(d, s))>>}
to_dtype(d, s) == copy(d, s) \cup {OnGpu(Copy(d, s))}

inplace_unary(d) == {OnGpu(Accum(d, d))}
unary(d, s)      == {OnGpu(Copy(d, s))}
bin_assign(d, s) == {OnGpu(Accum(d, s))}
binary(d, s)     == {OnGpu(Copy(d, s))}

(* The host path drains whatever was used: it reads the input, too.        *)
scale_add(d, s) ==
  copy(d, s) \cup {OnGpu(Copy(d, s)), <<Flush, Host(Copy(d, s))>>}

transpose(d, s)    == copy(d, s) \cup {OnGpu(Copy(d, s))}
copy2d(d, s)       == {<<>>, OnGpu(Accum(d, s))}
index_select(d, s) == {OnGpu(Copy(d, s))}
scatter_set(d, s)  == {<<>>, OnGpu(Accum(d, s))}

rope(d, s)   == {OnGpu(Copy(d, s))}
rope_i(d, s) == {OnGpu(Copy(d, s))}
gemm(d, s)   == {OnGpu(Copy(d, s))}
apply_causality_mask(d) == {OnGpu(Accum(d, d))}
softmax(d, s)    == {OnGpu(Copy(d, s))}
rms_norm(d, s)   == {OnGpu(Copy(d, s))}
layer_norm(d, s) == {OnGpu(Copy(d, s))}

reduce(d, s)     == {<<>>, OnGpu(Copy(d, s))}
reduce_arg(d, s) == {<<>>, OnGpu(Copy(d, s))}

copy_strided(d, s) ==
  {<<>>, <<Scratch(X, 1), Dispatch(Merge(d, s, X)), Defer(X)>>}
broadcast_binary(d, s) ==
  {<<>>, <<Scratch(X, 1), Dispatch(Merge(d, s, X)), Defer(X)>>}

conv1d_im2col(d, s) ==
  {<<Alloc(X), Dispatch(Copy(X, s)), Alloc(Y), Dispatch(Copy(Y, X)), Dispatch(Copy(d, Y)),
     Defer(Y), Defer(X)>>}
conv1d(d, s) == conv1d_im2col(d, s) \cup {OnGpu(Copy(d, s))}

conv_transpose1d_col2im(d, s) ==
  {<<Alloc(X), Dispatch(Copy(X, s)), Alloc(Y), Dispatch(Copy(Y, X)), Dispatch(Copy(d, Y)),
     Defer(Y), Defer(X)>>}
conv_transpose1d(d, s) == conv_transpose1d_col2im(d, s) \cup {OnGpu(Copy(d, s))}

-----------------------------------------------------------------------------
(* All the sequences on an output alone, and on an output and an input.    *)
AlonePrograms ==
  [d \in Tensors |->
     (UNION {fill(d, v) \cup rand_uniform(d, v) \cup randn(d, v) : v \in Inputs})
       \cup inplace_unary(d) \cup apply_causality_mask(d)]
PairPrograms ==
  [d \in Tensors |-> [s \in Tensors |->
     UNION {copy(d, s), to_dtype(d, s), unary(d, s), bin_assign(d, s), binary(d, s),
            scale_add(d, s), transpose(d, s), copy2d(d, s), rope(d, s), rope_i(d, s),
            gemm(d, s), index_select(d, s), softmax(d, s), rms_norm(d, s), layer_norm(d, s),
            reduce(d, s), reduce_arg(d, s), copy_strided(d, s), scatter_set(d, s),
            broadcast_binary(d, s), conv1d(d, s), conv_transpose1d(d, s)}]]

=============================================================================
