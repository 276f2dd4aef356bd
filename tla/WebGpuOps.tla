----------------------------- MODULE WebGpuOps -----------------------------
(***************************************************************************)
(* The operations of the Backend trait as the WebGPU backend carries them  *)
(* out (webgpu_backend/backend_impl.rs): for each, the sequences of steps  *)
(* it may make. There are kernels for f32 only; for other types most       *)
(* operations read their operands back, compute on the host and upload.    *)
(* The temporaries of an operation are storages, created and dropped; an   *)
(* operation with several inputs names one of them, and a kernel's output  *)
(* depends on what it held, so that a lost or a late write shows.          *)
(***************************************************************************)
EXTENDS EagerStore

CONSTANT Inputs      (* contents that uploads and fills bring in           *)

Do(do, c) == [do |-> do, cmd |-> c]
New(x)         == Do("new", Fill(x, 0))       (* alloc_uninit, from_vec  *)
Drop(x)        == Do("drop", Fill(x, 0))
RunKernel(d, s) == Do("dispatch", Accum(d, s))
CopyTo(d, s) == Do("copy", Copy(d, s))
Upload(d, v)   == Do("upload", Fill(d, v))    (* flush, then write_buffer_data *)
Compute(c)     == Do("compute", c)            (* to_host, then write_buffer_data *)
ToHost(s)    == Do("read", Fill(s, 0))
Wait          == Do("flush", Fill(None, 0))

Copied(d, s)   == {<<CopyTo(d, s)>>}
OnGpu(d, s)    == {<<RunKernel(d, s)>>}
OnHost(d, s)   == {<<Compute(Copy(d, s))>>}     (* overwrites the output   *)
InPlaceOnHost(d, s) == {<<ToHost(d), Compute(Accum(d, s))>>}
Anywhere(d, s) == OnGpu(d, s) \cup OnHost(d, s)

(* dims and strides in a scratch buffer that this kernel alone reads.      *)
Described(d) == {<<New(x), RunKernel(d, x), Drop(x)>> : x \in Tensors \ {d}}

-----------------------------------------------------------------------------
synchronize == {<<Wait>>}
data(s) == {<<ToHost(s)>>}

fill(d, v) == {<<Do("dispatch", Fill(d, v))>>, <<Upload(d, v)>>}
rand_uniform(d, v) == {<<Upload(d, v)>>}
randn(d, v)        == {<<Upload(d, v)>>}

copy(d, s)     == Copied(d, s)
to_dtype(d, s) == Copied(d, s) \cup OnHost(d, s)

inplace_unary(d) == OnGpu(d, d)
unary(d, s)      == OnGpu(d, s)
bin_assign(d, s) == OnGpu(d, s) \cup InPlaceOnHost(d, s)
binary(d, s)     == Anywhere(d, s)
scale_add(d, s)  == copy(d, s) \cup Anywhere(d, s)

transpose(d, s)    == copy(d, s) \cup Anywhere(d, s)
copy2d(d, s)       == {<<>>} \cup OnGpu(d, s) \cup InPlaceOnHost(d, s)
index_select(d, s) == Anywhere(d, s)
scatter_set(d, s)  == {<<>>} \cup OnGpu(d, s) \cup InPlaceOnHost(d, s)

rope(d, s)   == OnGpu(d, s)
rope_i(d, s) == OnGpu(d, s)
gemm(d, s)   == OnGpu(d, s)
apply_causality_mask(d) == OnGpu(d, d)
softmax(d, s)    == OnGpu(d, s)
rms_norm(d, s)   == OnGpu(d, s)
layer_norm(d, s) == OnGpu(d, s)

reduce(d, s)     == {<<>>} \cup OnGpu(d, s)
reduce_arg(d, s) == {<<>>} \cup OnGpu(d, s)

copy_strided(d, s)     == {<<>>} \cup Anywhere(d, s) \cup Described(d)
broadcast_binary(d, s) == {<<>>} \cup Anywhere(d, s) \cup Described(d)

(* A transposition of f32: copied when all dimensions but one are 1.       *)
Transposed(d, s) == {RunKernel(d, s), CopyTo(d, s)}

conv1d_im2col(d, s) ==
  UNION {{<<New(x), RunKernel(x, s), New(y), RunKernel(y, x), last, Drop(y), Drop(x)>> :
            last \in Transposed(d, y)} : x, y \in Tensors \ {d}}
conv1d(d, s) == conv1d_im2col(d, s) \cup OnGpu(d, s)

conv_transpose1d_col2im(d, s) ==
  UNION {{<<New(x), first, New(y), RunKernel(y, x), RunKernel(d, y), Drop(y), Drop(x)>> :
            first \in Transposed(x, s)} : x, y \in Tensors \ {d}}
conv_transpose1d(d, s) == conv_transpose1d_col2im(d, s) \cup OnGpu(d, s)

-----------------------------------------------------------------------------
AlonePrograms(d) ==
  (UNION {fill(d, v) \cup rand_uniform(d, v) \cup randn(d, v) : v \in Inputs})
    \cup inplace_unary(d) \cup apply_causality_mask(d)
PairPrograms(d, s) ==
  UNION {copy(d, s), to_dtype(d, s), unary(d, s), bin_assign(d, s), binary(d, s),
         scale_add(d, s), transpose(d, s), copy2d(d, s), rope(d, s), rope_i(d, s),
         gemm(d, s), index_select(d, s), softmax(d, s), rms_norm(d, s), layer_norm(d, s),
         reduce(d, s), reduce_arg(d, s), copy_strided(d, s), scatter_set(d, s),
         broadcast_binary(d, s), conv1d(d, s), conv_transpose1d(d, s)}

(* The steps of operations that write d.                                   *)
StepsOn ==
  [d \in Tensors |->
     LET programs == AlonePrograms(d) \cup UNION {PairPrograms(d, s) : s \in Tensors \ {d}}
     IN {c \in UNION {ToSet(p) : p \in programs} : c.cmd.dst = d}]

=============================================================================
