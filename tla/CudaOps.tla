------------------------------ MODULE CudaOps ------------------------------
(***************************************************************************)
(* The operations of the Backend trait as the CUDA backend carries them    *)
(* out (cuda_backend/mod.rs): for each, the sequences of steps it may make *)
(* on the device's one stream. Descriptors of shapes and strides, and the  *)
(* contents of new tensors, are uploaded from the host; all else is        *)
(* launched. Left out: the kernels' arithmetic, loading their modules, and *)
(* launches that fail.                                                     *)
(***************************************************************************)
EXTENDS EagerStore

CONSTANTS
  Inputs,      (* contents that uploads and fills bring in                 *)
  X, Y         (* names of the temporaries inside an operation             *)

Step(do, c)  == [do |-> do, cmd |-> c]
Launch(c)    == Step("launch", c)          (* a kernel, or a copy on the device *)
Upload(x, v) == Step("upload", Fill(x, v))      (* Device::cached_htod          *)
HostCopy(x, v) == Step("hostcopy", Fill(x, v))  (* CudaStream::clone_htod       *)
Wait(s)      == Step("wait", Fill(s, 0))   (* the host waits for the stream     *)

OnGpu(c) == {<<Launch(c)>>}
(* The kernel reads dims and strides from the device.                      *)
Described(d, s) == {<<Upload(X, v), Launch(Merge(d, s, X))>> : v \in Inputs}

synchronize == {<<Wait(None)>>}
data(s) == {<<Wait(s)>>}

(* A tensor made from host values and then copied into one that exists,    *)
(* the way the inputs of a captured graph are refreshed.                   *)
from_vec(d) == {<<Upload(X, v), Launch(Copy(d, X))>> : v \in Inputs}

fill(d, v)         == {<<>>} \cup OnGpu(Fill(d, v))
rand_uniform(d, v) == OnGpu(Fill(d, v)) \cup {<<Launch(Fill(d, v)), Launch(Accum(d, d))>>}
randn(d, v)        == OnGpu(Fill(d, v))

copy(d, s)     == OnGpu(Copy(d, s))
to_dtype(d, s) == OnGpu(Copy(d, s))

inplace_unary(d) == OnGpu(Accum(d, d))
unary(d, s)      == OnGpu(Copy(d, s))
bin_assign(d, s) == OnGpu(Accum(d, s))
binary(d, s)     == OnGpu(Copy(d, s))
scale_add(d, s)  == copy(d, s) \cup OnGpu(Copy(d, s))

transpose(d, s)    == OnGpu(Copy(d, s))
copy2d(d, s)       == {<<>>} \cup OnGpu(Accum(d, s))
index_select(d, s) == {<<>>} \cup OnGpu(Copy(d, s))
scatter_set(d, s)  == OnGpu(Accum(d, s))

rope(d, s)   == OnGpu(Copy(d, s))
rope_i(d, s) == OnGpu(Copy(d, s))
gemm(d, s)   == OnGpu(Copy(d, s))
apply_causality_mask(d) == OnGpu(Accum(d, d))
softmax(d, s)    == OnGpu(Copy(d, s))
rms_norm(d, s)   == OnGpu(Copy(d, s))
layer_norm(d, s) == OnGpu(Copy(d, s))

reduce_max(d, s)    == Described(d, s)
reduce_min(d, s)    == Described(d, s)
reduce_sum(d, s)    == Described(d, s)
reduce_argmin(d, s) == Described(d, s)
reduce_argmax(d, s) == Described(d, s)

(* Rows with the last dimension contiguous, and operands that repeat along *)
(* one dimension, have kernels that need no descriptor.                    *)
copy_strided(d, s)     == {<<>>} \cup OnGpu(Copy(d, s)) \cup Described(d, s)
broadcast_binary(d, s) == {<<>>} \cup OnGpu(Copy(d, s)) \cup Described(d, s)

conv1d_im2col(d, s) ==
  {<<Launch(Copy(X, s)), Launch(Copy(Y, X)), Launch(Copy(d, Y))>>}
conv1d_direct(d, s) == OnGpu(Copy(d, s))
conv1d(d, s) == conv1d_im2col(d, s) \cup conv1d_direct(d, s)

conv_transpose1d_col2im(d, s) ==
  {<<Launch(Copy(X, s)), Launch(Copy(Y, X)), Launch(Copy(d, Y))>>}
conv_transpose1d_direct(d, s) == OnGpu(Copy(d, s))
conv_transpose1d(d, s) == conv_transpose1d_col2im(d, s) \cup conv_transpose1d_direct(d, s)

(* A zero to reduce into, the reduction, and the pass that uses the scale. *)
quantize_fp8(d, s) ==
  {<<HostCopy(X, 0), Launch(Accum(X, s)), Launch(Merge(d, s, X))>>}

-----------------------------------------------------------------------------
(* All the sequences on an output alone, and on an output and an input.    *)
AlonePrograms ==
  [d \in Tensors |->
     (UNION {fill(d, v) \cup rand_uniform(d, v) \cup randn(d, v) : v \in Inputs})
       \cup from_vec(d) \cup inplace_unary(d) \cup apply_causality_mask(d)]
PairPrograms ==
  [d \in Tensors |-> [s \in Tensors |->
     UNION {copy(d, s), to_dtype(d, s), unary(d, s), bin_assign(d, s), binary(d, s),
            scale_add(d, s), transpose(d, s), copy2d(d, s), rope(d, s), rope_i(d, s),
            gemm(d, s), index_select(d, s), softmax(d, s), rms_norm(d, s), layer_norm(d, s),
            reduce_max(d, s), reduce_min(d, s), reduce_sum(d, s), reduce_argmin(d, s),
            reduce_argmax(d, s), copy_strided(d, s), scatter_set(d, s),
            broadcast_binary(d, s), conv1d(d, s), conv_transpose1d(d, s)}]]

=============================================================================
