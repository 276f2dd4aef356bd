------------------------------ MODULE TensorOps ------------------------------
(***************************************************************************)
(* The locks that the operations on tensors take (xn-core/src/tensor.rs,   *)
(* ops.rs, inplace_ops.rs, tensor_view.rs), in the order they take them.   *)
(* A tensor is the storage it shares: clones, reshapes and views of it are *)
(* the same here. The result of an out-of-place operation is a storage of  *)
(* its own that nobody else can lock yet, so its lock is left out. An      *)
(* operation that refuses its operands (check_not_same_storage, Arc::      *)
(* ptr_eq, same_storage) takes no lock. Guards are dropped at the end,     *)
(* except where Drop says that those taken so far go before the next lock. *)
(***************************************************************************)
EXTENDS Sequences, SequencesExt

Lock(mode, s) == [mode |-> mode, on |-> s]
Read(s) == Lock("read", s)
Write(s) == Lock("write", s)
Drop == [mode |-> "drop"]

(* Tensor::check_not_same_storage of dst against every tensor of others.   *)
Checked(dst, others, locks) == IF dst \in others THEN <<>> ELSE locks

-----------------------------------------------------------------------------
(* In place: the target's write lock first, then the operands' read locks. *)

inplace_binary(dst, src) == Checked(dst, {src}, <<Write(dst), Read(src)>>)
binary_(dst, lhs, rhs) ==
  Checked(dst, {lhs, rhs}, <<Write(dst), Read(lhs), Read(rhs)>>)
broadcast_binary_(dst, lhs, rhs) ==
  Checked(dst, {lhs, rhs}, <<Write(dst), Read(lhs), Read(rhs)>>)

to_dtype_(dst, src) == <<Write(dst), Read(src)>>
transpose_(dst, src) == Checked(dst, {src}, <<Write(dst), Read(src)>>)
copy_(dst, src) == Checked(dst, {src}, <<Write(dst), Read(src)>>)
scale_add_(dst, src) == Checked(dst, {src}, <<Write(dst), Read(src)>>)
unary_(dst, src) == Checked(dst, {src}, <<Write(dst), Read(src)>>)
softmax_(dst, src) == Checked(dst, {src}, <<Write(dst), Read(src)>>)
reduce_max_(dst, src) == Checked(dst, {src}, <<Write(dst), Read(src)>>)
reduce_min_(dst, src) == Checked(dst, {src}, <<Write(dst), Read(src)>>)
reduce_sum_(dst, src) == Checked(dst, {src}, <<Write(dst), Read(src)>>)
reduce_argmin_(dst, src) == <<Write(dst), Read(src)>>
reduce_argmax_(dst, src) == <<Write(dst), Read(src)>>

fill_(dst) == <<Write(dst)>>
randn_(dst) == <<Write(dst)>>
rand_uniform_(dst) == <<Write(dst)>>
apply_causality_mask_(dst) == <<Write(dst)>>

rms_norm_(dst, src, alpha) ==
  Checked(dst, {src, alpha}, <<Write(dst), Read(src), Read(alpha)>>)
layer_norm_(dst, src, weight, bias) ==
  Checked(dst, {src, weight, bias},
          <<Write(dst), Read(src), Read(weight), Read(bias)>>)
rope_(dst, src, cos, sin) ==
  Checked(dst, {src, cos, sin}, <<Write(dst), Read(src), Read(cos), Read(sin)>>)
rope_i_(dst, src, cos, sin) ==
  Checked(dst, {src, cos, sin}, <<Write(dst), Read(src), Read(cos), Read(sin)>>)
conv1d_(dst, src, kernel) ==
  Checked(dst, {src, kernel}, <<Write(dst), Read(src), Read(kernel)>>)
conv_transpose1d_(dst, src, kernel) ==
  Checked(dst, {src, kernel}, <<Write(dst), Read(src), Read(kernel)>>)

(* The copy of an operand whose batch dimensions one stride cannot walk.   *)
contiguous_copy(src) == <<Read(src), Drop>>

Operands(ts, copied) ==
  FlattenSeq([i \in DOMAIN ts |-> IF ts[i] \in copied THEN <<>> ELSE <<Read(ts[i])>>])
Copies(ts, copied) ==
  FlattenSeq([i \in DOMAIN ts |-> IF ts[i] \in copied THEN contiguous_copy(ts[i]) ELSE <<>>])

(* copied: the operands that are copied first. Nothing refuses an operand  *)
(* that is the target, whose length is read under a lock of its own.       *)
matmul_(dst, lhs, rhs, copied) ==
  <<Read(dst), Drop>> \o Copies(<<lhs, rhs>>, copied)
  \o <<Write(dst)>> \o Operands(<<lhs, rhs>>, copied)

-----------------------------------------------------------------------------
(* Out of place: read locks of the operands.                               *)

binary(lhs, rhs) == <<Read(lhs), Read(rhs)>>
broadcast_binary(lhs, rhs) == <<Read(lhs), Read(rhs)>>
copy(src) == <<Read(src)>>
scale_add(src) == <<Read(src)>>
to(src, same_dtype) == IF same_dtype THEN <<>> ELSE <<Read(src)>>
unary(src) == <<Read(src)>>
softmax(src) == <<Read(src)>>
apply_causality_mask(src) == <<Read(src)>>
rms_norm(src, alpha) == <<Read(src), Read(alpha)>>
layer_norm_rm(src, weight, bias) == <<Read(src), Read(weight), Read(bias)>>
rope(src, cos, sin) == <<Read(src), Read(cos), Read(sin)>>
rope_i(src, cos, sin) == <<Read(src), Read(cos), Read(sin)>>
sum_keepdim(src) == <<Read(src)>>
max(src) == <<Read(src)>>
min(src) == <<Read(src)>>
argmin(src) == <<Read(src)>>
argmax(src) == <<Read(src)>>
pad_with_zeros(src) == <<Read(src)>>
pad_with_same(src) == <<Read(src)>>
index_select(src, indices) == <<Read(src), Read(indices)>>
matmul_with_t(lhs, rhs, copied) ==
  Copies(<<lhs, rhs>>, copied) \o Operands(<<lhs, rhs>>, copied)

(* The bias is added to the result by an operation of its own.             *)
conv1d(src, kernel, bias) == <<Read(src), Read(kernel), Drop, Read(bias)>>
conv_transpose1d(src, kernel, bias) == <<Read(src), Read(kernel), Drop, Read(bias)>>

sdpa_decode(q, k, v, mask) == <<Read(q), Read(k), Read(v), Read(mask)>>
sdpa_composed(q, k, v, mask, copied) ==
  matmul_with_t(q, k, copied) \o <<Drop, Read(mask), Drop>>
  \o Copies(<<v>>, copied) \o Operands(<<v>>, copied)

(* Each tensor is read under a lock of its own.                            *)
cat(tensors) == FlattenSeq([i \in DOMAIN tensors |-> <<Read(tensors[i]), Drop>>])
stack(tensors) == cat(tensors)

-----------------------------------------------------------------------------
(* Reading, slices and scatters.                                           *)

to_vec(src) == <<Read(src)>>
to_scalar(src) == <<Read(src)>>
to_vec2(src) == <<Read(src)>>
to_vec3(src) == <<Read(src)>>

slice_set(dst, src) == Checked(dst, {src}, <<Read(src), Write(dst)>>)
slice_assign(dst, src) == <<Read(src), Write(dst)>>
scatter(self, indexes, source) == <<Read(self), Drop, Read(source), Read(indexes)>>
scatter_set(dst, indexes, source) ==
  Checked(dst, {source}, <<Write(dst), Read(source), Read(indexes)>>)

(* The length of the storage is read under a lock of its own, then the     *)
(* view is copied unless it is all of its storage.                         *)
contiguous(src, whole) ==
  <<Read(src), Drop>> \o IF whole THEN <<>> ELSE <<Read(src)>>

(* Works on the storage of the tensor it is a view of if that is all of it. *)
apply_unary(src, whole) ==
  contiguous(src, whole) \o IF whole THEN <<Write(src)>> ELSE <<>>

(* nn::Linear: the weight's address is read first, as the key of its       *)
(* packed copy, then the product and the bias.                             *)
linear(x, weight, bias, copied) ==
  <<Read(weight), Drop>> \o matmul_with_t(x, weight, copied) \o <<Drop, Read(bias)>>
qlinear(x, bias) == <<Read(x), Drop, Read(bias)>>
from_linear(weight) == <<Read(weight)>>

=============================================================================
