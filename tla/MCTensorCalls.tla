--------------------------- MODULE MCTensorCalls ---------------------------
(* The operations that threads of MCHostCode do on tensors.                *)
EXTENDS Naturals, TensorOps

(* The operands operations are given: different storages, the highest      *)
(* first or last, or one storage only.                                     *)
Tuples(stores, n) ==
  {t \in [1 .. n -> stores] :
     \/ \A i \in 1 .. n - 1 : t[i + 1] < t[i]
     \/ \A i \in 1 .. n - 1 : t[i] < t[i + 1]
     \/ \A i \in 1 .. n : t[i] = 1}

(* Operations of up to three operands; many have the same locks.           *)
NarrowOps(stores) ==
  UNION {{to_vec(s), to_scalar(s), to_vec2(s), to_vec3(s), fill_(s), randn_(s),
          rand_uniform_(s), apply_causality_mask_(s), inplace_binary(s, s),
          binary_(s, s, s), copy(s), scale_add(s), to(s, TRUE), to(s, FALSE),
          unary(s), softmax(s), apply_causality_mask(s), sum_keepdim(s), max(s),
          min(s), argmin(s), argmax(s), pad_with_zeros(s), pad_with_same(s),
          contiguous(s, TRUE), contiguous(s, FALSE), apply_unary(s, TRUE),
          apply_unary(s, FALSE), from_linear(s)} : s \in stores}
  \cup UNION {
    LET s == p[1] t == p[2]
    IN {inplace_binary(s, t), to_dtype_(s, t), transpose_(s, t), copy_(s, t),
        scale_add_(s, t), unary_(s, t), softmax_(s, t), reduce_max_(s, t),
        reduce_min_(s, t), reduce_sum_(s, t), reduce_argmin_(s, t),
        reduce_argmax_(s, t), slice_set(t, s), slice_assign(t, s), binary(s, t),
        broadcast_binary(s, t), rms_norm(s, t), index_select(s, t),
        matmul_with_t(s, t, {}), matmul_with_t(s, t, {s, t}), cat(<<s, t>>),
        cat(<<t, s>>), stack(<<t, s>>), qlinear(t, s)}
    : p \in Tuples(stores, 2)}
  \cup UNION {
    LET s == p[1] t == p[2] u == p[3]
    IN {binary_(s, t, u), broadcast_binary_(s, t, u), rms_norm_(s, t, u),
        conv1d_(s, t, u), conv_transpose1d_(s, t, u), matmul_(s, t, u, {}),
        matmul_(s, t, u, {t}), scatter_set(s, u, t), layer_norm_rm(s, t, u),
        rope(s, t, u), rope_i(s, t, u), conv1d(s, t, u), conv_transpose1d(s, t, u),
        scatter(u, t, s), linear(s, t, u, {}), linear(s, t, u, {s}),
        sdpa_composed(s, t, u, s, {s}), sdpa_composed(s, t, u, s, {u})}
    : p \in Tuples(stores, 3)}

(* Those with four operands.                                               *)
WideOps(stores) ==
  UNION {
    {layer_norm_(p[1], p[2], p[3], p[4]), rope_(p[1], p[2], p[3], p[4]),
     rope_i_(p[1], p[2], p[3], p[4]), sdpa_decode(p[1], p[2], p[3], p[4])}
    : p \in Tuples(stores, 4)}

(* What two threads do.                                                    *)
OpsOfTwo == {o \in NarrowOps(1 .. 3) \cup WideOps(1 .. 4) : o # <<>>}

(* What three do, enough to queue up behind each other: they write one     *)
(* storage and read another, or read two, the lower one first, or one      *)
(* twice.                                                                  *)
OpsOfThree ==
  LET pairs == Tuples(1 .. 3, 2)
  IN {o \in {inplace_binary(p[1], p[2]) : p \in pairs}
            \cup {binary(p[1], p[2]) : p \in {q \in pairs : q[1] <= q[2]}} : o # <<>>}

(* a.inplace_add(&b) and b.inplace_add(&a).                                *)
Exchanged == {inplace_binary(1, 2), inplace_binary(2, 1)}

=============================================================================
