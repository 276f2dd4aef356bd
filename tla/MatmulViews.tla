---------------------------- MODULE MatmulViews ----------------------------
(***************************************************************************)
(* Products of views (matmul_ in xn-core/src/inplace_ops.rs, matmul_with_t *)
(* in ops.rs). A gemm walks the batches of each operand with one stride,   *)
(* so matmul_ finds that stride, copies an operand that has none, and folds *)
(* the batches of the left operand into its rows where the right one is    *)
(* the same for all of them.                                               *)
(***************************************************************************)
EXTENDS StridedViews, TLC

Operand(src, o, d, s) == [data |-> src, offset |-> o, dims |-> d, strides |-> s]
Matrix(d) ==
  Operand([k \in 1 .. elem_count(d) |-> k], 0, d, stride_contiguous(d))
ThisView == Operand(data, start_offset, dims, strides)

NoStride == -1

(* Batch dimensions from the last to the first; those of size 1 do not count. *)
flat_batch_stride(d, s) ==
  LET Dims == {j \in 1 .. Len(d) - 2 : d[j] # 1}
      suffix(j) == elem_count(SubSeq(d, j + 1, Len(d) - 2))
  IN IF Dims = {} THEN 0
     ELSE LET last == CHOOSE j \in Dims : \A i \in Dims : i <= j
          IN IF \A j \in Dims : s[j] = s[last] * suffix(j) THEN s[last] ELSE NoStride

contiguous_copy(x) ==
  Operand(copy_strided(x.data, x.offset, x.dims, x.strides), 0, x.dims,
          stride_contiguous(x.dims))

Batch(x) == elem_count(SubSeq(x.dims, 1, Len(x.dims) - 2))
FromEnd(s, i) == s[Len(s) + 1 - i]

Compatible(lhs, rhs, rhs_t) ==
  /\ Len(lhs.dims) >= 2 /\ Len(rhs.dims) >= 2
  /\ FromEnd(lhs.dims, 1) = FromEnd(rhs.dims, IF rhs_t THEN 1 ELSE 2)
  /\ Batch(rhs) \in {1, Batch(lhs)}

Uniform(x) == IF flat_batch_stride(x.dims, x.strides) # NoStride THEN x ELSE contiguous_copy(x)

(* The arguments of Backend::gemm.                                         *)
matmul_(lhs, rhs, rhs_t) ==
  LET l == Uniform(lhs)
      r == IF Batch(rhs) = 1 THEN rhs ELSE Uniform(rhs)
      m == FromEnd(l.dims, 2)
      k == FromEnd(l.dims, 1)
      lhs_rs == FromEnd(l.strides, 2)
      lhs_b == IF Len(l.dims) >= 3 THEN flat_batch_stride(l.dims, l.strides) ELSE m * k
      all == [lhs |-> l, rhs |-> r, k |-> k,
              n |-> FromEnd(r.dims, IF rhs_t THEN 2 ELSE 1),
              lhs_cs |-> FromEnd(l.strides, 1),
              rhs_cs |-> FromEnd(r.strides, IF rhs_t THEN 2 ELSE 1),
              rhs_rs |-> FromEnd(r.strides, IF rhs_t THEN 1 ELSE 2)]
      folded(rs) == [m |-> Batch(l) * m, batch |-> 1, lhs_b |-> lhs_b, rhs_b |-> 1, lhs_rs |-> rs]
      batched ==
        [m |-> m, batch |-> Batch(l), lhs_b |-> lhs_b, lhs_rs |-> lhs_rs,
         rhs_b |-> IF Batch(r) = 1 THEN 0 ELSE flat_batch_stride(r.dims, r.strides)]
  IN all @@ (IF Batch(r) = 1 /\ lhs_b = m * lhs_rs THEN folded(lhs_rs)
             ELSE IF Batch(r) = 1 /\ m = 1 THEN folded(lhs_b)
             ELSE batched)

(* The elements that a gemm multiplies for each element of its output.     *)
gemm(g) ==
  LET at(x, i) == IF i \in DOMAIN x THEN x[i] ELSE 0
      cell(b, i, j, p) ==
        <<at(g.lhs.data, 1 + g.lhs.offset + b * g.lhs_b + i * g.lhs_rs + p * g.lhs_cs),
          at(g.rhs.data, 1 + g.rhs.offset + b * g.rhs_b + p * g.rhs_rs + j * g.rhs_cs)>>
  IN [x \in 0 .. g.batch * g.m * g.n - 1 |->
        [p \in 0 .. g.k - 1 |->
           cell(x \div (g.m * g.n), (x \div g.n) % g.m, x % g.n, p)]]

(* The product of the matrices that two operands show, batch by batch.     *)
Product(lhs, rhs, rhs_t) ==
  LET l == contiguous_copy(lhs).data
      r == contiguous_copy(rhs).data
      m == FromEnd(lhs.dims, 2)
      k == FromEnd(lhs.dims, 1)
      n == FromEnd(rhs.dims, IF rhs_t THEN 2 ELSE 1)
      rb(b) == IF Batch(rhs) = 1 THEN 0 ELSE b * k * n
  IN [x \in 0 .. Batch(lhs) * m * n - 1 |->
        LET b == x \div (m * n)  i == (x \div n) % m  j == x % n
        IN [p \in 0 .. k - 1 |->
              <<l[1 + (b * m + i) * k + p],
                r[1 + rb(b) + IF rhs_t THEN j * k + p ELSE p * n + j]>>]]

-----------------------------------------------------------------------------
(* Properties                                                              *)

(* What matmul_ has a gemm compute of any view is the product that the     *)
(* view's indices describe: with a matrix, stored either way, that all     *)
(* batches share, and with the view itself.                                *)
MatmulOfViews ==
  Len(dims) >= 2 =>
    LET k == FromEnd(dims, 1)
        pairs == {<<Matrix(<<k, 2>>), FALSE>>, <<Matrix(<<2, k>>), TRUE>>, <<ThisView, TRUE>>}
    IN \A p \in pairs :
         Compatible(ThisView, p[1], p[2]) =>
           gemm(matmul_(ThisView, p[1], p[2])) = Product(ThisView, p[1], p[2])

=============================================================================
