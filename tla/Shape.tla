-------------------------------- MODULE Shape --------------------------------
(***************************************************************************)
(* Dimensions and strides (xn-core/src/shape.rs), the places in a storage  *)
(* that indices stand for, and usize::div_ceil and min.                    *)
(***************************************************************************)
EXTENDS Integers, Sequences

DivCeil(a, b) == (a + b - 1) \div b
Least(a, b) == IF a <= b THEN a ELSE b

(* The product of the sizes.                                               *)
elem_count(d) ==
  LET count[i \in 0 .. Len(d)] == IF i = 0 THEN 1 ELSE count[i - 1] * d[i]
  IN count[Len(d)]

stride_contiguous(d) == [i \in DOMAIN d |-> elem_count(SubSeq(d, i + 1, Len(d)))]

is_contiguous(d, s) == \A i \in DOMAIN d : d[i] = 1 \/ s[i] = stride_contiguous(d)[i]

Index(d, k) == [i \in DOMAIN d |-> (k \div stride_contiguous(d)[i]) % d[i]]
Offset(idx, s) ==
  LET offset[i \in 0 .. Len(s)] == IF i = 0 THEN 0 ELSE offset[i - 1] + idx[i] * s[i]
  IN offset[Len(s)]

(* The place of an index in row order.                                     *)
RowMajor(idx, d) == Offset(idx, stride_contiguous(d))

=============================================================================
