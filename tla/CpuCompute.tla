------------------------------ MODULE CpuCompute ------------------------------
(***************************************************************************)
(* Kernels of the CPU backend that compute (cpu_backend.rs): products of   *)
(* matrices cut into stripes, reductions in lanes, broadcast operations,   *)
(* convolutions by im2col and col2im or directly. They run as those of     *)
(* CpuLayout do; a term of two places is their product, and the terms that *)
(* are written to one place are added up.                                  *)
(***************************************************************************)
EXTENDS CpuLayout

CONSTANTS
  Lanes,          (* LANES: accumulators of a reduction                    *)
  RowsPerPiece,   (* rows that one piece of a reduction is given           *)
  RowTile,        (* rows for each participant that make stripes of rows   *)
  ColTile         (* columns for each participant that make stripes        *)

ASSUME ComputeAssumption ==
  {Lanes, RowsPerPiece, RowTile, ColTile} \subseteq Nat \ {0}

-----------------------------------------------------------------------------
(* gemm_: a record of its dimensions and strides, as gemm in MatmulViews.  *)

(* The last stripe takes a full share.                                     *)
StripePastEnd(n, stripes, s) ==
  LET per == DivCeil(n, stripes) IN s * per .. s * per + per - 1

Stripe(n, stripes, s) ==
  LET per == DivCeil(n, stripes)
  IN Least(s * per, n) .. Least(s * per + per, n) - 1

gemm_block(g, b, rows, cols) ==
  {<<b * g.m * g.n + i * g.dst_rs + j * g.dst_cs,
     <<b * g.lhs_b + i * g.lhs_rs + p * g.lhs_cs, b * g.rhs_b + p * g.rhs_rs + j * g.rhs_cs>>>> :
     i \in rows, j \in cols, p \in Below(g.k)}

by_rows(g, worth) == worth /\ g.m > g.n /\ g.m >= PoolSize * RowTile
Stripes(g, worth) == IF by_rows(g, worth) \/ (worth /\ g.n >= PoolSize * ColTile) THEN PoolSize ELSE 1

(* The stages of a product: its batches one after the other.               *)
gemm_(g, worth) ==
  LET n == Stripes(g, worth)
      stripe(b, s) ==
        IF by_rows(g, worth)
        THEN gemm_block(g, b, Stripe(g.m, n, s), Below(g.n))
        ELSE gemm_block(g, b, Below(g.m), Stripe(g.n, n, s))
  IN [b \in 1 .. g.batch |-> [s \in 1 .. n |-> stripe(b - 1, s - 1)]]

Plain(batch, m, n, k) ==
  [batch |-> batch, m |-> m, n |-> n, k |-> k, lhs_b |-> m * k, rhs_b |-> k * n,
   dst_cs |-> 1, dst_rs |-> n, lhs_cs |-> 1, lhs_rs |-> k, rhs_cs |-> 1, rhs_rs |-> n]

gemm(batch, m, n, k, worth) ==
  Call(batch * m * n, gemm_(Plain(batch, m, n, k), worth),
       {<<RowMajor(<<b, i, j>>, <<batch, m, n>>),
          <<RowMajor(<<b, i, p>>, <<batch, m, k>>), RowMajor(<<b, p, j>>, <<batch, k, n>>)>>>> :
          b \in Below(batch), i \in Below(m), j \in Below(n), p \in Below(k)})

-----------------------------------------------------------------------------
(* Reductions of dimension dim_size of [outer_size, dim_size, inner_size]: *)
(* what is combined for a place are the terms written there.               *)

reduce_row(outer, dim_size) ==
  LET whole == (dim_size \div Lanes) * Lanes
      lane(l) == {outer * dim_size + c * Lanes + l : c \in Below(dim_size \div Lanes)}
      rem == {outer * dim_size + i : i \in whole .. dim_size - 1}
  IN {<<outer, <<i>>>> : i \in (UNION {lane(l) : l \in Below(Lanes)}) \cup rem}

reduce_block(outer, dim_size, inner_size) ==
  LET base == outer * dim_size * inner_size
  IN {<<outer * inner_size + i, <<base + d * inner_size + i>>>> :
        d \in Below(dim_size), i \in Below(inner_size)}

(* Pieces of rows for a reduction of the last dimension, of blocks else.   *)
Reduced(outer_size, inner_size, Row(_), Block(_)) ==
  IF inner_size = 1
  THEN << Chunks(outer_size, RowsPerPiece,
                 LAMBDA c : UNION {Row(r) : r \in {c * RowsPerPiece + j : j \in Below(RowsPerPiece)}
                                                  \cap Below(outer_size)}) >>
  ELSE << Chunks(outer_size * inner_size, inner_size, Block) >>

reduce_combine(dim_size, outer_size, inner_size) ==
  Call(outer_size * inner_size,
       IF dim_size = 0 THEN << <<{<<k, Zero>> : k \in Below(outer_size * inner_size)}>> >>
       ELSE Reduced(outer_size, inner_size, LAMBDA r : reduce_row(r, dim_size),
                    LAMBDA o : reduce_block(o, dim_size, inner_size)),
       {<<RowMajor(<<o, i>>, <<outer_size, inner_size>>),
          <<RowMajor(<<o, d, i>>, <<outer_size, dim_size, inner_size>>)>>>> :
          o \in Below(outer_size), d \in Below(dim_size), i \in Below(inner_size)})

(* The index that a scan of values leaves, from a first best value on.     *)
Scan(values, best, i) ==
  FoldLeft(LAMBDA acc, d : IF values[d + 1] < acc.best THEN [best |-> values[d + 1], at |-> d] ELSE acc,
           [best |-> best, at |-> 0], [j \in 1 .. Len(values) - i |-> i + j - 1]).at

(* argmin of the values of src, none larger than Infinity; argmax is the   *)
(* same of their negatives. The term of a place is the index it gets.      *)
reduce_arg(src, infinity, dim_size, outer_size, inner_size) ==
  LET at(o, d, i) == src[1 + RowMajor(<<o, d, i>>, <<outer_size, dim_size, inner_size>>)]
      values(o, i) == [d \in 1 .. dim_size |-> at(o, d - 1, i)]
      least(o, i) == CHOOSE d \in Below(dim_size) :
                       \A e \in Below(dim_size) :
                         at(o, d, i) < at(o, e, i) \/ (at(o, d, i) = at(o, e, i) /\ d <= e)
  IN Call(outer_size * inner_size,
          Reduced(outer_size, inner_size,
                  LAMBDA r : {<<r, <<Scan(values(r, 0), infinity, 0)>>>>},
                  LAMBDA o : {<<o * inner_size + i, <<Scan(values(o, i), values(o, i)[1], 1)>>>> :
                                i \in Below(inner_size)}),
          {<<o * inner_size + i, <<least(o, i)>>>> : o \in Below(outer_size), i \in Below(inner_size)})

-----------------------------------------------------------------------------
(* Operations on two operands, each stretched to the shape of the output.  *)

Dim(d, i, rank) == IF i > rank - Len(d) THEN d[i - (rank - Len(d))] ELSE 1

broadcast_shape(l, r) ==
  LET rank == IF Len(l) >= Len(r) THEN Len(l) ELSE Len(r)
      dim(i) == IF Dim(l, i, rank) = 1 THEN Dim(r, i, rank) ELSE Dim(l, i, rank)
  IN [i \in 1 .. rank |-> dim(i)]

Broadcastable(l, r) ==
  \A i \in DOMAIN broadcast_shape(l, r) :
    LET rank == Len(broadcast_shape(l, r))
    IN Dim(l, i, rank) = Dim(r, i, rank) \/ 1 \in {Dim(l, i, rank), Dim(r, i, rank)}

(* Dimensions in which the same operand is stretched are merged, and those *)
(* in which both have size 1 are dropped.                                  *)
compact_lro(out, l, r) ==
  LET rank == Len(out)
      kind(i) == <<Dim(l, i, rank) = 1, Dim(r, i, rank) = 1>>
  IN FoldLeft(LAMBDA acc, i :
                IF kind(i) = <<TRUE, TRUE>> THEN acc
                ELSE IF acc # <<>> /\ Last(acc).kind = kind(i)
                THEN [acc EXCEPT ![Len(acc)].dim = @ * out[i]]
                ELSE Append(acc, [kind |-> kind(i), dim |-> out[i]]),
              <<>>, [i \in DOMAIN out |-> i])

(* which: 1 for the strides of the left operand, 2 for the right one.      *)
broadcast_strides(lro, which) ==
  [i \in DOMAIN lro |->
     IF lro[i].kind[which] THEN 0
     ELSE elem_count([j \in 1 .. Len(lro) - i |->
                        IF lro[i + j].kind[which] THEN 1 ELSE lro[i + j].dim])]

broadcast_binary_op(n, shape, ls, rs) ==
  LET no_zero(s) == \A i \in DOMAIN s : s[i] > 0
      rows(L(_, _), R(_, _)) ==
        {<<i0 * shape[2] + i1, <<L(i0, i1), R(i0, i1)>>>> : i0 \in Below(shape[1]), i1 \in Below(shape[2])}
      first(i0, i1) == i0
      second(i0, i1) == i1
  IN IF no_zero(ls) /\ no_zero(rs) THEN {<<k, <<k, k>>>> : k \in Below(n)}
     ELSE IF no_zero(ls) /\ rs = <<0, 1>> THEN rows(LAMBDA i0, i1 : i0 * ls[1] + i1, second)
     ELSE IF no_zero(ls) /\ rs = <<1, 0>> THEN rows(LAMBDA i0, i1 : i0 * ls[1] + i1, first)
     ELSE IF no_zero(rs) /\ ls = <<0, 1>> THEN rows(second, LAMBDA i0, i1 : i0 * rs[1] + i1)
     ELSE IF no_zero(rs) /\ ls = <<1, 0>> THEN rows(first, LAMBDA i0, i1 : i0 * rs[1] + i1)
     ELSE {<<k, <<Offset(Index(shape, k), ls), Offset(Index(shape, k), rs)>>>> :
             k \in Below(elem_count(shape))}

broadcast_binary(l, r) ==
  LET out == broadcast_shape(l, r)
      lro == compact_lro(out, l, r)
      at(d, idx) == RowMajor([i \in DOMAIN d |-> IF d[i] = 1 THEN 0 ELSE idx[i + Len(out) - Len(d)]], d)
  IN /\ Broadcastable(l, r)
     /\ Call(elem_count(out),
             << <<broadcast_binary_op(elem_count(out), [i \in DOMAIN lro |-> lro[i].dim],
                                      broadcast_strides(lro, 1), broadcast_strides(lro, 2))>> >>,
             {<<k, <<at(l, Index(out, k)), at(r, Index(out, k))>>>> : k \in Below(elem_count(out))})

-----------------------------------------------------------------------------
(* Convolutions: c is a record of batch, in_channels, out_channels, length, *)
(* out_length, kernel_size, stride, padding, dilation, groups.             *)

(* Row (c, k) of the columns: places of the input, or Outside.             *)
Outside == -1

first_inside(pos, stride) == IF pos <= 0 THEN 0 ELSE DivCeil(pos, stride)

(* The outputs l0 .. l1 - 1 for which tap k is inside the input.           *)
InsideToEnd(c, k) ==
  Least(first_inside(c.padding - k * c.dilation, c.stride), c.out_length) .. c.out_length - 1

InsideInput(c, k) ==
  LET l0 == Least(first_inside(c.padding - k * c.dilation, c.stride), c.out_length)
      l1 == first_inside(c.length + c.padding - k * c.dilation, c.stride)
  IN l0 .. Least(l1, c.out_length) - 1

im2col1d(c) ==
  [b \in Below(c.batch), ch \in Below(c.in_channels),
   k \in Below(c.kernel_size), l \in Below(c.out_length) |->
     IF l \in InsideInput(c, k)
     THEN (b * c.in_channels + ch) * c.length + l * c.stride + k * c.dilation - c.padding
     ELSE Outside]

(* The columns are [batch, in_channels * kernel_size, out_length]: a term  *)
(* of their product with the kernel becomes a term over the input.         *)
ThroughColumns(c, col, stagess) ==
  LET term(t) ==
        LET idx == Index(<<c.batch, c.in_channels, c.kernel_size, c.out_length>>, t[2])
            at == col[idx[1], idx[2], idx[3], idx[4]]
        IN IF at = Outside THEN Zero ELSE <<at, t[1]>>
  IN [i \in DOMAIN stagess |-> [j \in DOMAIN stagess[i] |->
        {<<p[1], term(p[2])>> : p \in stagess[i][j]}]]

ConvGemm(c) ==
  LET k == c.in_channels * c.kernel_size
  IN [Plain(c.batch, c.out_channels, c.out_length, k) EXCEPT !.lhs_b = 0]

(* One stage for each tap, one piece for each output channel.              *)
conv1d_direct(c) ==
  LET in_c_per_group == c.in_channels \div c.groups
      tap(k, out_c) ==
        LET g == out_c \div (c.out_channels \div c.groups)
            inside == {x \in Below(c.batch) \X Below(c.out_length) \X Below(in_c_per_group) :
                         LET src_l == x[2] * c.stride + k * c.dilation
                         IN src_l >= c.padding /\ src_l < c.padding + c.length}
        IN {<<(x[1] * c.out_channels + out_c) * c.out_length + x[2],
              <<(x[1] * c.in_channels + g * in_c_per_group + x[3]) * c.length
                  + (x[2] * c.stride + k * c.dilation - c.padding),
                (out_c * in_c_per_group + x[3]) * c.kernel_size + k>>>> : x \in inside}
  IN << <<{<<i, Zero>> : i \in Below(c.batch * c.out_channels * c.out_length)}>> >>
     \o [k \in 1 .. c.kernel_size |-> [o \in 1 .. c.out_channels |-> tap(k - 1, o - 1)]]

conv1d(c, worth) ==
  LET per_group == c.in_channels \div c.groups
      group(o) == o \div (c.out_channels \div c.groups)
      pointwise == c.kernel_size = 1 /\ c.stride = 1 /\ c.padding = 0
      swap(ss) == [i \in DOMAIN ss |-> [j \in DOMAIN ss[i] |->
                     {<<p[1], <<p[2][2], p[2][1]>>>> : p \in ss[i][j]}]]
      places == {x \in Below(c.out_length) \X Below(c.kernel_size) :
                   x[1] * c.stride + x[2] * c.dilation - c.padding \in Below(c.length)}
  IN Call(c.batch * c.out_channels * c.out_length,
          IF c.groups > 1 THEN conv1d_direct(c)
          ELSE IF pointwise THEN swap(gemm_(ConvGemm(c), worth))
          ELSE ThroughColumns(c, im2col1d(c), gemm_(ConvGemm(c), worth)),
          {<<RowMajor(<<b, o, x[1]>>, <<c.batch, c.out_channels, c.out_length>>),
             <<RowMajor(<<b, group(o) * per_group + i, x[1] * c.stride + x[2] * c.dilation - c.padding>>,
                        <<c.batch, c.in_channels, c.length>>),
               RowMajor(<<o, i, x[2]>>, <<c.out_channels, per_group, c.kernel_size>>)>>>> :
             b \in Below(c.batch), o \in Below(c.out_channels), i \in Below(per_group), x \in places})

-----------------------------------------------------------------------------
(* Transposed convolutions: output_padding instead of dilation. The kernel *)
(* is [in_channels, out_channels / groups, kernel_size].                   *)

(* Columns [batch, length, out_channels, kernel_size]: the products of     *)
(* each place, the input read transposed.                                  *)
TransposeGemm(c) ==
  [Plain(c.batch, c.length, c.out_channels * c.kernel_size, c.in_channels)
     EXCEPT !.lhs_b = c.length * c.in_channels, !.rhs_b = 0, !.lhs_cs = c.length, !.lhs_rs = 1]

(* The taps k0 .. k1 - 1 that stay inside the output, which start before   *)
(* its first place or end after its last one.                              *)
Taps(start, c) ==
  LET k0 == Least(IF start < 0 THEN 0 - start ELSE 0, c.kernel_size)
      rest == IF c.out_length - start < k0 THEN k0 ELSE c.out_length - start
  IN k0 .. Least(rest, c.kernel_size) - 1

(* Rows r0 .. r0 + rows - 1 of the output in blocks, one for each batch    *)
(* entry they are of; base: the taps of the first row of a block.          *)
BlockStart(c, r0, r) ==
  LET entry == (r \div c.out_channels) * c.out_channels
  IN IF r0 > entry THEN r0 ELSE entry

accumulate(c, r0, rows) ==
  UNION {LET first == BlockStart(c, r0, r)
             base(l) == (((first \div c.out_channels) * c.length + l) * c.out_channels
                         + (first % c.out_channels)) * c.kernel_size
         IN UNION {LET start == l * c.stride - c.padding
                   IN {<<r * c.out_length + start + k, base(l) + (r - first) * c.kernel_size + k>> :
                         k \in Taps(start, c)} : l \in Below(c.length)} :
           r \in {x \in r0 .. r0 + rows - 1 : x < c.batch * c.out_channels}}

col2im1d(c, col, parallel) ==
  LET rows == c.batch * c.out_channels
      per == IF parallel THEN DivCeil(rows, PoolSize) ELSE rows
      piece(i) ==
        {<<r * c.out_length + l, Zero>> :
           r \in {x \in i * per .. i * per + per - 1 : x < rows}, l \in Below(c.out_length)}
        \cup UNION {{<<a[1], p[2]>> : p \in {q \in col : q[1] = a[2]}} : a \in accumulate(c, i * per, per)}
  IN << Chunks(rows, per, piece) >>

(* One piece for each batch entry and output channel.                      *)
conv_transpose1d_direct(c) ==
  LET in_c_per_group == c.in_channels \div c.groups
      out_c_per_group == c.out_channels \div c.groups
      piece(bc) ==
        LET b == bc \div c.out_channels
            out_c == bc % c.out_channels
            in_c_start == (out_c \div out_c_per_group) * in_c_per_group
            k_base == (in_c_start * out_c_per_group + (out_c % out_c_per_group)) * c.kernel_size
            depthwise ==
              UNION {{<<bc * c.out_length + il * c.stride - c.padding + k,
                        <<(b * c.in_channels + in_c_start) * c.length + il, k_base + k>>>> :
                        k \in Taps(il * c.stride - c.padding, c)} : il \in Below(c.length)}
            reached == {x \in Below(c.length) \X Below(c.kernel_size) :
                          x[1] * c.stride + x[2] \in c.padding .. c.out_length + c.padding - 1}
            general ==
              {<<bc * c.out_length + x[1] * c.stride + x[2] - c.padding,
                 <<(b * c.in_channels + in_c_start + ic) * c.length + x[1],
                   k_base + ic * out_c_per_group * c.kernel_size + x[2]>>>> :
                 x \in reached, ic \in Below(in_c_per_group)}
        IN IF in_c_per_group = 1 THEN depthwise ELSE general
  IN << <<{<<i, Zero>> : i \in Below(c.batch * c.out_channels * c.out_length)}>>,
        Chunks(c.batch * c.out_channels, 1, piece) >>

conv_transpose1d(c, parallel) ==
  LET per_group == c.in_channels \div c.groups
      out_per_group == c.out_channels \div c.groups
      col == UNION UNION {Range(batch) : batch \in Range(gemm_(TransposeGemm(c), parallel))}
      places == {x \in Below(c.length) \X Below(c.kernel_size) :
                   x[1] * c.stride + x[2] - c.padding \in Below(c.out_length)}
  IN Call(c.batch * c.out_channels * c.out_length,
          IF c.groups = 1 THEN col2im1d(c, col, parallel) ELSE conv_transpose1d_direct(c),
          {LET i == (o \div out_per_group) * per_group + ic
           IN <<RowMajor(<<b, o, x[1] * c.stride + x[2] - c.padding>>, <<c.batch, c.out_channels, c.out_length>>),
                <<RowMajor(<<b, i, x[1]>>, <<c.batch, c.in_channels, c.length>>),
                  RowMajor(<<i, o % out_per_group, x[2]>>, <<c.in_channels, out_per_group, c.kernel_size>>)>>>> :
             b \in Below(c.batch), o \in Below(c.out_channels), ic \in Below(per_group), x \in places})

-----------------------------------------------------------------------------
(* Attention of one query to kv keys in one pass. A score is a small       *)
(* number or Masked, e to it is a power of two, and the sums are kept as   *)
(* multiples of 1 / One so that they are exact.                            *)

Masked == -1
One == 16
Pow(x) == One \div (2 ^ x)

(* The running maximum, denominator, and weight of each value.             *)
Online(scores) ==
  FoldLeft(LAMBDA acc, j :
             LET m == IF scores[j] > acc.max THEN scores[j] ELSE acc.max
                 rebased(x) == IF acc.max = Masked THEN 0 ELSE x \div (2 ^ (m - acc.max))
                 p == Pow(m - scores[j])
             IN IF scores[j] = Masked THEN acc
                ELSE [max |-> m, denom |-> rebased(acc.denom) + p,
                      weights |-> [[i \in DOMAIN acc.weights |-> rebased(acc.weights[i])] EXCEPT ![j] = @ + p]],
           [max |-> Masked, denom |-> 0, weights |-> [j \in DOMAIN scores |-> 0]],
           [j \in DOMAIN scores |-> j])

(* Values are [b, rows, h, d] with kv rows in use. The scores of a head are *)
(* scores, shifted by its number, with the masked keys of its batch entry: *)
(* the row of the mask that m_bs steps to, of which there is one or b.     *)
sdpa_decode(b, h, d, kv, rows, scores, masks, m_bs) ==
  LET hd == h * d
      score(bi, hh, j) == IF m_bs * bi + j \in masks THEN Masked ELSE (scores[j] + hh) % 3
      row(bi, hh) == [j \in 1 .. kv |-> score(bi, hh, j)]
      head(idx) ==
        LET bi == idx \div h
            hh == idx % h
            vb == bi * rows * hd + hh * d
            o == Online(row(bi, hh))
        IN {<<idx * d + e, <<vb + (j - 1) * hd + e, o.weights[j], o.denom>>>> :
              e \in Below(d), j \in {i \in 1 .. kv : score(bi, hh, i) # Masked}}
      weight(bi, hh, j) ==
        Pow((CHOOSE m \in 0 .. 2 : m \in {score(bi, hh, i) : i \in 1 .. kv}
                                 /\ \A i \in 1 .. kv : score(bi, hh, i) <= m) - score(bi, hh, j))
      seen(bi, hh) == {i \in 1 .. kv : score(bi, hh, i) # Masked}
  IN /\ \A bi \in Below(b), hh \in Below(h) : seen(bi, hh) # {}
     /\ Call(b * hd, << Chunks(b * hd, d, head) >>,
             UNION {{<<RowMajor(<<bi, hh, e>>, <<b, h, d>>),
                       <<RowMajor(<<bi, j - 1, hh, e>>, <<b, rows, h, d>>), weight(bi, hh, j),
                         SumOf([i \in 1 .. kv |->
                                  IF i \in seen(bi, hh) THEN weight(bi, hh, i) ELSE 0])>>>> :
                       e \in Below(d), j \in seen(bi, hh)} : bi \in Below(b), hh \in Below(h)})

-----------------------------------------------------------------------------
ProductCall ==
  \/ \E m, n \in {1, 4, 7}, worth \in BOOLEAN : gemm(2, m, n, 2, worth)
  \/ \E kv \in 1 .. 3, scores \in {<<0, 1, 2>>, <<2, 0, 1>>, <<1, 1, 0>>},
        masks \in {{}, {1}, {2, 3}, {3, 4}}, m_bs \in {0, 3} :
       sdpa_decode(2, 2, 2, kv, 3, scores, masks, m_bs)

ReduceCall ==
  \E dim_size \in 0 .. 2 * Lanes + 1, outer_size \in {1, 3}, inner_size \in 1 .. 2 :
    \/ reduce_combine(dim_size, outer_size, inner_size)
    \/ /\ dim_size \in 1 .. 3 /\ outer_size = 1
       /\ \E src \in [1 .. dim_size * inner_size -> 0 .. 2] :
            reduce_arg(src, 2, dim_size, outer_size, inner_size)

BroadcastCall == \E l, r \in Shapes : broadcast_binary(l, r)

(* A convolution of two batch entries to out_length places.                *)
ConvOf(channels, sizes, stride, padding, extra, out_length) ==
  [batch |-> 2, in_channels |-> channels[1] * channels[3],
   out_channels |-> channels[2] * channels[3], length |-> sizes[1],
   out_length |-> out_length, kernel_size |-> sizes[2], stride |-> stride,
   padding |-> padding, groups |-> channels[3], dilation |-> 1 + extra]

conv_reach(sizes, padding, extra) ==
  sizes[1] + 2 * padding - (1 + extra) * (sizes[2] - 1) - 1

transpose_length(sizes, stride, padding, extra) ==
  (sizes[1] - 1) * stride + sizes[2] + extra - 2 * padding

ConvCall ==
  \E channels \in {<<2, 2, 1>>, <<2, 1, 2>>, <<1, 2, 2>>},
     sizes \in {<<4, 3>>, <<1, 3>>, <<4, 1>>}, stride \in {1, 2},
     padding, extra \in 0 .. 1, parallel \in BOOLEAN :
    /\ extra = 1 => padding = 1
    /\ \/ /\ conv_reach(sizes, padding, extra) >= 0
          /\ conv1d(ConvOf(channels, sizes, stride, padding, extra,
                           conv_reach(sizes, padding, extra) \div stride + 1), parallel)
       \/ /\ transpose_length(sizes, stride, padding, extra) > 0
          /\ conv_transpose1d(ConvOf(channels, sizes, stride, padding, extra,
                                     transpose_length(sizes, stride, padding, extra)), parallel)

ComputeNext ==
  \/ CopyCall \/ SliceCall \/ RopeCall
  \/ ProductCall \/ ReduceCall \/ BroadcastCall \/ ConvCall \/ RunSome

ComputeSpec == KernelInit /\ [][ComputeNext]_kernel_vars

=============================================================================
