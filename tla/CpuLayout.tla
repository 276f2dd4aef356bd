------------------------------ MODULE CpuLayout ------------------------------
(***************************************************************************)
(* Kernels of the CPU backend that move elements (cpu_backend.rs), with    *)
(* the methods of Tensor that compute their parameters (tensor.rs, ops.rs).*)
(*                                                                         *)
(* A kernel is cut into pieces that the participants of the thread pool    *)
(* run in any order, or in stages of pieces with a barrier between them.   *)
(* A piece is the set of pairs <<place, term>> that it writes: a place of  *)
(* the output, and what goes there or is added there. A term names places  *)
(* of the operands, Zero names none. Whether a kernel runs in parallel     *)
(* (use_parallelism) is a choice where the two ways differ.                *)
(***************************************************************************)
EXTENDS Integers, Sequences, FiniteSets, SequencesExt, Shape

CONSTANTS
  Tile,           (* TILE: side of the blocks of a transposing copy        *)
  PoolSize,       (* participants of the thread pool                       *)
  Shapes,         (* shapes of operands                                    *)
  Strides,        (* strides of the views that are copied                  *)
  LongTables      (* whether rope is given tables, one for each batch      *)
                  (* entry, with more rows than there are positions        *)

(* A kernel of a tensor without dimensions or elements returns at once or  *)
(* panics: copy_strided, for one, divides by the sizes.                    *)
ASSUME LayoutAssumption ==
  /\ {Tile, PoolSize} \subseteq Nat \ {0}
  /\ Shapes \subseteq Seq(Nat \ {0}) \ {<<>>}
  /\ Strides \subseteq Nat
  /\ LongTables \in BOOLEAN

Zero == <<>>

VARIABLES
  called,         (* the call has been made                                *)
  len,            (* the places of a new output, 0 if it is an old one     *)
  stages,         (* the pieces still to run, stage by stage               *)
  written,        (* what the pieces have written                          *)
  wanted          (* what the operation is defined to write                *)

kernel_vars == <<called, len, stages, written, wanted>>

KernelTypeOK ==
  /\ called \in BOOLEAN /\ len \in Nat
  /\ \A i \in DOMAIN stages : stages[i] # <<>>
  /\ \A p \in written \cup wanted : p[1] \in Nat /\ p[2] \in Seq(Nat)

KernelInit == called = FALSE /\ len = 0 /\ stages = <<>> /\ written = {} /\ wanted = {}

(* Stages without pieces are left out.                                     *)
WithPieces(ss) ==
  LET kept[i \in 0 .. Len(ss)] ==
        IF i = 0 THEN <<>> ELSE IF ss[i] = <<>> THEN kept[i - 1] ELSE Append(kept[i - 1], ss[i])
  IN kept[Len(ss)]

Call(n, ss, w) ==
  /\ ~called
  /\ called' = TRUE /\ len' = n /\ wanted' = w
  /\ stages' = WithPieces(ss)
  /\ UNCHANGED written

RunPiece(i) ==
  /\ stages # <<>> /\ i \in DOMAIN Head(stages)
  /\ written' = written \cup Head(stages)[i]
  /\ stages' = IF Len(Head(stages)) = 1 THEN Tail(stages)
               ELSE [stages EXCEPT ![1] = RemoveAt(@, i)]
  /\ UNCHANGED <<called, len, wanted>>

-----------------------------------------------------------------------------
Below(n) == 0 .. n - 1

(* chunks_mut(size) of n places: Piece(c) is run for chunk c.              *)
Chunks(n, size, Piece(_)) == [c \in 1 .. DivCeil(n, size) |-> Piece(c - 1)]

Copy(dst, src, n) == {<<dst + i, <<src + i>>>> : i \in Below(n)}

(* The places below n, tile by tile.                                       *)
Tiled(n) == UNION {t * Tile .. Least((t + 1) * Tile, n) - 1 : t \in Below(DivCeil(n, Tile))}

(* The rows of an operand before and after a dimension.                    *)
Before(d, dim) == elem_count(SubSeq(d, 1, dim - 1))
After(d, dim) == elem_count(SubSeq(d, dim + 1, Len(d)))

copy2d(src, d1, d2, dst_s, src_s, dst_o, src_o) ==
  {<<i1 * dst_s + dst_o + i, src \o <<i1 * src_s + src_o + i>>>> : i1 \in Below(d1), i \in Below(d2)}

Swapped(s, i, j) == [s EXCEPT ![i] = s[j], ![j] = s[i]]

(* The blocks of a transposition of the dimensions dim1 < dim2.            *)
transpose_block(d, dim1, dim2, i) ==
  LET d1 == d[dim1]
      d2 == d[dim2]
      d_j == elem_count(SubSeq(d, dim1 + 1, dim2 - 1))
      d_k == After(d, dim2)
      base == i * d1 * d_j * d2 * d_k
  IN IF d_k = 1
     THEN {<<base + a2 * d_j * d1 + j * d1 + a1, <<base + a1 * d_j * d2 + j * d2 + a2>>>> :
             j \in Below(d_j), a1 \in Tiled(d1), a2 \in Tiled(d2)}
     ELSE UNION {Copy(base + a2 * d_j * d1 * d_k + j * d1 * d_k + a1 * d_k,
                      base + a1 * d_j * d2 * d_k + j * d2 * d_k + a2 * d_k, d_k) :
                   a1 \in Below(d1), j \in Below(d_j), a2 \in Below(d2)}

Transposed(d, dim1, dim2) ==
  {<<RowMajor(Swapped(Index(d, k), dim1, dim2), Swapped(d, dim1, dim2)), <<k>>>> :
     k \in Below(elem_count(d))}

transpose(d, dim1, dim2) ==
  LET n == elem_count(d)
      lo == Least(dim1, dim2)
      hi == dim1 + dim2 - lo
      size == elem_count(SubSeq(d, lo, Len(d)))
  IN Call(n,
          IF dim1 = dim2 \/ Cardinality({i \in DOMAIN d : d[i] # 1}) <= 1
          THEN << <<Copy(0, 0, n)>> >>
          ELSE << Chunks(n, size, LAMBDA i : transpose_block(d, lo, hi, i)) >>,
          Transposed(d, dim1, dim2))

-----------------------------------------------------------------------------
(* Copies of views. What a view stands for is read in row order.           *)

Strided(o, d, s) == {<<k, <<o + Offset(Index(d, k), s)>>>> : k \in Below(elem_count(d))}

copy_strided_2d(o, d, s) ==
  << Chunks(d[1] * d[2], d[2], LAMBDA i0 : Copy(i0 * d[2], o + i0 * s[1], d[2])) >>

copy_strided_3d(o, d, s) ==
  << Chunks(elem_count(d), d[2] * d[3],
            LAMBDA i0 : UNION {Copy((i0 * d[2] + i1) * d[3], o + i0 * s[1] + i1 * s[2], d[3]) :
                                 i1 \in Below(d[2])}) >>

(* The offset of an outer index, its last dimension first.                 *)
outer_offset(o, d, s, i) ==
  FoldLeft(LAMBDA acc, j :
             [off |-> acc.off + (acc.rem % d[j]) * s[j], rem |-> acc.rem \div d[j]],
           [off |-> o, rem |-> i], Reverse([j \in 1 .. Len(d) - 2 |-> j])).off

(* Rows of the last two dimensions, written from dst on.                   *)
Gather(dst, off, rows, d_b, s_a, s_b) ==
  {<<dst + a * d_b + b, <<off + a * s_a + b * s_b>>>> : a \in Below(rows), b \in Below(d_b)}

tiled_2d_gather(dst, off, rows, d_b, s_a, s_b) ==
  {<<dst + a * d_b + b, <<off + a * s_a + b * s_b>>>> : a \in Below(rows), b \in Tiled(d_b)}

(* Two dimensions or more, the last not with stride 1.                     *)
copy_strided_general(o, d, s, parallel) ==
  LET r == Len(d)
      d_a == d[r - 1]
      d_b == d[r]
      n_outer == elem_count(d) \div (d_a * d_b)
      off(i) == outer_offset(o, d, s, i)
  IN IF ~parallel
     THEN << [i \in 1 .. n_outer |->
                Gather((i - 1) * d_a * d_b, off(i - 1), d_a, d_b, s[r - 1], s[r])] >>
     ELSE IF n_outer >= PoolSize
     THEN << [i \in 1 .. n_outer |->
                tiled_2d_gather((i - 1) * d_a * d_b, off(i - 1), d_a, d_b, s[r - 1], s[r])] >>
     ELSE [i \in 1 .. n_outer |->
             Chunks(d_a * d_b, Tile * d_b,
                    LAMBDA t : tiled_2d_gather((i - 1) * d_a * d_b + t * Tile * d_b,
                                               off(i - 1) + t * Tile * s[r - 1],
                                               Least(Tile, d_a - t * Tile), d_b,
                                               s[r - 1], s[r]))]

copy_strided(o, d, s, parallel) ==
  LET r == Len(d)
  IN Call(elem_count(d),
          IF r = 1 THEN << <<{<<i, <<o + i * s[1]>>>> : i \in Below(d[1])}>> >>
          ELSE IF r = 2 /\ s[2] = 1 THEN copy_strided_2d(o, d, s)
          ELSE IF r = 3 /\ s[3] = 1 THEN copy_strided_3d(o, d, s)
          ELSE copy_strided_general(o, d, s, parallel),
          Strided(o, d, s))

-----------------------------------------------------------------------------
(* Tensors put side by side, padded, and written into slices: copy2d with  *)
(* parameters that the methods of Tensor compute. The tensors of cat have  *)
(* the sizes of dimension dim and are told apart by their number.          *)

Resized(d, dim, n) == [d EXCEPT ![dim] = n]
SumOf(ns) ==
  LET sum[i \in 0 .. Len(ns)] == IF i = 0 THEN 0 ELSE sum[i - 1] + ns[i]
  IN sum[Len(ns)]

cat(d, dim, sizes) ==
  LET total == SumOf(sizes)
      inner == After(d, dim)
      at(i) == SumOf(SubSeq(sizes, 1, i - 1))
      out == Resized(d, dim, total)
  IN Call(elem_count(out),
          << [i \in DOMAIN sizes |->
                copy2d(<<i>>, Before(d, dim), sizes[i] * inner, total * inner,
                       sizes[i] * inner, at(i) * inner, 0)] >>,
          {LET idx == Index(out, k)
               i == CHOOSE j \in DOMAIN sizes : at(j) <= idx[dim] /\ idx[dim] < at(j + 1)
           IN <<k, <<i, RowMajor([idx EXCEPT ![dim] = @ - at(i)], Resized(d, dim, sizes[i]))>>>> :
             k \in Below(elem_count(out))})

Padded(d, dim, left, right) == Resized(d, dim, d[dim] + left + right)
(* The copy of d2 slices of the operand, from slice src on, to slice dst.  *)
PadWith(d, dim, out, n, dst, src) ==
  copy2d(<<>>, Before(d, dim), n * After(d, dim), out[dim] * After(d, dim),
         d[dim] * After(d, dim), dst * After(d, dim), src * After(d, dim))

pad_with_zeros(d, dim, left, right) ==
  LET out == Padded(d, dim, left, right)
      inside(k) == left <= Index(out, k)[dim] /\ Index(out, k)[dim] < left + d[dim]
  IN Call(elem_count(out),
          << <<{<<k, Zero>> : k \in Below(elem_count(out))}>>,
             <<PadWith(d, dim, out, d[dim], left, 0)>> >>,
          {<<k, <<RowMajor([Index(out, k) EXCEPT ![dim] = @ - left], d)>>>> :
             k \in {j \in Below(elem_count(out)) : inside(j)}})

pad_with_same(d, dim, left, right) ==
  LET out == Padded(d, dim, left, right)
      nearest(i) == IF i < left THEN 0 ELSE Least(i - left, d[dim] - 1)
  IN Call(elem_count(out),
          << <<PadWith(d, dim, out, d[dim], left, 0)>>
             \o [l \in 1 .. left |-> PadWith(d, dim, out, 1, l - 1, 0)]
             \o [r \in 1 .. right |->
                   PadWith(d, dim, out, 1, left + d[dim] + r - 1, d[dim] - 1)] >>,
          {<<k, <<RowMajor([Index(out, k) EXCEPT ![dim] = nearest(@)], d)>>>> :
             k \in Below(elem_count(out))})

(* Into slices offset .. of a tensor with n of them; slice_assign too.     *)
slice_set(d, dim, n, offset) ==
  LET out == Resized(d, dim, n)
      block_size == After(d, dim)
      d2 == block_size * d[dim]
  IN /\ d[dim] + offset <= n
     /\ Call(0,
             << <<copy2d(<<>>, Before(d, dim), d2, block_size * n, d2, offset * block_size, 0)>> >>,
             {<<RowMajor([Index(d, k) EXCEPT ![dim] = @ + offset], out), <<k>>>> :
                k \in Below(elem_count(d))})

index_select(d, dim, ids) ==
  LET right == After(d, dim)
      num_ids == Len(ids)
      out == Resized(d, dim, num_ids)
      from(left, i, r) ==
        IF ids[i] = -1 THEN Zero ELSE <<left * d[dim] * right + ids[i] * right + r>>
  IN Call(elem_count(out),
          << <<{<<left * num_ids * right + (i - 1) * right + r, from(left, i, r)>> :
                  left \in Below(Before(d, dim)), i \in DOMAIN ids, r \in Below(right)}>> >>,
          {LET idx == Index(out, k)
           IN <<k, <<RowMajor([idx EXCEPT ![dim] = ids[@ + 1]], d)>>>> :
             k \in {j \in Below(elem_count(out)) : ids[Index(out, j)[dim] + 1] # -1}})

(* ids[k]: where element k of the source goes along dim. Elements that go  *)
(* to one place are written there in order.                                *)
scatter_set(d, dim, n, ids) ==
  LET right == After(d, dim)
      place(k) == (k \div (d[dim] * right)) * n * right + ids[k + 1] * right + (k % right)
      out == Resized(d, dim, n)
      goes(k) == RowMajor([Index(d, k) EXCEPT ![dim] = ids[k + 1]], out)
      writes == FoldLeft(LAMBDA acc, k : {p \in acc : p[1] # place(k)} \cup {<<place(k), <<k>>>>},
                         {}, [k \in 1 .. elem_count(d) |-> k - 1])
  IN Call(0, << <<writes>> >>,
          {<<goes(k), <<k>>>> :
             k \in {j \in Below(elem_count(d)) :
                      \A i \in j + 1 .. elem_count(d) - 1 : goes(i) # goes(j)}})

-----------------------------------------------------------------------------
(* Rotations by tables of angles, one row for each position, and one table *)
(* for each batch entry or for all of them. Each place of the output gets  *)
(* two products <<place, place of the angle>>.                             *)

(* Where the kernel finds angle i of a row of its batch entry bh_i \div h.  *)
Angle(bh_i, h, t, d, pos, batched, i) ==
  (pos * d) \div 2 + (IF batched THEN ((bh_i \div h) * t * d) \div 2 ELSE 0) + i

RopeRow(bh_i, h, t, d, pos, batched) ==
  UNION {LET i1 == bh_i * t * d + i_t * d + i_d
             i2 == i1 + d \div 2
             a == Angle(bh_i, h, t, d, pos, batched, i_t * (d \div 2) + i_d)
         IN {i1, i2} \X {<<i1, a>>, <<i2, a>>} : i_t \in Below(t), i_d \in Below(d \div 2)}

RopeIRow(bh_i, h, t, d, pos, batched) ==
  UNION {LET i1 == bh_i * t * d + 2 * i
             a == Angle(bh_i, h, t, d, pos, batched, i)
         IN {i1, i1 + 1} \X {<<i1, a>>, <<i1 + 1, a>>} : i \in Below((t * d) \div 2)}

(* Pair j of head bh_i at position i_t turns by angle j of row pos + i_t of *)
(* the table of its own batch entry. Partner(i): the other place of a pair. *)
Rotated(b, h, t, d, pos, batched, max_pos, PairOf(_), Partner(_)) ==
  UNION {LET idx == Index(<<b * h, t, d>>, k)
             own == RowMajor(<<IF batched THEN idx[1] \div h ELSE 0, pos + idx[2], PairOf(idx[3])>>,
                             <<b, max_pos, d \div 2>>)
             other == RowMajor([idx EXCEPT ![3] = Partner(@)], <<b * h, t, d>>)
         IN {<<k, <<k, own>>>>, <<k, <<other, own>>>>} : k \in Below(b * h * t * d)}

RopeAllowed(t, d, pos, max_pos, batched) ==
  /\ d % 2 = 0 /\ pos + t <= max_pos
  /\ batched /\ ~LongTables => max_pos = t

rope(b, h, t, d, pos, batched, max_pos) ==
  /\ RopeAllowed(t, d, pos, max_pos, batched)
  /\ Call(b * h * t * d,
          << Chunks(b * h * t * d, t * d, LAMBDA i : RopeRow(i, h, t, d, pos, batched)) >>,
          Rotated(b, h, t, d, pos, batched, max_pos,
                  LAMBDA i : i % (d \div 2), LAMBDA i : (i + d \div 2) % d))

rope_i(b, h, t, d, pos, batched, max_pos) ==
  /\ RopeAllowed(t, d, pos, max_pos, batched)
  /\ Call(b * h * t * d,
          << Chunks(b * h * t * d, t * d, LAMBDA i : RopeIRow(i, h, t, d, pos, batched)) >>,
          Rotated(b, h, t, d, pos, batched, max_pos,
                  LAMBDA i : i \div 2, LAMBDA i : IF i % 2 = 0 THEN i + 1 ELSE i - 1))

-----------------------------------------------------------------------------
CopyCall ==
  \E d \in Shapes :
    \/ \E dim1, dim2 \in DOMAIN d : transpose(d, dim1, dim2)
    \/ \E s \in [DOMAIN d -> Strides], parallel \in BOOLEAN :
         copy_strided(5, d, s, parallel)

SliceCall ==
  \E d \in Shapes : \E dim \in DOMAIN d :
    \/ \E sizes \in {<<d[dim]>>, <<1, d[dim]>>, <<2, 0, 1>>} : cat(d, dim, sizes)
    \/ \E left, right \in {0, 2} :
         pad_with_zeros(d, dim, left, right) \/ pad_with_same(d, dim, left, right)
    \/ \E offset \in {0, 2} : slice_set(d, dim, d[dim] + 2, offset)
    \/ \E ids \in {<<0, -1>>, <<d[dim] - 1, 0, 0>>} : index_select(d, dim, ids)
    \/ /\ elem_count(d) <= 4
       /\ \E ids \in [1 .. elem_count(d) -> {0, 2}] : scatter_set(d, dim, 3, ids)

RopeCall ==
  \E b, h \in {1, 2}, t, max_pos \in {1, 3}, d \in {2, 4}, pos \in 0 .. 1, batched \in BOOLEAN :
    rope(b, h, t, d, pos, batched, max_pos) \/ rope_i(b, h, t, d, pos, batched, max_pos)

(* Pieces are handed out in order, so the next one that ends is among the  *)
(* first of those left, as many as there are participants.                 *)
RunSome == \E i \in 1 .. PoolSize : RunPiece(i)

-----------------------------------------------------------------------------
(* Properties                                                              *)

Places(piece) == {p[1] : p \in piece}

(* Two participants never write the same place of an output between two    *)
(* barriers: what the unsafe writes of the kernels rest on.                *)
PiecesApart ==
  stages # <<>> =>
    \A i, j \in DOMAIN Head(stages) :
      i # j => Places(Head(stages)[i]) \cap Places(Head(stages)[j]) = {}

(* When the last piece has run, in whatever order they ran, every place of *)
(* a new output is written and the output is what the operation is defined *)
(* to compute from the indices of its operands.                            *)
OutputAsDefined ==
  called /\ stages = <<>> =>
    /\ len > 0 => Places(written) = Below(len)
    /\ {p \in written : p[2] # Zero} = wanted

=============================================================================
