---------------------------- MODULE QuantMatmul ----------------------------
(***************************************************************************)
(* The product with a quantized weight: which layout the weight is kept in *)
(* (quantized/repack.rs), and which block of a weight row meets which      *)
(* block of an activation row for which output, when participants of the   *)
(* pool share the work: a row of outputs in pieces (matmul_by_row), tiles  *)
(* of the sgemm kernels (avx.rs, neon.rs), or groups of interleaved        *)
(* columns (Job::run).  A block is seen as its runs of BLOCKLEN values; a  *)
(* run of weight c, block b is <<c, b, run>>, of activation r <<r, b, run>>.*)
(***************************************************************************)
EXTENDS Integers, Sequences, FiniteSets

CONSTANTS
  Products,      \* calls: [m, n, k, kernel, repack, nth], k in runs
  NCOLS,         \* columns fused into one interleaved block
  RUNS,          \* QK8_0 / BLOCKLEN, runs in a block
  MR,            \* activation rows of an interleaved tile
  PIECE          \* outputs in a piece of matmul_by_row

VARIABLES
  call,          \* the product being computed
  storage,       \* the weight as held: "plain" or "interleaved", and its blocks
  todo,          \* tasks no participant has run
  dst            \* output -> the sums written to it, in order

vars == <<call, storage, todo, dst>>

CeilDiv(a, b) == (a + b - 1) \div b
Least(a, b) == IF a < b THEN a ELSE b
Block(of, b) == [run \in 0 .. RUNS - 1 |-> <<of, b, run>>]
Blocks(rows, kb) == [i \in 0 .. rows * kb - 1 |-> Block(i \div kb, i % kb)]

-----------------------------------------------------------------------------
(* Layouts. *)
is_eligible(n, k) == n % NCOLS = 0 /\ k % RUNS = 0 /\ n > 0 /\ k > 0

(* Run i of the fused block is run i / NCOLS of column i % NCOLS. *)
interleave(src) == [i \in 0 .. RUNS * NCOLS - 1 |-> src[i % NCOLS][i \div NCOLS]]

deinterleave(fused) ==
  [col \in 0 .. NCOLS - 1 |-> [run \in 0 .. RUNS - 1 |-> fused[run * NCOLS + col]]]

from_q8_0(src, n, kb) ==
  [i \in 0 .. (n \div NCOLS) * kb - 1 |->
     interleave([c \in 0 .. NCOLS - 1 |-> src[((i \div kb) * NCOLS + c) * kb + (i % kb)]])]
unpack(fused, n, kb) ==
  [i \in 0 .. n * kb - 1 |->
     LET row == i \div kb
     IN  deinterleave(fused[(row \div NCOLS) * kb + (i % kb)])[row % NCOLS]]

q8_0_storage(src, c) ==
  IF c.repack /\ is_eligible(c.n, c.k)
  THEN [layout |-> "interleaved", blocks |-> from_q8_0(src, c.n, c.k \div RUNS)]
  ELSE [layout |-> "plain", blocks |-> src]
raw_data(s, c) ==
  IF s.layout = "interleaved" THEN unpack(s.blocks, c.n, c.k \div RUNS) ELSE s.blocks

-----------------------------------------------------------------------------
(* A dot product: the pairs multiplied, block by block and run by run. *)
PairedRuns(x, y) == [run \in 0 .. RUNS - 1 |-> <<x[run], y[run]>>]
vec_dot(kb, rhs, at, lhs, from) ==
  [b \in 0 .. kb - 1 |-> PairedRuns(rhs[at + b], lhs[from + b])]

(* matmul_by_row: piece c of row r; the rows one after the other. *)
RowPieces(c) == (0 .. c.m - 1) \X (0 .. CeilDiv(c.n, PIECE) - 1)
RowPiece(c, kb, rhs, lhs, task) ==
  LET r == task[1]
      cols == task[2] * PIECE .. Least((task[2] + 1) * PIECE, c.n) - 1
  IN  [ out \in { r * c.n + col : col \in cols } |-> <<vec_dot(kb, rhs, (out % c.n) * kb, lhs, r * kb)>> ]

-----------------------------------------------------------------------------
(* The sgemm kernels: the first tile size that fits the corner (m0, n0), all its    *)
(* whole tiles, then the strips left on both sides.                                  *)
AvxTile(mr, nr) ==
  CASE mr = 4 /\ nr >= 2 -> <<4, 2>>
    [] mr \in {2, 3} /\ nr = 4 -> <<2, 4>>
    [] mr = 3 /\ nr \in {2, 3} -> <<3, 2>>
    [] OTHER -> <<mr, nr>>
NeonTile(mr, nr) == <<mr, nr>>
TileSize(kernel, mr, nr) == IF kernel = "avx" THEN AvxTile(mr, nr) ELSE NeonTile(mr, nr)

(* gemm: the tiles of the ith of nth participants, as <<first row, first column, size>>. *)
gemm(size, m0, m, n0, n, ith, nth) ==
  LET ytiles == (m - m0) \div size[1]
      xtiles == (n - n0) \div size[2]
      duty == CeilDiv(xtiles * ytiles, nth)
      start == duty * ith
  IN  { <<m0 + (job \div xtiles) * size[1], n0 + (job % xtiles) * size[2], size>> :
          job \in start .. Least(start + duty, xtiles * ytiles) - 1 }

RECURSIVE mnpack(_, _, _, _, _, _, _)
mnpack(kernel, m0, m, n0, n, ith, nth) ==
  LET mr == Least(m - m0, 4)   nr == Least(n - n0, 4)
  IN  IF mr = 0 \/ nr = 0 THEN {}
      ELSE LET size == TileSize(kernel, mr, nr)
               mp == m0 + ((m - m0) \div size[1]) * size[1]
               np == n0 + ((n - n0) \div size[2]) * size[2]
           IN  gemm(size, m0, m, n0, n, ith, nth)
                 \cup mnpack(kernel, mp, m, n0, np, ith, nth)
                 \cup mnpack(kernel, m0, m, np, n, ith, nth)

(* matmul_q8_0_sgemm swaps the roles: sgemm's a is the weight, its b the activation, *)
(* and c[n * j + i] the output of activation j and weight i.                          *)
TileOutputs(c, t) ==
  { <<c.n * (t[2] + j) + t[1] + i, t[1] + i, t[2] + j>> : i \in 0 .. t[3][1] - 1, j \in 0 .. t[3][2] - 1 }
sgemm_q8_0_tile(c, kb, rhs, lhs, ith) ==
  LET tiles == mnpack(c.kernel, 0, c.n, 0, c.m, ith, c.nth)
      Covering(o) == { t \in tiles : \E w \in TileOutputs(c, t) : w[1] = o }
      Sum(o) == LET t == CHOOSE t \in Covering(o) : TRUE
                    w == CHOOSE w \in TileOutputs(c, t) : w[1] = o
                IN  vec_dot(kb, rhs, w[2] * kb, lhs, w[3] * kb)
  IN  [o \in { w[1] : w \in UNION { TileOutputs(c, t) : t \in tiles } } |->
         [i \in 1 .. Cardinality(Covering(o)) |-> Sum(o)]]

-----------------------------------------------------------------------------
(* matmul_interleaved: participant ith takes the column groups [g0, g1) and, for     *)
(* each, the rows in tiles of MR and then one by one.                                  *)
Groups(c, ith) ==
  LET ngroups == c.n \div NCOLS
      duty == CeilDiv(ngroups, c.nth)
      g0 == Least(duty * ith, ngroups)
  IN  IF ngroups = 1 THEN {0} ELSE g0 .. Least(g0 + duty, ngroups) - 1

RowTiles(m) ==
  { <<MR * t, MR>> : t \in 0 .. (m \div MR) - 1 } \cup { <<r, 1>> : r \in MR * (m \div MR) .. m - 1 }
tile(kb, fused, g, lhs, row, c) ==
  [b \in 0 .. kb - 1 |->
     LET wb == fused[g * kb + b]   ab == lhs[row * kb + b]
     IN  [run \in 0 .. RUNS - 1 |-> <<wb[run * NCOLS + c], ab[run]>>]]
Job_run(c, kb, fused, lhs, ith) ==
  LET outs == (0 .. c.m - 1) \X Groups(c, ith) \X (0 .. NCOLS - 1)
      at(w) == w[1] * c.n + w[2] * NCOLS + w[3]
      times(w) == Cardinality({ t \in RowTiles(c.m) : w[1] \in t[1] .. t[1] + t[2] - 1 })
  IN  [o \in { at(w) : w \in outs } |->
         LET w == CHOOSE w \in outs : at(w) = o
         IN  [i \in 1 .. times(w) |-> tile(kb, fused, w[2], lhs, w[1], w[3])]]

-----------------------------------------------------------------------------
k_blocks == call.k \div RUNS
Activation == Blocks(call.m, k_blocks)                              \* quantize_lhs
Outputs == 0 .. call.m * call.n - 1

(* The kernel a call ends in: an interleaved weight has its own, a plain q8_0 one the *)
(* sgemm of this build when there is one, rows and pieces otherwise.                    *)
Kernel(c, s) ==
  IF s.layout = "interleaved" THEN "interleaved" ELSE IF c.kernel = "none" THEN "rows" ELSE "sgemm"
Tasks(c, s) ==
  CASE Kernel(c, s) = "rows" -> RowPieces(c)
    [] Kernel(c, s) = "sgemm" -> { <<ith, 0>> : ith \in 0 .. c.nth - 1 }
    [] Kernel(c, s) = "interleaved" ->
         { <<ith, 0>> : ith \in IF c.n = NCOLS THEN {0} ELSE 0 .. c.nth - 1 }
Written(c, s, task) ==
  CASE Kernel(c, s) = "rows" -> RowPiece(c, k_blocks, s.blocks, Activation, task)
    [] Kernel(c, s) = "sgemm" -> sgemm_q8_0_tile(c, k_blocks, s.blocks, Activation, task[1])
    [] Kernel(c, s) = "interleaved" -> Job_run(c, k_blocks, s.blocks, Activation, task[1])

ProductInit ==
  /\ call \in Products
  /\ storage = q8_0_storage(Blocks(call.n, call.k \div RUNS), call)
  (* a row that is no whole number of blocks is refused by from_float *)
  /\ todo = IF call.k % RUNS = 0 THEN Tasks(call, storage) ELSE {}
  /\ dst = [o \in 0 .. call.m * call.n - 1 |-> <<>>]

(* A participant runs one task; matmul_by_row takes its rows one after the other. *)
RunTask(task) ==
  /\ task \in todo
  /\ Kernel(call, storage) = "rows" => \A other \in todo : task[1] <= other[1]
  /\ todo' = todo \ {task}
  /\ LET written == Written(call, storage, task)
     IN  dst' = [o \in DOMAIN dst |-> IF o \in DOMAIN written THEN dst[o] \o written[o] ELSE dst[o]]
  /\ UNCHANGED <<call, storage>>

ProductNext == \E task \in todo : RunTask(task)

-----------------------------------------------------------------------------
TypeOK ==
  /\ call \in Products
  /\ storage.layout = "interleaved" => is_eligible(call.n, call.k)
  /\ todo \subseteq Tasks(call, storage)
  /\ DOMAIN dst = Outputs

(* No two participants, and no two tiles of one, write the same output: the raw        *)
(* pointers they write through do not alias.                                             *)
OutputsApart == \A o \in DOMAIN dst : Len(dst[o]) <= 1

(* When the participants are done, every output is the dot product of its activation    *)
(* row and its weight row, over every run of every block once.                            *)
ProductAsDefined ==
  todo = {} /\ call.k % RUNS = 0 =>
    \A o \in Outputs :
      dst[o] = << vec_dot(k_blocks, Blocks(call.n, k_blocks), (o % call.n) * k_blocks,
                          Activation, (o \div call.n) * k_blocks) >>

(* Whatever layout the weight is held in, its bytes are given out as the plain stream.   *)
CanonicalBytes == raw_data(storage, call) = Blocks(call.n, k_blocks)
=============================================================================
