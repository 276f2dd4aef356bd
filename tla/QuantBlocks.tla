---------------------------- MODULE QuantBlocks ----------------------------
(***************************************************************************)
(* The quantized blocks of quantized/k_quants.rs: from_float packs the     *)
(* levels, scales and minima of QK elements into the bytes of one block,   *)
(* to_float and vec_dot_unopt take them out again, each with loops, masks  *)
(* and shifts of its own.  What a level or a scale is worth is rounding    *)
(* and is left out; which bit of it lies where is what is modelled. The    *)
(* optional layout of KleidiAI, which is lossy, is not.                    *)
(*                                                                         *)
(* A machine number is the set of its bits that may be 1, a bit being      *)
(* <<position, of, index, bit>>: at `position' lies bit `bit' of number    *)
(* `index' of a kind ("level", "scale", "min", "m").  `|' is \cup, `&'     *)
(* keeps some positions, shifts move them.                                 *)
(***************************************************************************)
EXTENDS Integers, FiniteSets, TLC

CONSTANT Formats     \* the block types considered

VARIABLES
  format,            \* the dtype of the block
  block,             \* field -> byte -> number
  fills,             \* how often from_float wrote the block
  ys,                \* to_float: element -> what it is decoded from
  dot                \* vec_dot_unopt: element of the other operand -> what multiplies it

vars == <<format, block, fills, ys, dot>>

MaxFills == 2        \* bound: quantizations into the same block

QK_K == 256
QK == 32             \* QK4_0 = QK4_1 = QK5_0 = QK5_1 = QK8_0 = QK8_1

KFormats == {"Q2K", "Q3K", "Q4K", "Q5K", "Q6K", "Q8K"}
BlckSize(f) == IF f \in KFormats THEN QK_K ELSE QK
Elements(f) == 0 .. BlckSize(f) - 1

-----------------------------------------------------------------------------
(* Numbers. *)
Number(of, i, bits) == { <<b, of, i, b>> : b \in 0 .. bits - 1 }
Shl(v, n) == { [t EXCEPT ![1] = @ + n] : t \in v }
Shr(v, n) == { [t EXCEPT ![1] = @ - n] : t \in {u \in v : u[1] >= n} }
Low(v, n) == { t \in v : t[1] < n }                      \* v & (2^n - 1)
LowOfBytes(w, n) == { t \in w : t[1] % 8 < n }           \* w & 0x0f0f0f0f and the like
BitAt(v, n) == Low(Shr(v, n), 1)                         \* v & (1 << n) != 0
U8(v) == Low(v, 8)
Word(bytes, i) == UNION { Shl(bytes[4 * i + k], 8 * k) : k \in 0 .. 3 }   \* read_u32
ByteOf(w, k) == Low(Shr(w, 8 * k), 8)                    \* write_u32, to_le_bytes

Level(i, bits) == Number("level", i, bits)

(* What an element is decoded from: (level - minus) * (scale - less) - min, the   *)
(* factors of a whole block (d, dmin, m) aside.  A scale or minimum the format    *)
(* has not is {}.                                                                 *)
Decoded(level, minus, scale, less, min) ==
  [level |-> level, minus |-> minus, scale |-> scale, less |-> less, min |-> min]
Plain(level, minus) == Decoded(level, minus, {}, 0, {})

-----------------------------------------------------------------------------
(* Q4_0 and Q4_1: two levels of 4 bits in a byte, half a block apart.  Q4_1 adds m. *)
Nibbles == [j \in 0 .. 15 |-> U8(Level(j, 4) \cup Shl(Level(j + 16, 4), 4))]
Nibble(qs, e) == IF e < 16 THEN Low(qs[e], 4) ELSE Shr(qs[e - 16], 4)

Q4_0_from_float(b) == [b EXCEPT !.qs = Nibbles]
Q4_0_to_float(b) == [e \in 0 .. 31 |-> Plain(Nibble(b.qs, e), 8)]
Q4_0_vec_dot(b) == [e \in 0 .. 31 |-> Plain(Nibble(b.qs, e), 8)]

Q4_1_from_float(b) == [b EXCEPT !.qs = Nibbles, !.m = Number("m", 0, 16)]
Q4_1_to_float(b) == [e \in 0 .. 31 |-> Decoded(Nibble(b.qs, e), 0, {}, 0, b.m)]
Q4_1_vec_dot(b) == [e \in 0 .. 31 |-> Decoded(Nibble(b.qs, e), 0, {}, 0, b.m)]

(* Q5_0 and Q5_1: the fifth bit of element j is bit j of the word qh. *)
FiveBitNibbles == [j \in 0 .. 15 |-> Low(Level(j, 5), 4) \cup Shl(Low(Level(j + 16, 5), 4), 4)]
FifthBits ==
  UNION { Shl(BitAt(Level(j, 5), 4), j) \cup Shl(BitAt(Level(j + 16, 5), 4), j + 16) : j \in 0 .. 15 }
FifthBytes == [k \in 0 .. 3 |-> ByteOf(FifthBits, k)]
Q5_0_from_float(b) == [b EXCEPT !.qs = FiveBitNibbles, !.qh = FifthBytes]
Q5_1_from_float(b) == [b EXCEPT !.qs = FiveBitNibbles, !.qh = FifthBytes, !.m = Number("m", 0, 16)]

(* (qh >> (j + 12)) & 0x10 is bit j + 16 at position 4. *)
Masked16(v) == { t \in v : t[1] = 4 }

(* The fifth bit of the second half left where the shift by 16 puts it. *)
FifthBitUnshifted(b, e) ==
  LET qh == Word(b.qh, 0)
  IN  IF e < 16 THEN Masked16(Shl(Shr(qh, e), 4)) ELSE Masked16(Shr(qh, e))

FifthBit(b, e) ==
  LET qh == Word(b.qh, 0)
  IN  IF e < 16 THEN Masked16(Shl(Shr(qh, e), 4)) ELSE Masked16(Shr(qh, e - 16 + 12))
FiveBits(b, e) == Nibble(b.qs, e) \cup FifthBit(b, e)
Q5_0_to_float(b) == [e \in 0 .. 31 |-> Plain(FiveBits(b, e), 16)]
Q5_1_to_float(b) == [e \in 0 .. 31 |-> Decoded(FiveBits(b, e), 0, {}, 0, b.m)]
Q5_1_vec_dot(b) == Q5_1_to_float(b)

(* Q5_0's dot product isolates the bit before it shifts it. *)
Q5_0_vec_dot(b) ==
  LET qh == Word(b.qh, 0)
      Only(n) == { t \in qh : t[1] = n }                 \* qh & (1 << n)
      xh_0(j) == Shl(Shr(Only(j), j), 4)
      xh_1(j) == Shr(Only(j + 16), j + 12)
  IN  [e \in 0 .. 31 |-> Plain(Nibble(b.qs, e) \cup (IF e < 16 THEN xh_0(e) ELSE xh_1(e - 16)), 16)]

(* Q8_0 and Q8K: a level is a byte. *)
Q8_0_from_float(b) == [b EXCEPT !.qs = [j \in 0 .. 31 |-> Level(j, 8)]]
Q8_0_to_float(b) == [e \in 0 .. 31 |-> Plain(b.qs[e], 0)]
Q8K_from_float(b) == [b EXCEPT !.qs = [j \in 0 .. 255 |-> Level(j, 8)]]
Q8K_to_float(b) == [e \in 0 .. 255 |-> Plain(b.qs[e], 0)]

-----------------------------------------------------------------------------
(* Q2K: four levels of 2 bits in a byte, 32 elements apart; scale j in the low    *)
(* and minimum j in the high nibble of scales[j].                                  *)
Quarter(bits, i) ==       \* byte i of qs, levels of `bits' low bits each
  LET j == (i \div 32) * 128   l == i % 32
      L(k) == Low(Level(j + l + 32 * k, bits), 2)
  IN  U8(L(0) \cup Shl(L(1), 2) \cup Shl(L(2), 4) \cup Shl(L(3), 6))
Q2K_from_float(b) ==
  [b EXCEPT !.scales = [j \in 0 .. 15 |-> Number("scale", j, 4) \cup Shl(Number("min", j, 4), 4)],
            !.qs = [i \in 0 .. 63 |-> Quarter(2, i)]]

(* Element e is in half h of 128, its quarter s there, and the 16 of scale `is'. *)
TwoBits(qs, e) ==
  LET h == e \div 128   s == (e % 128) \div 32
  IN  Low(Shr(qs[32 * h + (e % 32)], 2 * s), 2)
Is16(e) == 8 * (e \div 128) + 2 * ((e % 128) \div 32) + (e % 32) \div 16
Q2K_to_float(b) ==
  [e \in 0 .. 255 |->
     LET sc == b.scales[Is16(e)]
     IN  Decoded(TwoBits(b.qs, e), 0, Low(sc, 4), 0, Shr(sc, 4))]
(* The minima are taken with the sums of 16 elements of the other operand (bsums). *)
Q2K_vec_dot(b) ==
  [e \in 0 .. 255 |->
     Decoded(TwoBits(b.qs, e), 0, Low(b.scales[Is16(e)], 4), 0, Shr(b.scales[e \div 16], 4))]

-----------------------------------------------------------------------------
(* Q3K: the low 2 bits as in Q2K, the third of element e in bit e / 32 of         *)
(* hmask[e % 32]; scales of 6 bits: the low 4 of scale j in a nibble of byte       *)
(* j % 8, the high 2 in bits 2 * (j / 4) of byte 8 + j % 4.  The bytes of scales   *)
(* are cleared, then or-ed into.                                                    *)
Q3K_scale_bytes ==
  LET S(j) == Number("scale", j, 6)
  IN  [i \in 0 .. 11 |->
         IF i < 8 THEN Low(S(i), 4) \cup Shl(Low(S(i + 8), 4), 4)
         ELSE U8(UNION { Shl(Shr(S(j), 4), 2 * (j \div 4)) : j \in {k \in 0 .. 15 : (k % 4) = i - 8} })]

Q3K_from_float(b) ==
  [b EXCEPT !.scales = Q3K_scale_bytes,
            !.hmask = [i \in 0 .. 31 |-> UNION { Shl(BitAt(Level(i + 32 * k, 3), 2), k) : k \in 0 .. 7 }],
            !.qs = [i \in 0 .. 63 |-> Quarter(3, i)]]

(* The scales as four words, byte k of word w being scale 4 * w + k. *)
Q3K_scales(b) ==
  LET aux == [i \in 0 .. 2 |-> Word(b.scales, i)]
      high(n) == Shl(LowOfBytes(Shr(aux[2], n), 2), 4)               \* KMASK1
      words == [w \in 0 .. 3 |->
                  CASE w = 0 -> LowOfBytes(aux[0], 4) \cup high(0)   \* KMASK2
                    [] w = 1 -> LowOfBytes(aux[1], 4) \cup high(2)
                    [] w = 2 -> LowOfBytes(Shr(aux[0], 4), 4) \cup high(4)
                    [] w = 3 -> LowOfBytes(Shr(aux[1], 4), 4) \cup high(6)]
  IN  [j \in 0 .. 15 |-> ByteOf(words[j \div 4], j % 4)]
(* m, one bit to the left every 32 elements, over both halves; no bit means -4. *)
ThirdBit(b, e) == Shl(BitAt(b.hmask[e % 32], e \div 32), 2)
Q3K_to_float(b) ==
  LET scales == Q3K_scales(b)
  IN  [e \in 0 .. 255 |-> Decoded(TwoBits(b.qs, e) \cup ThirdBit(b, e), 4, scales[Is16(e)], 32, {})]
(* The dot product walks the scales in order, 16 elements each. *)
Q3K_vec_dot(b) ==
  LET scales == Q3K_scales(b)
  IN  [e \in 0 .. 255 |-> Decoded(TwoBits(b.qs, e) \cup ThirdBit(b, e), 4, scales[e \div 16], 32, {})]

-----------------------------------------------------------------------------
(* Q4K and Q5K: 8 scales and 8 minima of 6 bits in 12 bytes. *)
K4_scale_bytes ==
  LET ls(j) == Number("scale", j, 6)
      lm(j) == Number("min", j, 6)
  IN  [i \in 0 .. 11 |->
         CASE i < 4 -> ls(i) \cup U8(Shl(Shr(ls(i + 4), 4), 6))
           [] i \in 4 .. 7 -> lm(i - 4) \cup U8(Shl(Shr(lm(i), 4), 6))
           [] i > 7 -> Low(ls(i - 4), 4) \cup Shl(Low(lm(i - 4), 4), 4)]

get_scale_min_k4(j, q) ==
  IF j < 4 THEN <<Low(q[j], 6), Low(q[j + 4], 6)>>
  ELSE << Low(q[j + 4], 4) \cup Shl(Shr(q[j - 4], 6), 4),
          Shr(q[j + 4], 4) \cup Shl(Shr(q[j], 6), 4) >>

(* The same taken out of words by the dot products: <<scales, mins>>. *)
K4_words(b) ==
  LET u == [i \in 0 .. 2 |-> Word(b.scales, i)]
      high(w) == Shl(LowOfBytes(Shr(w, 6), 2), 4)                    \* KMASK3
      scales == <<LowOfBytes(u[0], 6), LowOfBytes(u[2], 4) \cup high(u[0])>>
      mins == <<LowOfBytes(u[1], 6), LowOfBytes(Shr(u[2], 4), 4) \cup high(u[1])>>
      Bytes(ws) == [j \in 0 .. 7 |-> ByteOf(ws[1 + j \div 4], j % 4)]
  IN  <<Bytes(scales), Bytes(mins)>>

(* Two levels in a byte, 32 elements apart; Q5K's fifth bits as Q3K's third ones. *)
Pairs(bits) ==
  [i \in 0 .. 127 |->
     LET j == (i \div 32) * 64   l == i % 32
     IN  Low(Level(j + l, bits), 4) \cup Shl(Low(Level(j + l + 32, bits), 4), 4)]
FourBits(qs, e) ==
  LET q == qs[32 * (e \div 64) + (e % 32)]
  IN  IF e % 64 < 32 THEN Low(q, 4) ELSE Shr(q, 4)

Q4K_from_float(b) == [b EXCEPT !.scales = K4_scale_bytes, !.qs = Pairs(4)]
Q4K_to_float(b) ==
  [e \in 0 .. 255 |->
     LET s == get_scale_min_k4(e \div 32, b.scales)
     IN  Decoded(FourBits(b.qs, e), 0, s[1], 0, s[2])]
(* Scale by scale, four times eight elements; the minimum of bsums[j] is mins[j / 2]. *)
Q4K_vec_dot(b) ==
  LET s == K4_words(b)
  IN  [e \in 0 .. 255 |->
         Decoded(FourBits(b.qs, e), 0, s[1][e \div 32], 0, s[2][(e \div 16) \div 2])]

FifthBitK(b, e) == Shl(BitAt(b.qh[e % 32], 2 * (e \div 64) + (e % 64) \div 32), 4)
Q5K_from_float(b) ==
  LET fifth(i, k) == BitAt(Level(32 * k + i, 5), 4)
  IN  [b EXCEPT !.scales = K4_scale_bytes, !.qs = Pairs(5),
                !.qh = [i \in 0 .. 31 |-> UNION { Shl(fifth(i, 2 * g), 2 * g)
                                                    \cup Shl(fifth(i, 2 * g + 1), 2 * g + 1) : g \in 0 .. 3 }]]
Q5K_to_float(b) ==
  [e \in 0 .. 255 |->
     LET s == get_scale_min_k4(e \div 32, b.scales)
     IN  Decoded(FourBits(b.qs, e) \cup FifthBitK(b, e), 0, s[1], 0, s[2])]
Q5K_vec_dot(b) ==
  LET s == K4_words(b)
  IN  [e \in 0 .. 255 |->
         Decoded(FourBits(b.qs, e) \cup FifthBitK(b, e), 0, s[1][e \div 32], 0, s[2][(e \div 16) \div 2])]

-----------------------------------------------------------------------------
(* Q6K: in each half of 128, elements l, l + 64 share byte l of ql and l + 32,     *)
(* l + 96 byte l + 32; the high 2 bits of the four are in byte l of qh.             *)
Q6K_from_float(b) ==
  LET L(h, k) == Level(128 * h + k, 6)
      low(h, k) == Low(L(h, k), 4)
  IN  [b EXCEPT
         !.scales = [j \in 0 .. 15 |-> Number("scale", j, 8)],
         !.ql = [i \in 0 .. 127 |-> LET h == i \div 64 IN low(h, i % 64) \cup Shl(low(h, (i % 64) + 64), 4)],
         !.qh = [i \in 0 .. 63 |->
                   LET h == i \div 32   l == i % 32
                   IN  UNION { Shl(Shr(L(h, l + 32 * k), 4), 2 * k) : k \in 0 .. 3 }]]
SixBits(b, e) ==
  LET h == e \div 128   r == e % 128
      q == b.ql[64 * h + (r % 64)]
  IN  (IF r < 64 THEN Low(q, 4) ELSE Shr(q, 4))
        \cup Shl(Low(Shr(b.qh[32 * h + (r % 32)], 2 * (r \div 32)), 2), 4)
Q6K_to_float(b) ==
  [e \in 0 .. 255 |->
     Decoded(SixBits(b, e), 32,
             b.scales[8 * (e \div 128) + (e % 32) \div 16 + 2 * ((e % 128) \div 32)], 0, {})]
Q6K_vec_dot(b) == [e \in 0 .. 255 |-> Decoded(SixBits(b, e), 32, b.scales[e \div 16], 0, {})]

-----------------------------------------------------------------------------
(* Per format: its fields with their numbers of bytes, and its three functions. *)
ArraysOf(f) ==
  CASE f = "Q4_0" -> [qs |-> 16]
    [] f = "Q4_1" -> [qs |-> 16]
    [] f = "Q5_0" -> [qs |-> 16, qh |-> 4]
    [] f = "Q5_1" -> [qs |-> 16, qh |-> 4]
    [] f = "Q8_0" -> [qs |-> 32]
    [] f = "Q2K" -> [scales |-> 16, qs |-> 64]
    [] f = "Q3K" -> [hmask |-> 32, qs |-> 64, scales |-> 12]
    [] f = "Q4K" -> [scales |-> 12, qs |-> 128]
    [] f = "Q5K" -> [scales |-> 12, qh |-> 32, qs |-> 128]
    [] f = "Q6K" -> [ql |-> 128, qh |-> 64, scales |-> 16]
    [] f = "Q8K" -> [qs |-> 256]

from_float(f, b) ==
  CASE f = "Q4_0" -> Q4_0_from_float(b) [] f = "Q4_1" -> Q4_1_from_float(b)
    [] f = "Q5_0" -> Q5_0_from_float(b) [] f = "Q5_1" -> Q5_1_from_float(b)
    [] f = "Q8_0" -> Q8_0_from_float(b) [] f = "Q8K" -> Q8K_from_float(b)
    [] f = "Q2K" -> Q2K_from_float(b) [] f = "Q3K" -> Q3K_from_float(b)
    [] f = "Q4K" -> Q4K_from_float(b) [] f = "Q5K" -> Q5K_from_float(b)
    [] f = "Q6K" -> Q6K_from_float(b)
to_float(f, b) ==
  CASE f = "Q4_0" -> Q4_0_to_float(b) [] f = "Q4_1" -> Q4_1_to_float(b)
    [] f = "Q5_0" -> Q5_0_to_float(b) [] f = "Q5_1" -> Q5_1_to_float(b)
    [] f = "Q8_0" -> Q8_0_to_float(b) [] f = "Q8K" -> Q8K_to_float(b)
    [] f = "Q2K" -> Q2K_to_float(b) [] f = "Q3K" -> Q3K_to_float(b)
    [] f = "Q4K" -> Q4K_to_float(b) [] f = "Q5K" -> Q5K_to_float(b)
    [] f = "Q6K" -> Q6K_to_float(b)
vec_dot_unopt(f, b) ==
  CASE f = "Q4_0" -> Q4_0_vec_dot(b) [] f = "Q4_1" -> Q4_1_vec_dot(b)
    [] f = "Q5_0" -> Q5_0_vec_dot(b) [] f = "Q5_1" -> Q5_1_vec_dot(b)
    [] f = "Q8_0" -> Q8_0_to_float(b) [] f = "Q8K" -> Q8K_to_float(b)
    [] f = "Q2K" -> Q2K_vec_dot(b) [] f = "Q3K" -> Q3K_vec_dot(b)
    [] f = "Q4K" -> Q4K_vec_dot(b) [] f = "Q5K" -> Q5K_vec_dot(b)
    [] f = "Q6K" -> Q6K_vec_dot(b)

(* The scale and minimum from_float reads back from the block it is writing and     *)
(* divides element e by.                                                             *)
ReadBack(f, b, e) ==
  CASE f = "Q2K" -> LET sc == b.scales[e \div 16] IN <<Low(sc, 4), Shr(sc, 4)>>
    [] f = "Q3K" ->
         LET j == e \div 16
             low == IF j < 8 THEN Low(b.scales[j], 4) ELSE Shr(b.scales[j - 8], 4)
             high == Low(Shr(b.scales[8 + (j % 4)], 2 * (j \div 4)), 2)
         IN  <<low \cup Shl(high, 4), {}>>
    [] f \in {"Q4K", "Q5K"} -> get_scale_min_k4(e \div 32, b.scales)
    [] f = "Q6K" -> <<b.scales[e \div 16], {}>>
    [] OTHER -> <<{}, b.m>>

-----------------------------------------------------------------------------
(* A block starts zeroed (GgmlType::zeros) or as any earlier contents left it. *)
Bytes(n, stale) == [i \in 0 .. n - 1 |-> IF stale THEN Number("stale", i, 8) ELSE {}]
Fresh(f, stale) ==
  LET n == ArraysOf(f)
  IN  [field \in DOMAIN n |-> Bytes(n[field], stale)] @@ [m |-> {}]

BlocksInit ==
  /\ format \in Formats
  /\ \E stale \in BOOLEAN : block = Fresh(format, stale)
  /\ fills = 0
  /\ ys = <<>>
  /\ dot = <<>>

Quantize ==
  /\ fills < MaxFills
  /\ fills' = fills + 1
  /\ block' = from_float(format, block)
  /\ ys' = <<>>
  /\ dot' = <<>>
  /\ UNCHANGED format

Dequantize ==
  /\ fills > 0 /\ ys = <<>>
  /\ ys' = to_float(format, block)
  /\ UNCHANGED <<format, block, fills, dot>>

VecDot ==
  /\ fills > 0 /\ dot = <<>>
  /\ dot' = vec_dot_unopt(format, block)
  /\ UNCHANGED <<format, block, fills, ys>>

BlocksNext == Quantize \/ Dequantize \/ VecDot

-----------------------------------------------------------------------------
(* What every element should be decoded from, whatever the layout: its own level,   *)
(* and the scale and minimum of its own group.                                       *)
Meaning(f, e) ==
  LET Grouped(bits, minus, size, scale_bits, less, min_bits) ==
        Decoded(Level(e, bits), minus, Number("scale", e \div size, scale_bits), less,
                Number("min", e \div size, min_bits))
      m == Number("m", 0, 16)
  IN  CASE f = "Q4_0" -> Plain(Level(e, 4), 8)
        [] f = "Q4_1" -> Decoded(Level(e, 4), 0, {}, 0, m)
        [] f = "Q5_0" -> Plain(Level(e, 5), 16)
        [] f = "Q5_1" -> Decoded(Level(e, 5), 0, {}, 0, m)
        [] f \in {"Q8_0", "Q8K"} -> Plain(Level(e, 8), 0)
        [] f = "Q2K" -> Grouped(2, 0, 16, 4, 0, 4)
        [] f = "Q3K" -> Grouped(3, 4, 16, 6, 32, 0)
        [] f = "Q4K" -> Grouped(4, 0, 32, 6, 0, 6)
        [] f = "Q5K" -> Grouped(5, 0, 32, 6, 0, 6)
        [] f = "Q6K" -> Grouped(6, 32, 16, 8, 0, 0)

(* The block has its fields, and once it is written every bit of a byte is at most  *)
(* one bit of one number: no two values share a place and nothing stale is left.     *)
TypeOK ==
  /\ format \in Formats
  /\ fills \in 0 .. MaxFills
  /\ DOMAIN block = DOMAIN ArraysOf(format) \cup {"m"}
  /\ \A field \in DOMAIN ArraysOf(format) :
       /\ DOMAIN block[field] = 0 .. ArraysOf(format)[field] - 1
       /\ fills > 0 =>
            \A i \in DOMAIN block[field] : \A t \in block[field][i] :
              /\ t[1] \in 0 .. 7
              /\ t[2] # "stale"
              /\ \A u \in block[field][i] : u[1] = t[1] => u = t

(* Dequantizing returns every element from its own level with its own scale and      *)
(* minimum, and the dot product multiplies every element of the other operand by      *)
(* exactly that: to_float, vec_dot_unopt and from_float agree on the layout, whatever *)
(* the block held before.                                                              *)
EveryElementItsOwn ==
  \A e \in Elements(format) :
    /\ ys # <<>> => ys[e] = Meaning(format, e)
    /\ dot # <<>> => dot[e] = Meaning(format, e)

(* from_float divides every element by the scale, and shifts it by the minimum, that  *)
(* decoding will use for it, read back from the bytes it has just packed.              *)
DividedByItsScale ==
  ys # <<>> => \A e \in Elements(format) : ReadBack(format, block, e) = <<ys[e].scale, ys[e].min>>
=============================================================================
