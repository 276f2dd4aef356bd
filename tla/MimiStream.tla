----------------------------- MODULE MimiStream -----------------------------
(***************************************************************************)
(* The Mimi tokenizer fed step by step (xn-core/src/models/mimi.rs): its   *)
(* encoder (encode_step) or decoder (decode_step) as a chain of streaming  *)
(* layers with an attention over the columns so far in between, against    *)
(* the same layers run on the whole signal (encode, decode). Quantization  *)
(* and activations work on each column by itself and are left out.         *)
(***************************************************************************)
EXTENDS StreamingConv

CONSTANTS
  ratios, kernel_size, residual_kernel_size, last_kernel_size,
  dilation_base, n_residual_layers, true_skip,      (* SeaNetConfig        *)
  downsample_stride,
  context,        (* TransformerConfig: keys that attention keeps          *)
  Pieces,         (* lengths of the pieces                                 *)
  MaxFed          (* bound on the columns fed between resets               *)

VARIABLES
  side,           (* "encode" or "decode"                                  *)
  layers,         (* the state of each layer                               *)
  fed,            (* columns since the last reset                          *)
  emitted,        (* what the steps since then returned                    *)
  attended,       (* the keys that each query of the last step saw         *)
  trimmed,        (* whether attention has dropped a key                   *)
  mixed,          (* whether attention was run on another signal           *)
  framed,         (* whether each piece since the reset is whole frames    *)
  failed          (* whether a step has returned an error                  *)

vars == <<side, layers, fed, emitted, attended, trimmed, mixed, framed, failed>>

-----------------------------------------------------------------------------
(* The layers, as SeaNetEncoder::load and the others make them.            *)

ResnetBlock(j) ==
  Block(<<Conv(residual_kernel_size, 1, dilation_base ^ j, FALSE), Conv(1, 1, 1, FALSE)>>,
        IF true_skip THEN <<>> ELSE <<Conv(1, 1, 1, FALSE)>>)
Residuals == [j \in 1 .. n_residual_layers |-> ResnetBlock(j - 1)]

Outer(size) == <<Conv(size, 1, 1, FALSE)>>

SeaNetEncoder ==
  Outer(kernel_size)
  \o FlattenSeq([i \in DOMAIN ratios |->
       LET ratio == Reverse(ratios)[i] IN Residuals \o <<Conv(2 * ratio, ratio, 1, FALSE)>>])
  \o Outer(last_kernel_size)

SeaNetDecoder ==
  Outer(kernel_size)
  \o FlattenSeq([i \in DOMAIN ratios |-> <<ConvTr(2 * ratios[i], ratios[i])>> \o Residuals])
  \o Outer(last_kernel_size)

Attention == [kind |-> "attention"]
ConvDownsample1d == Conv(2 * downsample_stride, downsample_stride, 1, TRUE)
ConvTrUpsample1d == ConvTr(2 * downsample_stride, downsample_stride)

Mimi(s) == IF s = "encode" THEN SeaNetEncoder \o <<Attention, ConvDownsample1d>>
           ELSE <<ConvTrUpsample1d, Attention>> \o SeaNetDecoder

InitialState(c) ==
  CASE c.kind = "conv" -> ConvState
    [] c.kind = "block" -> BlockState(c)
    [] OTHER -> <<>>

-----------------------------------------------------------------------------
(* StreamingTransformer: the cache is the keys kept, each with the         *)
(* position it was rotated to.                                             *)

Keys(offset, xs) == [i \in DOMAIN xs |-> [column |-> xs[i], at |-> offset + i]]

KvAppend(cache, keys) ==
  LET all == cache \o keys
  IN IF Len(all) > context THEN SubSeq(all, Len(all) - context + 1, Len(all)) ELSE all

(* Positions start after the keys that the cache holds, and the mask hides *)
(* the keys after slot offset + i of those returned from query i.          *)
Sees(cache, xs, i) ==
  LET offset == Len(cache)
      kept == KvAppend(cache, Keys(offset, xs))
  IN {kept[j] : j \in {j \in DOMAIN kept : j <= offset + i}}

(* Query i has its own column if it attends to all columns up to its own,  *)
(* each rotated by its distance.                                           *)
attention(cache, xs) ==
  LET offset == Len(cache)
      right(i) ==
        Sees(cache, xs, i)
          = {[column |-> c, at |-> offset + i - (xs[i] - c)] : c \in 1 .. xs[i]}
  IN Result(KvAppend(cache, Keys(offset, xs)),
            [i \in DOMAIN xs |-> IF right(i) THEN xs[i] ELSE Wrong], FALSE)

-----------------------------------------------------------------------------
Step(c, st, xs) ==
  CASE c.kind = "conv" -> conv_step(c, st, xs)
    [] c.kind = "convtr" -> convtr_step(c, st, xs)
    [] c.kind = "block" -> resnet_step(c, st, xs)
    [] OTHER -> attention(st, xs)

(* The layers run on a whole signal, attention from an empty cache on.     *)
Forward(c, xs) ==
  CASE c.kind = "conv" -> forward(c, xs)
    [] c.kind = "convtr" -> transposed(c, xs)
    [] c.kind = "block" -> resnet_forward(c, xs)
    [] OTHER -> attention(<<>>, xs).out

(* What the layers return for the whole signal.                            *)
Whole(s, n) ==
  FoldLeft(LAMBDA xs, c : IF xs = <<>> THEN <<>> ELSE Forward(c, xs), [i \in 1 .. n |-> i], Mimi(s))

AttentionAt(s) == CHOOSE i \in DOMAIN Mimi(s) : Mimi(s)[i].kind = "attention"

(* What reaches the attention when a piece is fed.                         *)
Reaching(s, states, xs) ==
  LET before == AttentionAt(s) - 1
  IN Chain(Step, SubSeq(Mimi(s), 1, before), SubSeq(states, 1, before), xs)

-----------------------------------------------------------------------------
TypeOK ==
  /\ side \in {"encode", "decode"}
  /\ DOMAIN layers = DOMAIN Mimi(side)
  /\ \A i \in DOMAIN layers :
       Mimi(side)[i].kind = "conv" =>
         Len(layers[i].prev_xs) <= kernel(Mimi(side)[i]) - 1
  /\ Len(layers[AttentionAt(side)]) <= context
  /\ fed \in 0 .. MaxFed
  /\ emitted \in Seq(Int)
  /\ {trimmed, mixed, framed, failed} \subseteq BOOLEAN

Empty(s) == [i \in DOMAIN Mimi(s) |-> InitialState(Mimi(s)[i])]

Init ==
  /\ side \in {"encode", "decode"}
  /\ layers = Empty(side)
  /\ fed = 0 /\ emitted = <<>> /\ attended = <<>>
  /\ trimmed = FALSE /\ mixed = FALSE /\ framed = TRUE /\ failed = FALSE

(* The columns that the encoder makes one of; any number is whole frames   *)
(* to the decoder.                                                         *)
Frame(s) ==
  IF s = "encode" THEN downsample_stride * FoldLeft(LAMBDA n, ratio : n * ratio, 1, ratios) ELSE 1

(* encode_step, decode_step                                                *)
step(n) ==
  /\ ~failed
  /\ fed + n <= MaxFed
  /\ \E xs \in {[i \in 1 .. n |-> fed + i]} :
     \E r \in {Chain(Step, Mimi(side), layers, xs)}, q \in {Reaching(side, layers, xs)} :
     LET cache == layers[AttentionAt(side)]
     IN /\ layers' = r.state
        /\ emitted' = emitted \o r.out
        /\ failed' = r.failed
        /\ attended' = IF q.failed THEN <<>>
                       ELSE [i \in DOMAIN q.out |-> <<q.out[i], {k.column : k \in Sees(cache, q.out, i)}>>]
        /\ trimmed' = (trimmed \/ (~q.failed /\ Len(cache) + Len(q.out) > context))
  /\ fed' = fed + n
  /\ framed' = (framed /\ n % Frame(side) = 0)
  /\ UNCHANGED <<side, mixed>>

reset_state ==
  /\ layers' = Empty(side)
  /\ fed' = 0 /\ emitted' = <<>> /\ attended' = <<>>
  /\ trimmed' = FALSE /\ mixed' = FALSE /\ framed' = TRUE /\ failed' = FALSE
  /\ UNCHANGED side

(* encode, decode of another signal, which runs the attention from a reset *)
(* cache on and leaves its keys in it.                                     *)
Other == 100
whole(n) ==
  /\ n > 0
  /\ layers' = [layers EXCEPT ![AttentionAt(side)] =
                  KvAppend(<<>>, Keys(0, [i \in 1 .. n |-> Other + i]))]
  /\ mixed' = TRUE
  /\ UNCHANGED <<side, fed, emitted, attended, trimmed, framed, failed>>

Next == (\E n \in Pieces : step(n) \/ whole(n)) \/ reset_state

Spec == Init /\ [][Next]_vars

-----------------------------------------------------------------------------
(* Properties                                                              *)

(* Fed in pieces of any lengths, after any resets, the layers return what  *)
(* they return for the whole signal, column for column and none later -    *)
(* until a step fails, attention drops a key, or encode or decode is       *)
(* called in between. No step of whole frames fails.                       *)
StreamIsWhole ==
  /\ ~(failed \/ trimmed \/ mixed) => emitted = Whole(side, fed)
  /\ framed => ~failed

(* apply_causality_mask, "Apply causal mask" of the attention: no query     *)
(* attends to a column after its own.                                      *)
NoFutureKey == \A i \in DOMAIN attended : \A k \in attended[i][2] : k <= attended[i][1]

=============================================================================
