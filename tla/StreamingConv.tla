---------------------------- MODULE StreamingConv ----------------------------
(***************************************************************************)
(* The streaming layers of xn-core/src/models/mimi.rs: convolutions and    *)
(* transposed convolutions that are fed a signal in pieces and keep what   *)
(* the next piece needs, and residual blocks of them. A signal is a        *)
(* sequence of columns. A column of a layer's output is its number, from 1 *)
(* on, if it was computed from what the layer run on the whole signal      *)
(* computes that column from, and Wrong otherwise; so a Wrong column makes *)
(* every column computed from it Wrong. <<>> is StreamTensor::empty.       *)
(* Models are causal, as their configurations are.                         *)
(***************************************************************************)
EXTENDS Integers, Sequences, SequencesExt, Functions

Wrong == -1
Pad == 0

Result(state, out, failed) == [state |-> state, out |-> out, failed |-> failed]

(* Steps of layers one after the other, on what the one before returns;    *)
(* nothing is called with an empty signal.                                 *)
Chain(Step(_, _, _), layers, states, xs) ==
  FoldLeft(LAMBDA acc, i :
             IF acc.failed \/ acc.out = <<>> THEN acc
             ELSE LET r == Step(layers[i], acc.state[i], acc.out)
                  IN Result([acc.state EXCEPT ![i] = r.state], r.out, r.failed),
           Result(states, xs, FALSE), [i \in DOMAIN layers |-> i])

-----------------------------------------------------------------------------
(* StreamableConv1d                                                        *)

Conv(kernel_size, stride, dilation, replicate) ==
  [kind |-> "conv", kernel_size |-> kernel_size, stride |-> stride,
   dilation |-> dilation, replicate |-> replicate]

ConvState == [prev_xs |-> <<>>, left_pad_applied |-> FALSE]

kernel(c) == (c.kernel_size - 1) * c.dilation + 1
padding_total(c) == kernel(c) - c.stride

pad1d(c, xs) ==
  [i \in 1 .. padding_total(c) |-> IF c.replicate THEN Head(xs) ELSE Pad] \o xs

(* What column n of the padded whole signal is computed from.              *)
Window(c, n) ==
  [i \in 1 .. c.kernel_size |->
     LET p == n * c.stride - (c.kernel_size - i) * c.dilation
     IN IF p >= 1 THEN p ELSE IF c.replicate THEN 1 ELSE Pad]

Column(c, window) ==
  LET n == Last(window) \div c.stride
  IN IF n >= 1 /\ window = Window(c, n) THEN n ELSE Wrong

(* Conv1d::forward, which pads nothing itself.                             *)
conv_forward(c, xs) ==
  [j \in 1 .. (Len(xs) - kernel(c)) \div c.stride + 1 |->
     Column(c, [i \in 1 .. c.kernel_size |->
                  xs[(j - 1) * c.stride + (i - 1) * c.dilation + 1]])]

forward(c, xs) == conv_forward(c, pad1d(c, xs))

(* At least one frame is asked for, even of fewer columns than one takes:  *)
(* the call then fails, after the columns it counted have been dropped.    *)
num_frames(c, all) ==
  (IF Len(all) > kernel(c) THEN Len(all) - kernel(c) ELSE 0) \div c.stride + 1

consumed(c, all) == num_frames(c, all) * c.stride

(* The columns kept for the next step; mutant: as many, but the first ones. *)
KeptFirst(c, all) == SubSeq(all, 1, Len(all) - consumed(c, all))
KeptForNext(c, all) == SubSeq(all, consumed(c, all) + 1, Len(all))

(* The first step is padded on the left.                                   *)
Padded(c, st, xs) == IF st.left_pad_applied THEN xs ELSE pad1d(c, xs)

conv_step(c, st, xs) ==
  LET all == st.prev_xs \o Padded(c, st, xs)
      in_len == (num_frames(c, all) - 1) * c.stride + kernel(c)
      rest == [prev_xs |-> KeptForNext(c, all), left_pad_applied |-> TRUE]
  IN IF in_len > Len(all) THEN Result(rest, <<>>, TRUE)
     ELSE Result(rest, conv_forward(c, SubSeq(all, 1, in_len)), FALSE)

-----------------------------------------------------------------------------
(* StreamableConvTranspose1d. A column is the taps <<x, k>> added up in it, *)
(* column x of the input through tap k, and how often the bias was added.  *)

ConvTr(kernel_size, stride) ==
  [kind |-> "convtr", kernel_size |-> kernel_size, stride |-> stride]

Taps(c, xs, p) ==
  {<<xs[l], p - (l - 1) * c.stride>> :
     l \in {j \in DOMAIN xs : p - (j - 1) * c.stride \in 0 .. c.kernel_size - 1}}

(* ConvTranspose1d::forward, and what is left of it by unpad1d.            *)
convtr_forward(c, xs) ==
  [p \in 1 .. (Len(xs) - 1) * c.stride + c.kernel_size |->
     [taps |-> Taps(c, xs, p - 1), bias |-> 1]]

Summed(c, y) ==
  LET t == CHOOSE t \in y.taps : TRUE
      p == (t[1] - 1) * c.stride + t[2]
      whole == {<<l, p - (l - 1) * c.stride>> :
                  l \in {j \in 1 .. p + 1 : p - (j - 1) * c.stride \in 0 .. c.kernel_size - 1}}
  IN IF y.taps = whole /\ y.bias = 1 THEN p + 1 ELSE Wrong

transposed(c, xs) ==
  LET ys == convtr_forward(c, xs)
  IN [p \in 1 .. Len(ys) - (c.kernel_size - c.stride) |-> Summed(c, ys[p])]

(* The end of the output, which the next piece adds to, is kept with the   *)
(* bias, which is taken off before it is added.                            *)
convtr_step(c, prev_ys, xs) ==
  LET fresh == convtr_forward(c, xs)
      plus(y, prev) == [taps |-> y.taps \cup prev.taps, bias |-> y.bias + prev.bias - 1]
      ys == [p \in DOMAIN fresh |-> IF p <= Len(prev_ys) THEN plus(fresh[p], prev_ys[p]) ELSE fresh[p]]
      valid_len == Len(ys) - (c.kernel_size - c.stride)
  IN Result(SubSeq(ys, valid_len + 1, Len(ys)),
            [p \in 1 .. valid_len |-> Summed(c, ys[p])], FALSE)

-----------------------------------------------------------------------------
(* SeaNetResnetBlock: convolutions of stride 1 whose output is added to    *)
(* the input, or to a convolution of it.                                   *)

Block(convs, shortcut) == [kind |-> "block", convs |-> convs, shortcut |-> shortcut]

BlockState(b) ==
  [convs |-> [i \in DOMAIN b.convs |-> ConvState],
   shortcut |-> [i \in DOMAIN b.shortcut |-> ConvState]]

Added(xs, ys) == [i \in DOMAIN xs |-> IF xs[i] = ys[i] THEN xs[i] ELSE Wrong]

resnet_forward(b, xs) ==
  LET through(convs) == FoldLeft(LAMBDA ys, c : forward(c, ys), xs, convs)
  IN Added(through(b.convs), through(b.shortcut))

resnet_step(b, st, xs) ==
  LET ys == Chain(conv_step, b.convs, st.convs, xs)
      short == Chain(conv_step, b.shortcut, st.shortcut, xs)
      state == [convs |-> ys.state, shortcut |-> short.state]
  IN IF ys.failed \/ ys.out = <<>> THEN Result([st EXCEPT !.convs = ys.state], <<>>, ys.failed)
     ELSE IF short.failed \/ Len(ys.out) # Len(short.out) THEN Result(state, <<>>, TRUE)
     ELSE Result(state, Added(ys.out, short.out), FALSE)

=============================================================================
