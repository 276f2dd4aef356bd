---------------------------- MODULE DemucsStream ----------------------------
(***************************************************************************)
(* The Demucs streamer of xn-core/src/models/demucs.rs: a signal fed in    *)
(* pieces is cut into overlapping frames; what one frame computes and the  *)
(* next needs again is kept for it at every encoder, in the LSTM and at    *)
(* every decoder. Columns are those of StreamingConv: numbers from 1 on,   *)
(* each Wrong if computed from other columns than the ones Demucs::forward *)
(* computes it from, on a signal that goes on. Resampling looks one column *)
(* back; what it looks ahead to (extra among it), normalization and the    *)
(* dry signal are left out.                                                *)
(***************************************************************************)
EXTENDS StreamingConv

CONSTANTS
  depth, kernel_size, stride,     (* Config                                *)
  Setups,         (* [resample, num_frames, resample_lookahead,            *)
                  (*  resample_buffer] of streamers                        *)
  Pieces,         (* lengths of the pieces                                 *)
  MaxTotal        (* bound on the columns since a reset                    *)

VARIABLES
  setup,          (* of Setups                                             *)
  pending,        (* columns not yet passed by all frames they are in      *)
  conv_state,     (* <<>>, or what each encoder but the last and each      *)
                  (* decoder keeps                                         *)
  lstm_state,     (* columns the LSTM has been through, or Wrong           *)
  resample_in, resample_out,
  total,          (* columns since the last reset, with those of flush     *)
  fed,            (* columns of the signal, until it is flushed            *)
  flushed,
  emitted         (* what was returned for the signal                      *)

vars == <<setup, pending, conv_state, lstm_state, resample_in, resample_out,
          total, fed, flushed, emitted>>

-----------------------------------------------------------------------------
(* Config and DemucsStreamer::new                                          *)

ceil_div(a, b) == (a + b - 1) \div b
total_stride(s) == stride ^ depth \div s.resample

valid_length(s, length) ==
  LET passes == [i \in 1 .. depth |-> i]
      down(n, i) == IF n <= kernel_size THEN 1 ELSE ceil_div(n - kernel_size, stride) + 1
      up(n, i) == (n - 1) * stride + kernel_size
  IN ceil_div(FoldLeft(up, FoldLeft(down, length * s.resample, passes), passes), s.resample)

buffer(s) == IF s.resample_buffer < total_stride(s) THEN s.resample_buffer ELSE total_stride(s)
total_length(s) == valid_length(s, 1) + s.resample_lookahead
initial_frame_length(s) == total_length(s) + total_stride(s) * (s.num_frames - 1)
frame_stride(s) == total_stride(s) * s.num_frames

-----------------------------------------------------------------------------
(* Resampling by 2, any number of times                                    *)

At(xs, i) == IF i \in DOMAIN xs THEN xs[i] ELSE Pad

upsample2(xs) ==
  [j \in 1 .. 2 * Len(xs) |->
     LET i == (j + 1) \div 2
     IN IF xs[i] = Wrong \/ At(xs, i - 1) # xs[i] - 1 THEN Wrong
        ELSE 2 * xs[i] - (j % 2)]

downsample2(ys) ==
  [i \in 1 .. (Len(ys) + 1) \div 2 |->
     LET n == ys[2 * i - 1]
     IN IF n > 0 /\ n % 2 = 1 /\ At(ys, 2 * i) = n + 1 /\ At(ys, 2 * i - 2) = n - 1
        THEN (n + 1) \div 2 ELSE Wrong]

Resampled(by2(_), s, xs) ==
  CASE s.resample = 4 -> by2(by2(xs))
    [] s.resample = 2 -> by2(xs)
    [] OTHER -> xs

-----------------------------------------------------------------------------
(* Layers                                                                  *)

(* EncoderBlock::forward, by fast_conv or not.                             *)
encode(xs) ==
  [j \in 1 .. (Len(xs) - kernel_size) \div stride + 1 |->
     LET window == SubSeq(xs, (j - 1) * stride + 1, (j - 1) * stride + kernel_size)
         first == window[1]
     IN IF /\ first > 0 /\ first % stride = 1 % stride
           /\ window = [i \in 1 .. kernel_size |-> first + i - 1]
        THEN (first - 1) \div stride + 1 ELSE Wrong]

(* With a state, an encoder computes the columns of a frame that the frame *)
(* before did not, from the end of its input.                              *)
kept_too_late(layer_stride) == layer_stride      (* mutant                 *)
kept_from(layer_stride) == layer_stride + 1

encode_next(prev, layer_stride, xs) ==
  LET known == SubSeq(prev, kept_from(layer_stride), Len(prev))
      tgt == (Len(xs) - kernel_size) \div stride + 1
      missing == tgt - Len(known)
      offset == Len(xs) - kernel_size - stride * (missing - 1)
  IN IF missing > 0 THEN known \o encode(SubSeq(xs, offset + 1, Len(xs))) ELSE known

(* Lstm::forward carries a state through its columns, one after the other. *)
lstm_next(state, xs) ==
  [i \in DOMAIN xs |-> IF state # Wrong /\ \A j \in 1 .. i : xs[j] = state + j THEN xs[i] ELSE Wrong]

Decoder == ConvTr(kernel_size, stride)

(* A decoder adds the skip of its encoder, keeps the last columns of the   *)
(* transposed convolution without their bias and adds those it kept.       *)
decode(prev, skip, xs) ==
  LET n == IF Len(xs) < Len(skip) THEN Len(xs) ELSE Len(skip)
      ys == convtr_forward(Decoder, Added(SubSeq(xs, 1, n), SubSeq(skip, 1, n)))
      done == Len(ys) - stride
      plus(y, p) == [taps |-> y.taps \cup p.taps, bias |-> y.bias + p.bias]
  IN [state |-> [j \in 1 .. stride |-> [ys[done + j] EXCEPT !.bias = @ - 1]],
      out |-> [p \in 1 .. done |->
                 Summed(Decoder, IF p <= Len(prev) THEN plus(ys[p], prev[p]) ELSE ys[p])]]

-----------------------------------------------------------------------------
(* separate_frame: the encoders one after the other, the LSTM, the decoders *)
(* back through the encoders' outputs. conv_state is emptied from the       *)
(* front, first by the encoders.                                            *)

Encoded(s, state, frame) ==
  FoldLeft(LAMBDA outs, idx :
             LET xs == IF idx = 1 THEN frame ELSE outs[idx - 1]
                 layer_stride == (frame_stride(s) * s.resample) \div stride ^ idx
             IN Append(outs, IF idx = depth \/ state = <<>> THEN encode(xs)
                             ELSE encode_next(state[idx], layer_stride, xs)),
           <<>>, [i \in 1 .. depth |-> i])

Decoded(state, skips, xs) ==
  FoldLeft(LAMBDA acc, idx :
             LET prev == IF state = <<>> THEN <<>> ELSE state[depth - 1 + idx]
                 r == decode(prev, skips[depth + 1 - idx], acc.out)
             IN [state |-> Append(acc.state, r.state), out |-> r.out],
           [state |-> <<>>, out |-> xs], [i \in 1 .. depth |-> i])

separate_frame(s, st, frame) ==
  LET skips == Encoded(s, st.conv_state, frame)
      xs == lstm_next(st.lstm_state, skips[depth])
      back == Decoded(st.conv_state, skips, xs)
  IN [conv_state |-> SubSeq(skips, 1, depth - 1) \o back.state,
      lstm_state |-> Last(xs), out |-> back.out]

-----------------------------------------------------------------------------
(* feed                                                                    *)

Streamer == [pending |-> pending, conv_state |-> conv_state, lstm_state |-> lstm_state,
             resample_in |-> resample_in, resample_out |-> resample_out, outs |-> <<>>]

process(s, st) ==
  LET frame == SubSeq(st.pending, 1, initial_frame_length(s))
      up == Resampled(upsample2, s, st.resample_in \o frame)
      r == separate_frame(s, st, SubSeq(up, s.resample * buffer(s) + 1,
                                        s.resample * (buffer(s) + initial_frame_length(s))))
      down == Resampled(downsample2, s, st.resample_out \o r.out)
      skipped == buffer(s) \div s.resample
  IN [pending |-> SubSeq(st.pending, frame_stride(s) + 1, Len(st.pending)),
      conv_state |-> r.conv_state, lstm_state |-> r.lstm_state,
      resample_in |-> SubSeq(frame, frame_stride(s) - buffer(s) + 1, frame_stride(s)),
      resample_out |-> SubSeq(r.out, Len(r.out) - buffer(s) + 1, Len(r.out)),
      outs |-> st.outs \o SubSeq(down, skipped + 1, skipped + frame_stride(s))]

(* The frames that the pending columns hold.                               *)
frames(s, n) ==
  IF n < initial_frame_length(s) THEN 0
  ELSE (n - initial_frame_length(s)) \div frame_stride(s) + 1

Fed(s, n) ==
  LET wav == [i \in 1 .. n |-> total + i]
      st == [Streamer EXCEPT !.pending = @ \o wav]
  IN FoldLeft(LAMBDA acc, i : process(s, acc), st, [i \in 1 .. frames(s, Len(st.pending)) |-> i])

Becomes(st) ==
  /\ pending' = st.pending /\ conv_state' = st.conv_state /\ lstm_state' = st.lstm_state
  /\ resample_in' = st.resample_in /\ resample_out' = st.resample_out

-----------------------------------------------------------------------------
Silence(n) == [i \in 1 .. n |-> Pad]

Init ==
  /\ setup \in Setups
  /\ pending = <<>> /\ conv_state = <<>> /\ lstm_state = 0
  /\ resample_in = Silence(buffer(setup)) /\ resample_out = Silence(buffer(setup))
  /\ total = 0 /\ fed = 0 /\ flushed = FALSE /\ emitted = <<>>

feed(n) ==
  /\ total + n <= MaxTotal
  /\ \E st \in {Fed(setup, n)} :
       /\ Becomes(st)
       /\ emitted' = IF flushed THEN emitted ELSE emitted \o st.outs
  /\ total' = total + n
  /\ fed' = IF flushed THEN fed ELSE fed + n
  /\ UNCHANGED <<setup, flushed>>

(* flush feeds silence and returns as many columns as were pending, or all *)
(* if none was; nothing else is forgotten. Mutant: too little silence.     *)
padding_unless_ahead(s) == valid_length(s, 1) - 1
padding(s) == total_length(s)

flush ==
  /\ total + padding(setup) <= MaxTotal
  /\ \E st \in {Fed(setup, padding(setup))} :
       LET n == Len(pending)
           out == IF Len(st.outs) > n /\ n > 0 THEN SubSeq(st.outs, 1, n) ELSE st.outs
       IN /\ Becomes(st)
          /\ emitted' = IF flushed THEN emitted ELSE emitted \o out
  /\ total' = total + padding(setup)
  /\ flushed' = TRUE
  /\ UNCHANGED <<setup, fed>>

reset ==
  /\ pending' = <<>> /\ conv_state' = <<>> /\ lstm_state' = 0
  /\ resample_in' = Silence(buffer(setup)) /\ resample_out' = Silence(buffer(setup))
  /\ total' = 0 /\ fed' = 0 /\ flushed' = FALSE /\ emitted' = <<>>
  /\ UNCHANGED setup

Next == (\E n \in Pieces : feed(n)) \/ flush \/ reset

Spec == Init /\ [][Next]_vars

-----------------------------------------------------------------------------
(* Properties                                                              *)

TypeOK ==
  /\ setup \in Setups
  /\ Len(pending) < initial_frame_length(setup)
  /\ Len(conv_state) \in {0, 2 * depth - 1}
  /\ lstm_state \in Nat \cup {Wrong}
  /\ Len(resample_in) = buffer(setup) /\ Len(resample_out) = buffer(setup)
  /\ total \in 0 .. MaxTotal /\ fed \in 0 .. total /\ flushed \in BOOLEAN

Numbered(n) == [i \in 1 .. n |-> i]

(* feed: whatever the pieces, the columns returned are those of the whole  *)
(* signal, each once, in order, as many as there were frames for, each     *)
(* computed from what the model run on the whole signal uses.              *)
FramesAlign == ~flushed => emitted = Numbered(frame_stride(setup) * frames(setup, fed))

(* flush: with frames of one stride, everything fed has then been returned.*)
FlushCompletes == (flushed /\ setup.num_frames = 1 /\ fed > 0) => emitted = Numbered(fed)

=============================================================================
