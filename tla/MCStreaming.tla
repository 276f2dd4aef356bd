---------------------------- MODULE MCStreaming ----------------------------
(* Small instances of what keeps the past of a stream: the rotating and    *)
(* the scattered key/value cache, the Mimi tokenizer and the Demucs        *)
(* streamer. They share nothing, so a behaviour runs one of them, chosen   *)
(* at the start, while the others stay as they start; the properties are   *)
(* those its module states, and that its state has the types it should.    *)
EXTENDS RotatingCache, ScatteredCache, TLC

CONSTANTS
  Machines,      (* those considered                                       *)
  MimiContext,   (* keys that Mimi's attention keeps                       *)
  MimiMaxFed     (* bound on the columns fed to it between resets          *)

VARIABLES
  machine,
  v1, v2, v3, v4, v5, v6, v7, v8, v9, v10   (* its state, but for the caches   *)

(* One downsampling convolution on either side, each with a residual       *)
(* block of two convolutions, and the attention in between.                *)
Mimi == INSTANCE MimiStream WITH
  ratios <- <<2>>, kernel_size <- 3, residual_kernel_size <- 3, last_kernel_size <- 2,
  dilation_base <- 2, n_residual_layers <- 1, true_skip <- FALSE,
  downsample_stride <- 2, context <- MimiContext, Pieces <- 0 .. 4, MaxFed <- MimiMaxFed,
  side <- v1, layers <- v2, fed <- v3, emitted <- v4, attended <- v5,
  trimmed <- v6, mixed <- v7, framed <- v8, failed <- v9

(* Two encoders, frames of one stride and of two, with and without columns *)
(* to look ahead at, and resampling by two with a buffer it can use.       *)
Setups ==
  [resample : {1}, num_frames : {1, 2}, resample_lookahead : {0, 2}, resample_buffer : {0, 1, 9}]
  \cup [resample : {2}, num_frames : {1, 2}, resample_lookahead : {0, 1}, resample_buffer : {2}]
Demucs == INSTANCE DemucsStream WITH
  depth <- 2, kernel_size <- 4, stride <- 2, Pieces <- {0, 1, 2, 3, 5, 9}, MaxTotal <- 34,
  setup <- v1, pending <- v2, conv_state <- v3, lstm_state <- v4, resample_in <- v5,
  resample_out <- v6, total <- v7, fed <- v8, flushed <- v9, emitted <- v10

state == <<v1, v2, v3, v4, v5, v6, v7, v8, v9, v10>>

Unused == "unused"

(* The batch is one of several for the scattered cache only.               *)
StreamingInit ==
  /\ machine \in Machines
  /\ Init /\ BuilderInit
  /\ machine = "scattered" \/ batch = CHOOSE b \in Batches : TRUE
  /\ \/ machine = "demucs" /\ Demucs!Init
     \/ machine = "mimi" /\ Mimi!Init /\ v10 = Unused
     \/ /\ machine \in {"ring", "scattered"}
        /\ v1 = Unused /\ v2 = Unused /\ v3 = Unused /\ v4 = Unused /\ v5 = Unused
        /\ v6 = Unused /\ v7 = Unused /\ v8 = Unused /\ v9 = Unused /\ v10 = Unused

StreamingNext ==
  /\ UNCHANGED machine
  /\ \/ machine = "ring" /\ Next /\ UNCHANGED <<scattered_vars, state>>
     \/ machine = "scattered" /\ BuilderNext /\ UNCHANGED <<vars, state>>
     \/ machine = "mimi" /\ Mimi!Next /\ UNCHANGED <<vars, scattered_vars, v10>>
     \/ machine = "demucs" /\ Demucs!Next /\ UNCHANGED <<vars, scattered_vars>>

StreamingSpec == StreamingInit /\ [][StreamingNext]_<<vars, scattered_vars, machine, state>>

AllLens == 1 .. 2 * max_seq_len + 1

(* What takes each batch to one of the same size.                          *)
Symmetry == {f \in Permutations(UNION Batches) : \A b \in Batches : {f[e] : e \in b} \in Batches}

(* Mimi: what the steps return is what the whole signal gives.             *)
StreamIsWhole == machine = "mimi" => Mimi!TypeOK /\ Mimi!StreamIsWhole

(* Mimi: "Apply causal mask" leaves no query a key after its own.          *)
NoFutureKey == machine = "mimi" => Mimi!NoFutureKey

(* Demucs: the columns of overlapping frames join up, each computed from   *)
(* what the whole signal's is.                                             *)
FramesAlign == machine = "demucs" => Demucs!TypeOK /\ Demucs!FramesAlign

(* Demucs: once flushed, everything fed has been returned.                 *)
FlushCompletes == machine = "demucs" => Demucs!FlushCompletes

=============================================================================
