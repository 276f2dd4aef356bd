--------------------------- MODULE ScatteredCache ---------------------------
(***************************************************************************)
(* ScatteredCacheBuilder and ScatteredKvCache of                           *)
(* xn-core/src/models/kv_cache.rs: a ring of keys per element of a batch,  *)
(* where each step may advance only some elements. The builder decides, in *)
(* indices_and_mask, where the keys of a step go and what its queries may  *)
(* see; the cache of a layer, later, scatters the keys there and returns   *)
(* its whole ring. An element may be reset on its own at any time.         *)
(*                                                                         *)
(* A step's indices are applied before the next step's are asked for; a    *)
(* reset may come between.                                                 *)
(*                                                                         *)
(* A key is the stream it belongs to (an element starts a new stream with  *)
(* each reset) and its position there. The rows of an element that is not  *)
(* active in a step carry padding. One layer stands for all: each applies  *)
(* the same indices to its own ring.                                       *)
(*                                                                         *)
(* A step of context keys and more has one mask for the whole batch, which *)
(* takes the shape asked of it only if the batch is of one: otherwise the  *)
(* call is an error that leaves everything as it was.                      *)
(***************************************************************************)
EXTENDS Integers, FiniteSets

CONSTANTS
  Batches,      (* batches a builder may be made for, each a set of elements *)
  context,      (* keys a ring holds                                       *)
  StepLens,     (* numbers of keys that steps bring                        *)
  MaxPos,       (* bound: keys of one stream                               *)
  MaxStreams    (* bound: streams of one element                           *)

ASSUME BuilderAssumption ==
  /\ context \in Nat \ {0}
  /\ StepLens \subseteq Nat \ {0}
  /\ MaxPos \in Nat /\ MaxStreams \in Nat

VARIABLES
  batch,              (* the elements of the builder's batch               *)
  stream_positions,   (* ScatteredCacheBuilder::positions                  *)
  indices,      (* ScatteredCacheBuilder::indices                          *)
  k,            (* ScatteredKvCache::k, one ring per element               *)
  stream,       (* the stream each element is in                           *)
  unstored,     (* history: keys of its stream up to the last long step    *)
  iam,          (* the IndicesAndMask of the last step                     *)
  applied,      (* whether its append has been done                        *)
  returned      (* what the last append returned                           *)

builder == <<batch, stream_positions, indices, stream, unstored>>
scattered_vars == <<builder, k, iam, applied, returned>>

RingSlots == 0 .. context - 1
Below(n) == 0 .. n - 1
Blank == [stream |-> -1, pos |-> -1]      (* a slot nothing was stored in  *)
Padding == [stream |-> -1, pos |-> 0]     (* the row of an inactive element *)
Key(s, p) == [stream |-> s, pos |-> p]
NoStep == [seq_len |-> 0]

BuilderInit ==
  /\ batch \in Batches
  /\ stream_positions = [b \in batch |-> 0] /\ indices = [b \in batch |-> 0]
  /\ k = [b \in batch |-> [s \in RingSlots |-> Blank]]
  /\ stream = [b \in batch |-> 0] /\ unstored = [b \in batch |-> 0]
  /\ iam = NoStep /\ applied = TRUE /\ returned = k

-----------------------------------------------------------------------------
(* indices_and_mask                                                        *)

(* The slot of the i-th key of a step, and the index after i of them.      *)
IndexAfter(b, i) == (indices[b] + i) % context

(* The positions of the ring's slots (all_pos), Unset where there is none. *)
Unset == MaxPos + 1
HeldBefore(b, s) ==
  LET start_pos == stream_positions[b]
      shift == start_pos - indices[b]
  IN IF start_pos < context THEN (IF s < start_pos THEN s ELSE Unset)
     ELSE IF s < indices[b] THEN s + shift ELSE s + shift - context
all_pos(b, n) ==
  [s \in RingSlots |->
     IF \E i \in Below(n) : IndexAfter(b, i) = s
     THEN stream_positions[b] + (CHOOSE i \in Below(n) : IndexAfter(b, i) = s)
     ELSE HeldBefore(b, s)]

(* What each query of an element sees: slots of the ring, or, in a step of *)
(* context keys and more, keys of the step itself.                         *)
SeesAnyHeld(b, n, active) ==
  [q \in Below(n) |-> {s \in RingSlots : b \in active => all_pos(b, n)[s] # Unset}]
Sees(b, n, active) ==
  [q \in Below(n) |-> {s \in RingSlots : b \in active => all_pos(b, n)[s] <= stream_positions[b] + q}]
SeesAbs(n) == [q \in Below(n) |-> {j \in Below(n) : j <= q /\ j + context >= q}]

(* Indices that move on whoever is active.                                 *)
AdvanceWholeBatch(n, active) ==
  /\ stream_positions' = [b \in batch |-> IF b \in active THEN stream_positions[b] + n ELSE stream_positions[b]]
  /\ indices' = [b \in batch |-> IndexAfter(b, n)]
  /\ UNCHANGED unstored

(* stream_positions and indices move on for the active elements only.      *)
Advance(n, active) ==
  /\ stream_positions' = [b \in batch |-> IF b \in active THEN stream_positions[b] + n ELSE stream_positions[b]]
  /\ indices' = [b \in batch |-> IF b \in active THEN IndexAfter(b, n) ELSE indices[b]]
  /\ unstored' = [b \in batch |-> IF b \in active /\ context <= n THEN stream_positions'[b]
                                  ELSE unstored[b]]

Into(b, n, active) ==
  [i \in Below(n) |-> IF b \in active THEN IndexAfter(b, i) ELSE indices[b]]

(* The one mask of a long step, seq_len by seq_len, is reshaped for batch. *)
MaskFits(n) == context <= n => Cardinality(batch) = 1

indices_and_mask(n, active) ==
  /\ applied /\ MaskFits(n)
  /\ \A b \in active : stream_positions[b] + n <= MaxPos
  /\ iam' = [seq_len |-> n, active |-> active, unstored |-> unstored,
             indices |-> [b \in batch |-> Into(b, n, active)],
             mask |-> [b \in batch |-> IF context <= n THEN SeesAbs(n) ELSE Sees(b, n, active)],
             rows |-> [b \in batch |-> [i \in Below(n) |->
                         IF b \in active THEN Key(stream[b], stream_positions[b] + i) ELSE Padding]]]
  /\ applied' = FALSE
  /\ Advance(n, active)
  /\ UNCHANGED <<batch, k, stream, returned>>

indices_and_mask_fails(n) ==
  /\ applied /\ ~MaskFits(n)
  /\ UNCHANGED scattered_vars

-----------------------------------------------------------------------------
(* append                                                                  *)

scatter_set(ring, into, rows, n) ==
  [s \in RingSlots |->
     IF \E i \in Below(n) : into[i] = s
     THEN rows[CHOOSE i \in Below(n) : into[i] = s]
     ELSE ring[s]]

append ==
  /\ ~applied
  /\ applied' = TRUE
  /\ IF context <= iam.seq_len
     THEN k' = k /\ returned' = iam.rows
     ELSE /\ k' = [b \in batch |-> scatter_set(k[b], iam.indices[b], iam.rows[b], iam.seq_len)]
          /\ returned' = k'
  /\ UNCHANGED <<builder, iam>>

-----------------------------------------------------------------------------
NewStreams(bs) ==
  /\ \A b \in bs : stream[b] < MaxStreams
  /\ stream' = [b \in batch |-> IF b \in bs THEN stream[b] + 1 ELSE stream[b]]
  /\ unstored' = [b \in batch |-> IF b \in bs THEN 0 ELSE unstored[b]]
  /\ UNCHANGED <<batch, k, iam, applied, returned>>

reset_all ==
  /\ stream_positions' = [b \in batch |-> 0] /\ indices' = [b \in batch |-> 0]
  /\ NewStreams(batch)

reset_batch_index(b) ==
  /\ stream_positions' = [stream_positions EXCEPT ![b] = 0]
  /\ indices' = [indices EXCEPT ![b] = 0]
  /\ NewStreams({b})

BuilderNext ==
  \/ \E n \in StepLens, active \in SUBSET batch : indices_and_mask(n, active)
  \/ \E n \in StepLens : indices_and_mask_fails(n)
  \/ append
  \/ reset_all
  \/ \E b \in batch : reset_batch_index(b)

BuilderSpec == BuilderInit /\ [][BuilderNext]_scattered_vars

-----------------------------------------------------------------------------
(* Properties                                                              *)

BuilderTypeOK ==
  /\ stream_positions \in [batch -> Nat]
  /\ indices \in [batch -> RingSlots]
  /\ stream \in [batch -> Nat]
  /\ applied \in BOOLEAN

(* "The index where the next element will be stored" follows "the current  *)
(* position in the stream" round the ring, for elements that advance and   *)
(* reset independently: all_pos reconstructs the one from the other.       *)
IndexFollowsPosition == \A b \in batch : indices[b] = stream_positions[b] % context

(* What a query of an active element attends to, in the tensor its append  *)
(* returned, are keys of its own stream only, every one that is still held *)
(* and not after its own - no slot nothing was stored in, no padding, no   *)
(* key from before a reset.                                                *)
Oldest(b, q) ==
  IF iam.seq_len < context THEN iam.rows[b][iam.seq_len - 1].pos - context + 1
  ELSE IF q < context THEN iam.rows[b][0].pos ELSE iam.rows[b][q].pos - context
Attends(b, q) ==
  LET me == iam.rows[b][q]
  IN {returned[b][s] : s \in iam.mask[b][q]}
       = {Key(me.stream, p) : p \in {x \in 0 .. me.pos : x >= Oldest(b, q)}}

(* Every step of every element does (the masks the tests assert show a     *)
(* slot only once something was stored in it).                             *)
AttendsToOwnStream ==
  applied /\ iam # NoStep => \A b \in iam.active, q \in Below(iam.seq_len) : Attends(b, q)

(* What does hold: elements attend to their own stream, whoever advances,  *)
(* pauses or is reset meanwhile, in every step of context keys or more     *)
(* that is not refused, and in every shorter one whose window is past the  *)
(* last such step.                                                         *)
AttendsOnceStored ==
  applied /\ iam # NoStep =>
    \A b \in iam.active, q \in Below(iam.seq_len) :
      \/ Attends(b, q)
      \/ iam.seq_len < context /\ Oldest(b, q) < iam.unstored[b]

=============================================================================
