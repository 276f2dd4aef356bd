---------------------------- MODULE RotatingCache ----------------------------
(***************************************************************************)
(* RotatingCache of xn-core/src/models/kv_cache.rs: a ring of max_seq_len  *)
(* keys that a model appends to, seq_len at a time, and three functions a  *)
(* caller uses before an append to know what it will get back: positions,  *)
(* attn_mask and, after it, current_data. They compute from offset and     *)
(* current_seq_len, never from the ring, so they have to agree with it.    *)
(*                                                                         *)
(* A key is its absolute position in the sequence appended since the last  *)
(* reset; tensors along the cache dimension are functions from 0. The      *)
(* missing tensor of a new cache is a ring of zeros, as its first append   *)
(* makes it. Appended tensors agree with the ring in all other dimensions  *)
(* (else slice_set fails). RotatingKvCache is two of these in step.        *)
(***************************************************************************)
EXTENDS Integers

CONSTANTS
  max_seq_len,  (* keys the ring holds                                     *)
  SeqLens,      (* numbers of keys that appends bring                      *)
  MaxTotal      (* bound: keys appended since a reset                      *)

ASSUME CacheAssumption ==
  /\ max_seq_len \in Nat \ {0}
  /\ SeqLens \subseteq Nat \ {0}
  /\ MaxTotal \in Nat

VARIABLES
  all_data, offset, current_seq_len,   (* the fields of the cache          *)
  start,        (* current_seq_len before the last append                  *)
  out,          (* the tensor the last append returned                     *)
  told,         (* positions(seq_len) as asked before that append          *)
  masked        (* attn_mask(seq_len) as asked before that append          *)

cache == <<all_data, offset, current_seq_len>>
vars == <<cache, start, out, told, masked>>

Slots == 0 .. max_seq_len - 1
Zero == -1                                  (* no key: what zeros put there *)
Upto(n) == 0 .. n - 1
AtMost(n) == IF n < max_seq_len THEN n ELSE max_seq_len
Narrow(data, from, n) == [i \in Upto(n) |-> data[from + i]]

Init ==
  /\ all_data = [s \in Slots |-> Zero]
  /\ offset = 0 /\ current_seq_len = 0
  /\ start = 0 /\ out = Narrow(all_data, 0, 0) /\ told = out /\ masked = [q \in {} |-> out]

-----------------------------------------------------------------------------
(* Before an append of n keys                                              *)

(* The write index after it, and the position of the key then in slot i.   *)
NotUpdated(n) == offset
upd_offset(n) == (offset + n) % max_seq_len
Position(n, i) ==
  LET pos_cache == current_seq_len + n + i - upd_offset(n)
  IN IF i < upd_offset(n) THEN pos_cache ELSE pos_cache - max_seq_len

positions(n) ==
  IF n <= max_seq_len
  THEN [i \in Upto(AtMost(current_seq_len + n)) |-> Position(n, i)]
  ELSE [i \in Upto(n) |-> current_seq_len + i]

get_mask_abs(n) ==
  [q \in Upto(n) |-> [k \in Upto(n) |-> k > q \/ k + max_seq_len < q]]

MaskByStart(n) ==
  [q \in Upto(n) |-> [k \in Upto(AtMost(current_seq_len + n)) |-> Position(n, k) > current_seq_len]]
get_mask_rel(n) ==
  [q \in Upto(n) |-> [k \in Upto(AtMost(current_seq_len + n)) |->
     LET pos_src == current_seq_len + q
         pos_cache == Position(n, k)
     IN pos_cache > pos_src \/ pos_cache + max_seq_len < pos_src]]

(* A single key gets no mask: nothing is masked.                           *)
attn_mask(n) ==
  CASE n = 1 -> [q \in {0} |-> [k \in Upto(AtMost(current_seq_len + 1)) |-> FALSE]]
    [] n # 1 /\ n < max_seq_len -> get_mask_rel(n)
    [] n # 1 /\ n >= max_seq_len -> get_mask_abs(n)

-----------------------------------------------------------------------------
(* append                                                                  *)

Src(n) == [i \in Upto(n) |-> current_seq_len + i]
slice_set(data, src, n, at) ==
  [s \in Slots |-> IF at <= s /\ s < at + n THEN src[s - at] ELSE data[s]]

Filled(data, len) == IF len >= max_seq_len THEN data ELSE Narrow(data, 0, len)
current_data == Filled(all_data, current_seq_len)

Asked(n) ==
  /\ current_seq_len + n <= MaxTotal
  /\ current_seq_len' = current_seq_len + n
  /\ start' = current_seq_len
  /\ told' = positions(n)
  /\ masked' = attn_mask(n)

(* At least a ring's worth: the ring keeps the end, the caller gets all.   *)
AppendLong(n) ==
  /\ n >= max_seq_len
  /\ Asked(n)
  /\ all_data' = slice_set(all_data, Narrow(Src(n), n - max_seq_len, max_seq_len), max_seq_len, 0)
  /\ offset' = 0
  /\ out' = Src(n)

NotWrapped(n) == offset + n
AfterFit(n) == (offset + n) % max_seq_len
AppendWithin(n) ==
  /\ n < max_seq_len /\ n <= max_seq_len - offset
  /\ Asked(n)
  /\ all_data' = slice_set(all_data, Src(n), n, offset)
  /\ offset' = AfterFit(n)
  /\ out' = Filled(all_data', current_seq_len')

(* Over the boundary of the ring, in two copies; the second ends where the *)
(* next append starts.                                                     *)
AllOfIt(n) == n
AfterWrap(n) == n - (max_seq_len - offset)
AppendAcross(n) ==
  /\ n < max_seq_len /\ n > max_seq_len - offset
  /\ Asked(n)
  /\ LET rem_len == max_seq_len - offset
         first == slice_set(all_data, Narrow(Src(n), 0, rem_len), rem_len, offset)
         second == Narrow(Src(n), rem_len, n - rem_len)
     IN all_data' = slice_set(first, second, n - rem_len, 0)
  /\ offset' = AfterWrap(n)
  /\ out' = Filled(all_data', current_seq_len')

reset ==
  /\ all_data' = [s \in Slots |-> Zero]
  /\ offset' = 0 /\ current_seq_len' = 0
  /\ start' = 0 /\ out' = Narrow(all_data, 0, 0) /\ told' = out' /\ masked' = [q \in {} |-> out']

Next ==
  \/ \E n \in SeqLens : AppendLong(n) \/ AppendWithin(n) \/ AppendAcross(n)
  \/ reset

Spec == Init /\ [][Next]_vars

-----------------------------------------------------------------------------
(* Properties                                                              *)

TypeOK ==
  /\ all_data \in [Slots -> Nat \cup {Zero}]
  /\ offset \in Slots
  /\ current_seq_len \in Nat /\ start \in Nat

(* The ring keeps the last keys in order: while it fills, slot s holds key *)
(* s; once full, the oldest key is at offset and they go round from there, *)
(* also after an append longer than the ring has put offset back to 0.     *)
RingInOrder ==
  /\ current_seq_len < max_seq_len =>
       /\ offset = current_seq_len
       /\ \A s \in Slots : all_data[s] = IF s < offset THEN s ELSE Zero
  /\ current_seq_len >= max_seq_len =>
       \A s \in Slots :
         all_data[s] = current_seq_len + s - offset - (IF s < offset THEN 0 ELSE max_seq_len)

(* positions: the returned tensor holds, slot for slot, the keys at the    *)
(* positions that were announced ("all the elements that will be retured   *)
(* after adding seq_len to the cache"), but for an append of exactly       *)
(* max_seq_len keys.                                                       *)
PositionsUnlessRingful == current_seq_len - start = max_seq_len \/ told = out

(* attn_mask: it covers the returned tensor, and a query sees the keys of  *)
(* the tensor up to its own position and no older than the ring is long -  *)
(* no later key, no slot without a key - and among them its own.           *)
MaskMatchesReturned ==
  \A q \in DOMAIN masked :
    LET pos == start + q
        row == masked[q]
    IN /\ DOMAIN row = DOMAIN out
       /\ \A k \in DOMAIN out : row[k] <=> out[k] > pos \/ out[k] + max_seq_len < pos
       /\ \E k \in DOMAIN out : out[k] = pos
       /\ \A k \in DOMAIN out : out[k] # Zero

(* What is kept is neither lost nor repeated: an append returns the last   *)
(* keys up to the size of the ring, once each, or all those it was given.  *)
ReturnsLastKeys ==
  LET first == IF current_seq_len - start >= max_seq_len THEN start
               ELSE current_seq_len - AtMost(current_seq_len)
  IN {out[k] : k \in DOMAIN out} = first .. current_seq_len - 1

=============================================================================
