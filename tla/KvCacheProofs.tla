--------------------------- MODULE KvCacheProofs ----------------------------
(***************************************************************************)
(* What the key/value caches keep, for every size of the ring and every    *)
(* run of appends and steps: the ring of RotatingCache is in order, and    *)
(* positions describes what append returns; queries of ScatteredCache      *)
(* attend to each of the last keys once.                                   *)
(***************************************************************************)
EXTENDS RotatingCache, ScatteredCache, TLAPS

-----------------------------------------------------------------------------
(* The rotating cache                                                      *)

(* The inductive invariant: the order of the ring is what the formulas of  *)
(* positions and of the wrap presuppose, and what each append restores.    *)
IndInv == TypeOK /\ RingInOrder

(* upd_offset of an append shorter than the ring.                          *)
LEMMA UpdOffset ==
  ASSUME IndInv, NEW n \in Nat, n <= max_seq_len
  PROVE  /\ upd_offset(n) \in Slots
         /\ upd_offset(n) = IF offset + n < max_seq_len THEN offset + n
                            ELSE offset + n - max_seq_len
<1>1. max_seq_len \in Nat \ {0} /\ offset \in Nat /\ offset < max_seq_len
  BY CacheAssumption DEF IndInv, TypeOK, Slots
<1>2. offset + n \in Nat /\ offset + n < 2 * max_seq_len
  BY <1>1
<1>3. CASE offset + n < max_seq_len
  <2>1. (offset + n) % max_seq_len = offset + n
    BY <1>1, <1>2, <1>3, SMT
  <2> QED  BY <1>1, <1>2, <1>3, <2>1 DEF upd_offset, Slots
<1>4. CASE offset + n >= max_seq_len
  <2>1. (offset + n) % max_seq_len = offset + n - max_seq_len
    BY <1>1, <1>2, <1>4, SMT
  <2> QED  BY <1>1, <1>2, <1>4, <2>1 DEF upd_offset, Slots
<1> QED  BY <1>1, <1>2, <1>3, <1>4

(* Position in terms of the counters as they are after the append.         *)
LEMMA PositionAfter ==
  ASSUME IndInv, NEW n \in SeqLens, NEW s \in Slots,
         offset' = upd_offset(n), current_seq_len' = current_seq_len + n,
         n < max_seq_len
  PROVE  Position(n, s)
           = current_seq_len' + s - offset' - (IF s < offset' THEN 0 ELSE max_seq_len)
<1>1. /\ max_seq_len \in Nat \ {0} /\ n \in Nat \ {0}
      /\ current_seq_len \in Nat /\ s \in Int
  BY CacheAssumption DEF IndInv, TypeOK, Slots
<1>2. offset' \in Int
  BY <1>1, UpdOffset DEF Slots
<1> QED  BY <1>1, <1>2 DEF Position

(* An append within the ring leaves the key at Position(n, s) in slot s.   *)
LEMMA Within ==
  ASSUME IndInv, NEW n \in SeqLens, AppendWithin(n)
  PROVE  /\ TypeOK' /\ offset' = upd_offset(n)
         /\ current_seq_len' < max_seq_len =>
              /\ offset' = current_seq_len'
              /\ \A s \in Slots : all_data'[s] = IF s < offset' THEN s ELSE Zero
         /\ current_seq_len' >= max_seq_len =>
              \A s \in Slots : all_data'[s] = Position(n, s)
<1>1. /\ max_seq_len \in Nat \ {0} /\ n \in Nat \ {0}
      /\ offset \in 0 .. max_seq_len - 1 /\ current_seq_len \in Nat
      /\ all_data \in [Slots -> Nat \cup {Zero}]
  BY CacheAssumption DEF IndInv, TypeOK, Slots
<1>2. n < max_seq_len /\ offset + n <= max_seq_len
  BY <1>1 DEF AppendWithin
<1>3. /\ offset' = upd_offset(n) /\ offset' \in Slots
      /\ offset' = IF offset + n < max_seq_len THEN offset + n ELSE 0
  BY <1>1, <1>2, UpdOffset DEF AppendWithin, AfterFit, upd_offset
<1>4. /\ current_seq_len' = current_seq_len + n /\ start' = current_seq_len
  BY DEF AppendWithin, Asked
<1>5. all_data' = [s \in Slots |-> IF offset <= s /\ s < offset + n
                                   THEN current_seq_len + s - offset ELSE all_data[s]]
  <2>1. \A s \in Slots : offset <= s /\ s < offset + n =>
          Src(n)[s - offset] = current_seq_len + s - offset
    BY <1>1 DEF Src, Upto, Slots
  <2> QED  BY <2>1 DEF AppendWithin, slice_set
<1>6. TypeOK'
  <2>1. \A s \in Slots : offset <= s => current_seq_len + s - offset \in Nat
    BY <1>1 DEF Slots
  <2> QED  BY <1>1, <1>3, <1>4, <1>5, <2>1 DEF TypeOK
<1>7. ASSUME current_seq_len' < max_seq_len
      PROVE  /\ offset' = current_seq_len'
             /\ \A s \in Slots : all_data'[s] = IF s < offset' THEN s ELSE Zero
  <2>1. /\ offset = current_seq_len
        /\ \A s \in Slots : all_data[s] = IF s < offset THEN s ELSE Zero
    BY <1>1, <1>4, <1>7 DEF IndInv, RingInOrder
  <2>2. offset' = offset + n
    BY <1>1, <1>3, <1>4, <1>7, <2>1
  <2>3. \A s \in Slots : s \in Int
    BY DEF Slots
  <2> QED  BY <1>1, <1>4, <1>5, <2>1, <2>2, <2>3
<1>8. ASSUME current_seq_len' >= max_seq_len, NEW s \in Slots
      PROVE  all_data'[s] = Position(n, s)
  <2>1. s \in 0 .. max_seq_len - 1
    BY DEF Slots
  <2>2. Position(n, s) = current_seq_len + n + s - offset' - (IF s < offset' THEN 0 ELSE max_seq_len)
    BY <1>1, <1>3, <2>1 DEF Position, Slots
  <2>3. CASE current_seq_len < max_seq_len
    <3>1. offset = current_seq_len /\ all_data[s] = IF s < offset THEN s ELSE Zero
      BY <2>3 DEF IndInv, RingInOrder
    <3>2. offset + n = max_seq_len /\ offset' = 0
      BY <1>1, <1>2, <1>3, <1>4, <1>8, <3>1
    <3> QED  BY <1>1, <1>5, <2>1, <2>2, <3>1, <3>2
  <2>4. CASE current_seq_len >= max_seq_len
    <3>1. all_data[s] = current_seq_len + s - offset - (IF s < offset THEN 0 ELSE max_seq_len)
      BY <2>4 DEF IndInv, RingInOrder
    <3> QED  BY <1>1, <1>2, <1>3, <1>5, <2>1, <2>2, <3>1
  <2> QED  BY <1>1, <2>3, <2>4
<1> QED  BY <1>3, <1>6, <1>7, <1>8

(* So does one over the boundary, after which the ring is full.            *)
LEMMA Across ==
  ASSUME IndInv, NEW n \in SeqLens, AppendAcross(n)
  PROVE  /\ TypeOK' /\ offset' = upd_offset(n)
         /\ current_seq_len' >= max_seq_len
         /\ \A s \in Slots : all_data'[s] = Position(n, s)
<1>1. /\ max_seq_len \in Nat \ {0} /\ n \in Nat \ {0}
      /\ offset \in 0 .. max_seq_len - 1 /\ current_seq_len \in Nat
      /\ all_data \in [Slots -> Nat \cup {Zero}]
  BY CacheAssumption DEF IndInv, TypeOK, Slots
<1>2. n < max_seq_len /\ offset + n > max_seq_len
  BY <1>1 DEF AppendAcross
<1>3. /\ offset' = upd_offset(n) /\ offset' \in Slots
      /\ offset' = offset + n - max_seq_len
  BY <1>1, <1>2, UpdOffset DEF AppendAcross, AfterWrap
<1>4. /\ current_seq_len' = current_seq_len + n /\ start' = current_seq_len
  BY DEF AppendAcross, Asked
<1>5. all_data' = [s \in Slots |-> IF s < offset' THEN current_seq_len + s + max_seq_len - offset
                                   ELSE IF offset <= s THEN current_seq_len + s - offset
                                   ELSE all_data[s]]
  <2> DEFINE rem_len == max_seq_len - offset
             first == slice_set(all_data, Narrow(Src(n), 0, rem_len), rem_len, offset)
             second == Narrow(Src(n), rem_len, n - rem_len)
  <2>1. all_data' = slice_set(first, second, n - rem_len, 0)
    BY DEF AppendAcross
  <2>2. ASSUME NEW s \in Slots
        PROVE  first[s] = IF offset <= s THEN current_seq_len + s - offset ELSE all_data[s]
    <3>1. s \in 0 .. max_seq_len - 1 /\ rem_len \in 0 .. n
      BY <1>1, <1>2 DEF Slots
    <3>2. \A i \in 0 .. rem_len - 1 : Narrow(Src(n), 0, rem_len)[i] = current_seq_len + i
      BY <1>1, <3>1 DEF Narrow, Src, Upto
    <3> QED  BY <1>1, <3>1, <3>2 DEF slice_set
  <2>3. ASSUME NEW s \in Slots, s < n - rem_len
        PROVE  second[s] = current_seq_len + s + rem_len
    <3>1. s \in 0 .. max_seq_len - 1 /\ rem_len \in 0 .. n
      BY <1>1, <1>2 DEF Slots
    <3>2. s \in Upto(n - rem_len) /\ rem_len + s \in Upto(n)
      BY <1>1, <2>3, <3>1 DEF Upto
    <3> QED  BY <1>1, <3>1, <3>2 DEF Narrow, Src
  <2>4. \A s \in Slots : 0 <= s /\ (s < n - rem_len <=> s < offset')
    BY <1>1, <1>3 DEF Slots
  <2>5. \A s \in Slots : s < offset' =>
          current_seq_len + s + rem_len = current_seq_len + s + max_seq_len - offset
    BY <1>1 DEF Slots
  <2>6. \A s \in Slots : s < 0 + (n - rem_len) <=> s < offset'
    BY <1>1, <1>3 DEF Slots
  <2>7. \A s \in Slots : s - 0 = s
    BY DEF Slots
  <2> HIDE DEF first, second, rem_len
  <2> QED  BY <2>1, <2>2, <2>3, <2>4, <2>5, <2>6, <2>7 DEF slice_set
<1>6. TypeOK'
  <2>1. \A s \in Slots : offset <= s => current_seq_len + s - offset \in Nat
    BY <1>1 DEF Slots
  <2>2. \A s \in Slots : current_seq_len + s + max_seq_len - offset \in Nat
    BY <1>1 DEF Slots
  <2> QED  BY <1>1, <1>3, <1>4, <1>5, <2>1, <2>2 DEF TypeOK
<1>7. current_seq_len' >= max_seq_len
  BY <1>1, <1>2, <1>4 DEF IndInv, RingInOrder
<1>8. ASSUME NEW s \in Slots
      PROVE  all_data'[s] = Position(n, s)
  <2>1. s \in 0 .. max_seq_len - 1
    BY DEF Slots
  <2>2. Position(n, s) = current_seq_len + n + s - offset' - (IF s < offset' THEN 0 ELSE max_seq_len)
    BY <1>1, <1>3, <2>1 DEF Position, Slots
  <2>3. s < offset => all_data[s] = current_seq_len + s - offset
    BY <1>1, <2>1 DEF IndInv, RingInOrder
  <2> QED  BY <1>1, <1>2, <1>3, <1>5, <2>1, <2>2, <2>3
<1> QED  BY <1>3, <1>6, <1>7, <1>8

(* An append of a ring's worth or more leaves the last keys, the oldest in *)
(* slot 0.                                                                 *)
LEMMA Long ==
  ASSUME IndInv, NEW n \in SeqLens, AppendLong(n)
  PROVE  /\ TypeOK' /\ offset' = 0
         /\ current_seq_len' >= max_seq_len
         /\ \A s \in Slots : all_data'[s] = current_seq_len' + s - max_seq_len
<1>1. /\ max_seq_len \in Nat \ {0} /\ n \in Nat \ {0} /\ n >= max_seq_len
      /\ current_seq_len \in Nat /\ all_data \in [Slots -> Nat \cup {Zero}]
  BY CacheAssumption DEF IndInv, TypeOK, Slots, AppendLong
<1>2. /\ current_seq_len' = current_seq_len + n /\ start' = current_seq_len /\ offset' = 0
  BY DEF AppendLong, Asked
<1>3. all_data' = [s \in Slots |-> current_seq_len + (n - max_seq_len + s)]
  <2>1. ASSUME NEW s \in Slots
        PROVE  /\ 0 <= s /\ s < 0 + max_seq_len /\ s - 0 = s
               /\ Narrow(Src(n), n - max_seq_len, max_seq_len)[s]
                    = current_seq_len + (n - max_seq_len + s)
    <3>1. s \in Upto(max_seq_len) /\ n - max_seq_len + s \in Upto(n)
      BY <1>1 DEF Upto, Slots
    <3> QED  BY <1>1, <3>1 DEF Narrow, Src, Upto
  <2> QED  BY <2>1 DEF AppendLong, slice_set
<1>4. \A s \in Slots : s \in Nat /\ current_seq_len + (n - max_seq_len + s) \in Nat
  BY <1>1 DEF Slots
<1>5. 0 \in Slots
  BY <1>1 DEF Slots
<1>6. TypeOK'
  BY <1>1, <1>2, <1>3, <1>4, <1>5 DEF TypeOK
<1>7. \A s \in Slots : all_data'[s] = current_seq_len' + s - max_seq_len
  BY <1>1, <1>2, <1>3, <1>4
<1> QED  BY <1>1, <1>2, <1>6, <1>7

(* Every append, of any number of keys at any state of the ring, and every *)
(* reset restores the order of the ring.                                   *)
LEMMA RingStep ==
  ASSUME IndInv, [Next]_vars
  PROVE  IndInv'
<1>1. ASSUME NEW n \in SeqLens, AppendLong(n)
      PROVE  IndInv'
  <2>1. \A s \in Slots : s >= 0 /\ s \in Int
    BY CacheAssumption DEF Slots
  <2>2. max_seq_len \in Nat /\ current_seq_len' \in Nat
    BY <1>1, Long, CacheAssumption DEF TypeOK
  <2> QED  BY <1>1, <2>1, <2>2, Long DEF IndInv, RingInOrder
<1>2. ASSUME NEW n \in SeqLens, AppendWithin(n)
      PROVE  IndInv'
  <2>1. \A s \in Slots : Position(n, s)
           = current_seq_len' + s - offset' - (IF s < offset' THEN 0 ELSE max_seq_len)
    <3>1. offset' = upd_offset(n)
      BY <1>2, Within
    <3>2. n < max_seq_len /\ current_seq_len' = current_seq_len + n
      BY <1>2 DEF AppendWithin, Asked
    <3> QED  BY <3>1, <3>2, PositionAfter
  <2> QED  BY <1>2, <2>1, Within DEF IndInv, RingInOrder
<1>3. ASSUME NEW n \in SeqLens, AppendAcross(n)
      PROVE  IndInv'
  <2>1. \A s \in Slots : Position(n, s)
           = current_seq_len' + s - offset' - (IF s < offset' THEN 0 ELSE max_seq_len)
    <3>1. offset' = upd_offset(n)
      BY <1>3, Across
    <3>2. n < max_seq_len /\ current_seq_len' = current_seq_len + n
      BY <1>3 DEF AppendAcross, Asked
    <3> QED  BY <3>1, <3>2, PositionAfter
  <2>2. current_seq_len' \in Nat /\ max_seq_len \in Nat
    BY <1>3, Across, CacheAssumption DEF TypeOK
  <2> QED  BY <1>3, <2>1, <2>2, Across DEF IndInv, RingInOrder
<1>4. ASSUME reset
      PROVE  IndInv'
  <2>1. 0 \in Slots /\ ~ (0 >= max_seq_len) /\ \A s \in Slots : ~ (s < 0)
    BY CacheAssumption DEF Slots
  <2>2. /\ all_data' = [s \in Slots |-> Zero]
        /\ offset' = 0 /\ current_seq_len' = 0 /\ start' = 0
    BY <1>4 DEF reset
  <2>3. TypeOK'
    BY <2>1, <2>2 DEF TypeOK
  <2> QED  BY <2>1, <2>2, <2>3 DEF IndInv, RingInOrder
<1>5. CASE UNCHANGED vars
  BY <1>5 DEF vars, cache, IndInv, TypeOK, RingInOrder
<1> QED  BY <1>1, <1>2, <1>3, <1>4, <1>5 DEF Next

LEMMA RingInit == Init => IndInv
<1> SUFFICES ASSUME Init PROVE IndInv
  OBVIOUS
<1>1. 0 \in Slots /\ 0 < max_seq_len /\ \A s \in Slots : ~ (s < 0)
  BY CacheAssumption DEF Slots
<1> QED  BY <1>1 DEF Init, IndInv, TypeOK, RingInOrder, Zero

(* The ring keeps the last keys in order from offset round, for every size *)
(* of the ring, through wraps, long appends and resets.                    *)
THEOREM RingStaysInOrder == Spec => []RingInOrder
<1>1. IndInv => RingInOrder
  BY DEF IndInv
<1> QED  BY RingInit, RingStep, <1>1, PTL DEF Spec

(* The fields of the cache keep their types.                               *)
THEOREM CacheTypeCorrect == Spec => []TypeOK
<1>1. IndInv => TypeOK
  BY DEF IndInv
<1> QED  BY RingInit, RingStep, <1>1, PTL DEF Spec

(* What an append that stays short of the ring's length returns, slot for  *)
(* slot, is what positions announced for it.                               *)
LEMMA ShortAnnounced ==
  ASSUME IndInv, NEW n \in SeqLens, AppendWithin(n) \/ AppendAcross(n)
  PROVE  told' = out'
<1>1. /\ max_seq_len \in Nat \ {0} /\ n \in Nat \ {0} /\ n < max_seq_len
      /\ current_seq_len \in Nat
  BY CacheAssumption DEF IndInv, TypeOK, AppendWithin, AppendAcross
<1>2. /\ current_seq_len' = current_seq_len + n
      /\ told' = positions(n) /\ out' = Filled(all_data', current_seq_len')
  BY DEF AppendWithin, AppendAcross, Asked
<1>3. told' = [i \in Upto(AtMost(current_seq_len')) |-> Position(n, i)]
  BY <1>1, <1>2 DEF positions
<1>4. CASE current_seq_len' >= max_seq_len
  <2>1. \A s \in Slots : all_data'[s] = Position(n, s)
    BY <1>4, Within, Across
  <2>2. all_data' \in [Slots -> Nat \cup {Zero}]
    BY Within, Across DEF TypeOK
  <2>3. all_data' = [s \in Slots |-> Position(n, s)]
    BY <2>1, <2>2
  <2>4. Upto(AtMost(current_seq_len')) = Slots
    BY <1>1, <1>2, <1>4 DEF Upto, AtMost, Slots
  <2> QED  BY <1>2, <1>3, <1>4, <2>3, <2>4 DEF Filled
<1>5. CASE ~ (current_seq_len' >= max_seq_len)
  <2>1. AppendWithin(n) /\ current_seq_len' < max_seq_len
    BY <1>1, <1>2, <1>5, Across
  <2>2. /\ offset' = current_seq_len' /\ offset' = upd_offset(n)
        /\ \A s \in Slots : all_data'[s] = IF s < offset' THEN s ELSE Zero
    BY <2>1, Within
  <2>3. AtMost(current_seq_len') = current_seq_len'
    BY <2>1 DEF AtMost
  <2>4. ASSUME NEW i \in Upto(current_seq_len')
        PROVE  all_data'[0 + i] = i /\ Position(n, i) = i
    <3>1. i \in Slots /\ i \in Nat /\ i < current_seq_len' /\ 0 + i = i
      BY <1>1, <1>2, <2>1 DEF Upto, Slots
    <3>2. Position(n, i) = current_seq_len' + i - offset'
                             - (IF i < offset' THEN 0 ELSE max_seq_len)
      BY <1>1, <1>2, <2>2, <3>1, PositionAfter
    <3> QED  BY <1>1, <1>2, <2>2, <3>1, <3>2
  <2> QED  BY <1>2, <1>3, <1>5, <2>3, <2>4 DEF Filled, Narrow
<1> QED  BY <1>4, <1>5

(* positions tells the truth about every append but one of exactly the     *)
(* ring's length, whatever was appended before.                            *)
THEOREM PositionsAnnounceReturned == Spec => []PositionsUnlessRingful
<1>1. Init => PositionsUnlessRingful
  BY DEF Init, PositionsUnlessRingful
<1>2. ASSUME IndInv, PositionsUnlessRingful, [Next]_vars
      PROVE  PositionsUnlessRingful'
  <2>1. ASSUME NEW n \in SeqLens, AppendLong(n)
        PROVE  PositionsUnlessRingful'
    <3>1. /\ n \in Nat /\ max_seq_len \in Nat /\ current_seq_len \in Nat /\ n >= max_seq_len
      BY <1>2, <2>1, CacheAssumption DEF IndInv, TypeOK, AppendLong
    <3>2. /\ current_seq_len' = current_seq_len + n /\ start' = current_seq_len
          /\ told' = positions(n) /\ out' = Src(n)
      BY <2>1 DEF AppendLong, Asked
    <3>3. CASE n = max_seq_len
      BY <3>1, <3>2, <3>3 DEF PositionsUnlessRingful
    <3>4. CASE n # max_seq_len
      <4>1. positions(n) = Src(n)
        BY <3>1, <3>4 DEF positions, Src
      <4> QED  BY <3>2, <4>1 DEF PositionsUnlessRingful
    <3> QED  BY <3>3, <3>4
  <2>2. ASSUME NEW n \in SeqLens, AppendWithin(n) \/ AppendAcross(n)
        PROVE  PositionsUnlessRingful'
    BY <1>2, <2>2, ShortAnnounced DEF PositionsUnlessRingful
  <2>3. ASSUME reset
        PROVE  PositionsUnlessRingful'
    BY <2>3 DEF reset, PositionsUnlessRingful
  <2>4. CASE UNCHANGED vars
    BY <1>2, <2>4 DEF vars, cache, PositionsUnlessRingful
  <2> QED  BY <1>2, <2>1, <2>2, <2>3, <2>4 DEF Next
<1> QED  BY RingInit, RingStep, <1>1, <1>2, PTL DEF Spec

(* The keys such an append returns, and where each of them is.             *)
LEMMA ShortReturned ==
  ASSUME IndInv, NEW n \in SeqLens, AppendWithin(n) \/ AppendAcross(n)
  PROVE  LET first == current_seq_len' - AtMost(current_seq_len')
         IN /\ DOMAIN out' = Upto(AtMost(current_seq_len'))
            /\ \A j \in DOMAIN out' :
                 out'[j] = Position(n, j) /\ out'[j] \in first .. current_seq_len' - 1
            /\ \A p \in first .. current_seq_len' - 1 : \E j \in DOMAIN out' : out'[j] = p
<1>1. /\ max_seq_len \in Nat \ {0} /\ n \in Nat \ {0} /\ n < max_seq_len
      /\ current_seq_len \in Nat /\ current_seq_len' = current_seq_len + n
      /\ offset' = upd_offset(n) /\ offset' \in Slots
  BY CacheAssumption, Within, Across
  DEF IndInv, TypeOK, AppendWithin, AppendAcross, Asked
<1>2. /\ told' = out' /\ told' = [i \in Upto(AtMost(current_seq_len')) |-> Position(n, i)]
  BY <1>1, ShortAnnounced DEF AppendWithin, AppendAcross, Asked, positions
<1>3. \A s \in Slots : Position(n, s)
        = current_seq_len' + s - offset' - (IF s < offset' THEN 0 ELSE max_seq_len)
  BY <1>1, PositionAfter
<1>4. CASE current_seq_len' >= max_seq_len
  <2>1. /\ AtMost(current_seq_len') = max_seq_len
        /\ Upto(AtMost(current_seq_len')) = Slots
    BY <1>1, <1>4 DEF AtMost, Upto, Slots
  <2>2. \A s \in Slots : Position(n, s) \in current_seq_len' - max_seq_len .. current_seq_len' - 1
    BY <1>1, <1>3, <1>4 DEF Slots
  <2>3. ASSUME NEW p \in current_seq_len' - max_seq_len .. current_seq_len' - 1
        PROVE  \E j \in Slots : Position(n, j) = p
    <3>1. CASE p >= current_seq_len' - offset'
      <4>1. p - current_seq_len' + offset' \in Slots
        BY <1>1, <1>4, <2>3, <3>1 DEF Slots
      <4>2. Position(n, p - current_seq_len' + offset') = p
        BY <1>1, <1>3, <1>4, <2>3, <3>1, <4>1 DEF Slots
      <4> QED  BY <4>1, <4>2
    <3>2. CASE ~ (p >= current_seq_len' - offset')
      <4>1. p - current_seq_len' + offset' + max_seq_len \in Slots
        BY <1>1, <1>4, <2>3, <3>2 DEF Slots
      <4>2. Position(n, p - current_seq_len' + offset' + max_seq_len) = p
        BY <1>1, <1>3, <1>4, <2>3, <3>2, <4>1 DEF Slots
      <4> QED  BY <4>1, <4>2
    <3> QED  BY <3>1, <3>2
  <2> QED  BY <1>2, <2>1, <2>2, <2>3
<1>5. CASE ~ (current_seq_len' >= max_seq_len)
  <2>1. /\ AtMost(current_seq_len') = current_seq_len' /\ current_seq_len' < max_seq_len
        /\ offset' = current_seq_len'
    <3>1. current_seq_len' < max_seq_len
      BY <1>1, <1>5
    <3> QED  BY <1>1, <3>1, Within, Across DEF AtMost
  <2>2. \A i \in Upto(current_seq_len') : i \in Slots /\ i < offset' /\ i \in Int
    BY <1>1, <2>1 DEF Upto, Slots
  <2>3. \A i \in Upto(current_seq_len') : Position(n, i) = i
    BY <1>1, <1>3, <2>1, <2>2
  <2>4. /\ current_seq_len' - current_seq_len' = 0
        /\ 0 .. current_seq_len' - 1 = Upto(current_seq_len')
    BY <1>1 DEF Upto
  <2> QED  BY <1>2, <2>1, <2>3, <2>4
<1> QED  BY <1>4, <1>5

(* An append returns the last keys up to the size of the ring, once each,  *)
(* or all those it was given: none is lost in a wrap, none repeated.       *)
THEOREM LastKeysReturned == Spec => []ReturnsLastKeys
<1>1. ASSUME start = 0, current_seq_len = 0, out = Narrow(all_data, 0, 0)
      PROVE  ReturnsLastKeys
  BY <1>1, CacheAssumption DEF ReturnsLastKeys, Narrow, Upto, AtMost
<1>2. Init => ReturnsLastKeys
  BY <1>1 DEF Init
<1>3. ASSUME IndInv, ReturnsLastKeys, [Next]_vars
      PROVE  ReturnsLastKeys'
  <2>1. ASSUME NEW n \in SeqLens, AppendLong(n)
        PROVE  ReturnsLastKeys'
    <3>1. /\ n \in Nat \ {0} /\ max_seq_len \in Nat /\ current_seq_len \in Nat
          /\ n >= max_seq_len
      BY <1>3, <2>1, CacheAssumption DEF IndInv, TypeOK, AppendLong
    <3>2. /\ current_seq_len' = current_seq_len + n /\ start' = current_seq_len
          /\ out' = [i \in Upto(n) |-> current_seq_len + i]
      BY <2>1 DEF AppendLong, Asked, Src
    <3>3. {current_seq_len + i : i \in Upto(n)} = current_seq_len .. current_seq_len + n - 1
      <4>1. \A i \in Upto(n) : current_seq_len + i \in current_seq_len .. current_seq_len + n - 1
        BY <3>1 DEF Upto
      <4>2. \A p \in current_seq_len .. current_seq_len + n - 1 :
              p - current_seq_len \in Upto(n) /\ p = current_seq_len + (p - current_seq_len)
        BY <3>1 DEF Upto
      <4> QED  BY <4>1, <4>2
    <3>4. current_seq_len' - start' >= max_seq_len
      BY <3>1, <3>2
    <3>5. DOMAIN out' = Upto(n) /\ \A j \in Upto(n) : out'[j] = current_seq_len + j
      BY <3>2
    <3>6. {out'[j] : j \in DOMAIN out'} = start' .. current_seq_len' - 1
      <4>1. {out'[j] : j \in DOMAIN out'} = {current_seq_len + i : i \in Upto(n)}
        BY <3>5
      <4> QED  BY <3>1, <3>2, <3>3, <4>1
    <3> QED  BY <3>4, <3>6 DEF ReturnsLastKeys
  <2>2. ASSUME NEW n \in SeqLens, AppendWithin(n) \/ AppendAcross(n)
        PROVE  ReturnsLastKeys'
    <3>1. /\ n \in Nat \ {0} /\ n < max_seq_len /\ max_seq_len \in Nat /\ current_seq_len \in Nat
          /\ current_seq_len' = current_seq_len + n /\ start' = current_seq_len
      BY <1>3, <2>2, CacheAssumption DEF IndInv, TypeOK, AppendWithin, AppendAcross, Asked
    <3>2. ~ (current_seq_len' - start' >= max_seq_len)
      BY <3>1
    <3> QED  BY <1>3, <2>2, <3>2, ShortReturned DEF ReturnsLastKeys
  <2>3. ASSUME reset
        PROVE  ReturnsLastKeys'
    <3>1. /\ start' = 0 /\ current_seq_len' = 0 /\ DOMAIN out' = {}
      BY <2>3 DEF reset, Narrow, Upto
    <3> QED  BY <3>1, CacheAssumption DEF ReturnsLastKeys, AtMost
  <2>4. CASE UNCHANGED vars
    BY <1>3, <2>4 DEF vars, cache, ReturnsLastKeys
  <2> QED  BY <1>3, <2>1, <2>2, <2>3, <2>4 DEF Next
<1> QED  BY RingInit, RingStep, <1>2, <1>3, PTL DEF Spec

(* attn_mask, computed from the counters before an append, fits what the   *)
(* append returns: each query sees its own key and the window before it,   *)
(* for every length of the append, an exact ringful included.              *)
THEOREM MaskFitsReturned == Spec => []MaskMatchesReturned
<1>1. Init => MaskMatchesReturned
  BY DEF Init, MaskMatchesReturned
<1>2. ASSUME IndInv, MaskMatchesReturned, [Next]_vars
      PROVE  MaskMatchesReturned'
  <2>1. ASSUME NEW n \in SeqLens, AppendLong(n)
        PROVE  MaskMatchesReturned'
    <3>1. /\ n \in Nat \ {0} /\ max_seq_len \in Nat \ {0} /\ current_seq_len \in Nat
          /\ n >= max_seq_len
      BY <1>2, <2>1, CacheAssumption DEF IndInv, TypeOK, AppendLong
    <3>2. /\ start' = current_seq_len /\ masked' = attn_mask(n)
          /\ out' = [i \in Upto(n) |-> current_seq_len + i]
      BY <2>1 DEF AppendLong, Asked, Src
    <3>3. /\ DOMAIN masked' = Upto(n)
          /\ \A q \in Upto(n) :
               /\ DOMAIN masked'[q] = Upto(n)
               /\ \A j \in Upto(n) : masked'[q][j] <=> j > q \/ j + max_seq_len < q
      <4>1. CASE n = 1
        <5>1. AtMost(current_seq_len + 1) = 1 /\ Upto(1) = {0}
          BY <3>1, <4>1 DEF AtMost, Upto
        <5>2. masked' = [q \in {0} |-> [j \in {0} |-> FALSE]]
          BY <3>2, <4>1, <5>1 DEF attn_mask
        <5>3. ~ (0 > 0 \/ 0 + max_seq_len < 0)
          BY <3>1
        <5> QED  BY <4>1, <5>1, <5>2, <5>3
      <4>2. CASE n # 1
        <5>1. ~ (n < max_seq_len)
          BY <3>1
        <5> QED  BY <3>1, <3>2, <4>2, <5>1 DEF attn_mask, get_mask_abs
      <4> QED  BY <4>1, <4>2
    <3>4. ASSUME NEW q \in Upto(n), NEW j \in Upto(n)
          PROVE  /\ current_seq_len + j > current_seq_len + q <=> j > q
                 /\ current_seq_len + j + max_seq_len < current_seq_len + q <=> j + max_seq_len < q
                 /\ current_seq_len + j # Zero
      BY <3>1 DEF Upto, Zero
    <3>5. /\ DOMAIN out' = Upto(n)
          /\ \A j \in Upto(n) : out'[j] = current_seq_len + j
      BY <3>2
    <3>6. ASSUME NEW q \in Upto(n)
          PROVE  /\ DOMAIN masked'[q] = DOMAIN out'
                 /\ \A j \in DOMAIN out' :
                      masked'[q][j] <=> \/ out'[j] > current_seq_len + q
                                        \/ out'[j] + max_seq_len < current_seq_len + q
                 /\ \E j \in DOMAIN out' : out'[j] = current_seq_len + q
                 /\ \A j \in DOMAIN out' : out'[j] # Zero
      BY <3>3, <3>4, <3>5
    <3> QED  BY <3>2, <3>3, <3>6 DEF MaskMatchesReturned
  <2>2. ASSUME NEW n \in SeqLens, AppendWithin(n) \/ AppendAcross(n)
        PROVE  MaskMatchesReturned'
    <3> DEFINE len == AtMost(current_seq_len')
    <3>1. /\ n \in Nat \ {0} /\ n < max_seq_len /\ max_seq_len \in Nat \ {0}
          /\ current_seq_len \in Nat
          /\ current_seq_len' = current_seq_len + n /\ start' = current_seq_len
          /\ masked' = attn_mask(n)
      BY <1>2, <2>2, CacheAssumption DEF IndInv, TypeOK, AppendWithin, AppendAcross, Asked
    <3>2. len \in Nat /\ n <= len /\ len <= current_seq_len' /\ len <= max_seq_len
      BY <3>1 DEF AtMost
    <3>3. /\ DOMAIN out' = Upto(len)
          /\ \A j \in Upto(len) : /\ out'[j] = Position(n, j)
                                  /\ out'[j] \in current_seq_len' - len .. current_seq_len' - 1
          /\ \A p \in current_seq_len' - len .. current_seq_len' - 1 :
               \E j \in Upto(len) : out'[j] = p
      BY <1>2, <2>2, ShortReturned
    <3> HIDE DEF len
    <3>4. /\ DOMAIN masked' = Upto(n)
          /\ \A q \in Upto(n) :
               /\ DOMAIN masked'[q] = Upto(len)
               /\ \A j \in Upto(len) :
                    masked'[q][j] <=> \/ out'[j] > current_seq_len + q
                                      \/ out'[j] + max_seq_len < current_seq_len + q
      <4>1. CASE n = 1
        <5>1. masked' = [q \in {0} |-> [j \in Upto(len) |-> FALSE]] /\ Upto(n) = {0}
          BY <3>1, <4>1 DEF attn_mask, len, Upto
        <5>2. \A j \in Upto(len) : ~ (\/ out'[j] > current_seq_len + 0
                                      \/ out'[j] + max_seq_len < current_seq_len + 0)
          BY <3>1, <3>2, <3>3, <4>1
        <5> QED  BY <5>1, <5>2
      <4>2. CASE n # 1
        <5>1. masked' = get_mask_rel(n)
          BY <3>1, <4>2 DEF attn_mask
        <5>2. Upto(AtMost(current_seq_len + n)) = Upto(len)
          BY <3>1 DEF len
        <5>3. /\ DOMAIN masked' = Upto(n)
              /\ \A q \in Upto(n) : DOMAIN masked'[q] = Upto(len)
          BY <5>1, <5>2 DEF get_mask_rel
        <5>4. ASSUME NEW q \in Upto(n), NEW j \in Upto(len)
              PROVE  masked'[q][j] <=> \/ Position(n, j) > current_seq_len + q
                                       \/ Position(n, j) + max_seq_len < current_seq_len + q
          BY <5>1, <5>2 DEF get_mask_rel
        <5> QED  BY <3>3, <5>3, <5>4
      <4> QED  BY <4>1, <4>2
    <3>5. ASSUME NEW q \in Upto(n)
          PROVE  \E j \in Upto(len) : out'[j] = current_seq_len + q
      <4>1. current_seq_len + q \in current_seq_len' - len .. current_seq_len' - 1
        BY <3>1, <3>2 DEF Upto
      <4> QED  BY <3>3, <4>1
    <3>6. \A j \in Upto(len) : out'[j] # Zero
      BY <3>1, <3>2, <3>3 DEF Zero
    <3> QED  BY <3>1, <3>3, <3>4, <3>5, <3>6 DEF MaskMatchesReturned
  <2>3. ASSUME reset
        PROVE  MaskMatchesReturned'
    BY <2>3 DEF reset, MaskMatchesReturned
  <2>4. CASE UNCHANGED vars
    BY <1>2, <2>4 DEF vars, cache, MaskMatchesReturned
  <2> QED  BY <1>2, <2>1, <2>2, <2>3, <2>4 DEF Next
<1> QED  BY RingInit, RingStep, <1>1, <1>2, PTL DEF Spec

-----------------------------------------------------------------------------
(* The scattered cache                                                     *)

(* Positions round the ring                                                *)

LEMMA Division ==
  ASSUME NEW c \in Nat \ {0}, NEW x \in Nat
  PROVE  /\ x % c \in 0 .. c - 1 /\ x \div c \in Nat
         /\ x = c * (x \div c) + (x % c)
BY SMTT(30)

LEMMA Multiple ==
  ASSUME NEW c \in Nat \ {0}, NEW d \in Nat, NEW s \in 0 .. c - 1
  PROVE  (c * d + s) % c = s
BY SMTT(30)

(* Positions less than a turn apart are in different slots.                *)
LEMMA SlotsApart ==
  ASSUME NEW c \in Nat \ {0}, NEW x \in Nat, NEW y \in Nat, x < y, y < x + c
  PROVE  x % c # y % c
<1> DEFINE d == x \div c
           e == y \div c
<1>1. /\ d \in Nat /\ e \in Nat /\ x % c \in 0 .. c - 1
      /\ x = c * d + (x % c) /\ y = c * e + (y % c)
  BY Division
<1> HIDE DEF d, e
<1> SUFFICES ASSUME x % c = y % c PROVE FALSE
  OBVIOUS
<1>2. c * d < c * e /\ c * e < c * d + c
  BY <1>1
<1> QED  BY <1>1, <1>2, SMTT(30)

(* The index moves on as the position does.                                *)
LEMMA SlotAfter ==
  ASSUME NEW c \in Nat \ {0}, NEW p \in Nat, NEW i \in Nat
  PROVE  ((p % c) + i) % c = (p + i) % c
<1> DEFINE d == p \div c
           r == p % c
           e == (r + i) \div c
           t == (r + i) % c
<1>1. d \in Nat /\ r \in 0 .. c - 1 /\ p = c * d + r
  BY Division
<1>2. r + i \in Nat
  BY <1>1
<1>3. e \in Nat /\ t \in 0 .. c - 1 /\ r + i = c * e + t
  BY <1>2, Division
<1> HIDE DEF d, r, e, t
<1>4. p + i = c * (d + e) + t
  BY <1>1, <1>3
<1>5. (c * (d + e) + t) % c = t
  <2>1. d + e \in Nat
    BY <1>1, <1>3
  <2> QED  BY <1>3, <2>1, Multiple
<1> QED  BY <1>4, <1>5 DEF t, r

LEMMA SlotTurn ==
  ASSUME NEW c \in Nat \ {0}, NEW x \in Nat
  PROVE  (x + c) % c = x % c
<1> DEFINE d == x \div c
           r == x % c
<1>1. d \in Nat /\ r \in 0 .. c - 1 /\ x = c * d + r
  BY Division
<1> HIDE DEF d, r
<1>2. d + 1 \in Nat /\ x + c = c * (d + 1) + r
  BY <1>1
<1>3. (c * (d + 1) + r) % c = r
  BY <1>1, <1>2, Multiple
<1> QED  BY <1>2, <1>3 DEF r

LEMMA SlotSmall ==
  ASSUME NEW c \in Nat \ {0}, NEW x \in 0 .. c - 1
  PROVE  x % c = x
<1>1. (c * 0 + x) % c = x
  BY Multiple
<1> QED  BY <1>1

LEMMA PositionFacts ==
  ASSUME BuilderTypeOK, IndexFollowsPosition, NEW b \in batch
  PROVE  /\ context \in Nat \ {0} /\ stream_positions[b] \in Nat /\ indices[b] \in RingSlots
         /\ indices[b] = stream_positions[b] % context
         /\ \A i \in Nat : IndexAfter(b, i) = (stream_positions[b] + i) % context
<1>1. context \in Nat \ {0} /\ stream_positions[b] \in Nat /\ indices[b] \in RingSlots
  BY BuilderAssumption DEF BuilderTypeOK
<1>2. indices[b] = stream_positions[b] % context
  BY DEF IndexFollowsPosition
<1> QED  BY <1>1, <1>2, SlotAfter DEF IndexAfter

(* A slot is reconstructed to hold the newest position it can.             *)
LEMMA HeldPosition ==
  ASSUME BuilderTypeOK, IndexFollowsPosition, NEW b \in batch, NEW s \in RingSlots
  PROVE  LET p == stream_positions[b]
             x == HeldBefore(b, s)
         IN \/ x = Unset /\ p < context /\ p <= s
            \/ x \in Nat /\ x < p /\ p <= x + context /\ x % context = s
<1> DEFINE p == stream_positions[b]
           r == indices[b]
           d == p \div context
<1>1. context \in Nat \ {0} /\ p \in Nat /\ r \in 0 .. context - 1 /\ r = p % context /\ s \in 0 .. context - 1
  BY PositionFacts DEF RingSlots
<1>2. d \in Nat /\ p = context * d + r
  BY <1>1, Division
<1> HIDE DEF d
<1>3. CASE p < context
  <2>1. CASE s < p
    <3>1. HeldBefore(b, s) = s
      BY <1>3, <2>1 DEF HeldBefore
    <3>2. s % context = s
      BY <1>1, SlotSmall
    <3> QED  BY <1>1, <1>3, <2>1, <3>1, <3>2
  <2>2. CASE ~(s < p)
    <3>1. HeldBefore(b, s) = Unset
      BY <1>3, <2>2 DEF HeldBefore
    <3> QED  BY <1>1, <1>3, <2>2, <3>1
  <2> QED  BY <2>1, <2>2
<1>4. CASE p >= context /\ s < r
  <2>1. HeldBefore(b, s) = context * d + s
    BY <1>1, <1>2, <1>4 DEF HeldBefore
  <2>2. context * d \in Nat /\ context * d + s < p /\ p <= context * d + s + context
    BY <1>1, <1>2, <1>4
  <2>3. (context * d + s) % context = s
    BY <1>1, <1>2, Multiple
  <2> QED  BY <1>1, <2>1, <2>2, <2>3
<1>5. CASE p >= context /\ s >= r
  <2>1. d # 0
    BY <1>1, <1>2, <1>5
  <2>2. d - 1 \in Nat /\ context * d = context * (d - 1) + context
    BY <1>1, <1>2, <2>1
  <2>3. HeldBefore(b, s) = context * (d - 1) + s
    BY <1>1, <1>2, <1>5, <2>2 DEF HeldBefore
  <2>4. context * (d - 1) \in Nat
    BY <1>1, <2>2
  <2>5. context * (d - 1) + s < p /\ p <= context * (d - 1) + s + context
    BY <1>1, <1>2, <1>5, <2>2, <2>4
  <2>6. (context * (d - 1) + s) % context = s
    BY <1>1, <2>2, Multiple
  <2> QED  BY <1>1, <2>3, <2>4, <2>5, <2>6
<1> QED  BY <1>1, <1>3, <1>4, <1>5

(* So is one after n more keys, be it the slot of one of them or not.      *)
LEMMA AllPosition ==
  ASSUME BuilderTypeOK, IndexFollowsPosition, NEW b \in batch, NEW s \in RingSlots,
         NEW n \in Nat \ {0}, n < context
  PROVE  LET end == stream_positions[b] + n
             x == all_pos(b, n)[s]
         IN \/ x = Unset /\ \A y \in Nat : y < end => y % context # s
            \/ x \in Nat /\ x < end /\ end <= x + context /\ x % context = s
<1> DEFINE p == stream_positions[b]
           W(i) == i \in Below(n) /\ IndexAfter(b, i) = s
<1>1. /\ context \in Nat \ {0} /\ p \in Nat
      /\ \A i \in Nat : IndexAfter(b, i) = (p + i) % context
  BY PositionFacts
<1>2. all_pos(b, n)[s] = IF \E i : W(i) THEN p + (CHOOSE i : W(i)) ELSE HeldBefore(b, s)
  BY DEF all_pos
<1>3. CASE \E i : W(i)
  <2>1. PICK i : W(i) /\ all_pos(b, n)[s] = p + i
    BY <1>2, <1>3
  <2>2. i \in Nat /\ i < n
    BY <2>1 DEF Below
  <2>3. (p + i) % context = s
    BY <1>1, <2>1, <2>2
  <2>4. p \in Nat /\ context \in Nat /\ n <= i + context
    BY <1>1, <2>2
  <2>5. p + i \in Nat /\ p + i < p + n /\ p + n <= p + i + context
    BY <2>2, <2>4
  <2> QED  BY <2>1, <2>3, <2>5
<1>4. CASE ~\E i : W(i)
  <2>1. ASSUME NEW y \in Nat, p <= y, y < p + n PROVE y % context # s
    <3>1. y - p \in Nat /\ y - p \in Below(n) /\ p + (y - p) = y
      BY <1>1, <2>1 DEF Below
    <3> QED  BY <1>1, <1>4, <3>1
  <2> DEFINE x == HeldBefore(b, s)
  <2>2. CASE x = Unset /\ p < context /\ p <= s
    <3>1. ASSUME NEW y \in Nat, y < p PROVE y % context # s
      BY <1>1, <2>2, <3>1, SlotSmall DEF RingSlots
    <3>2. \A y \in Nat : y < p + n => y % context # s
      BY <1>1, <2>1, <3>1
    <3> QED  BY <1>2, <1>4, <2>2, <3>2
  <2>3. CASE x \in Nat /\ x < p /\ p <= x + context /\ x % context = s
    <3>1. p + n <= x + context
      <4> SUFFICES ASSUME x + context < p + n PROVE FALSE
        BY <1>1, <2>3
      <4>1. (x + context) % context = s
        BY <1>1, <2>3, SlotTurn
      <4> QED  BY <1>1, <2>1, <2>3, <4>1
    <3> QED  BY <1>1, <1>2, <1>4, <2>3, <3>1
  <2> QED  BY <2>2, <2>3, HeldPosition
<1> QED  BY <1>3, <1>4

(* The slots a window from lo up to hi shows.                              *)
Window(lo, hi) == {x % context : x \in {y \in Nat : lo <= y /\ y <= hi}}

LEMMA SeesWindow ==
  ASSUME BuilderTypeOK, IndexFollowsPosition, NEW active \in SUBSET batch, NEW b \in active,
         NEW n \in Nat \ {0}, n < context, stream_positions[b] + n <= MaxPos, NEW q \in Below(n)
  PROVE  Sees(b, n, active)[q] = Window(stream_positions[b] + n - context, stream_positions[b] + q)
<1> DEFINE p == stream_positions[b]
           end == p + n
           v(s) == all_pos(b, n)[s]
<1>1. context \in Nat \ {0} /\ p \in Nat /\ MaxPos \in Nat /\ q \in Nat /\ q < n
  BY PositionFacts, BuilderAssumption DEF Below
<1>2. Sees(b, n, active)[q] = {s \in RingSlots : v(s) <= p + q}
  BY DEF Sees
<1>3. Unset = MaxPos + 1 /\ p + q < end /\ end <= MaxPos
  BY <1>1 DEF Unset
<1>4. \A s \in RingSlots : \/ v(s) = Unset /\ \A y \in Nat : y < end => y % context # s
                           \/ v(s) \in Nat /\ v(s) < end /\ end <= v(s) + context /\ v(s) % context = s
  BY AllPosition
<1> HIDE DEF v
<1>5. ASSUME NEW s \in RingSlots, v(s) <= p + q PROVE s \in Window(end - context, p + q)
  <2>1. v(s) \in Nat /\ v(s) < end /\ end <= v(s) + context /\ v(s) % context = s
    BY <1>1, <1>3, <1>4, <1>5
  <2> QED  BY <1>1, <1>5, <2>1 DEF Window
<1>6. ASSUME NEW x \in Nat, end - context <= x, x <= p + q PROVE x % context \in RingSlots /\ v(x % context) <= p + q
  <2>1. x % context \in RingSlots
    BY <1>1, Division DEF RingSlots
  <2>2. v(x % context) \in Nat /\ v(x % context) < end /\ end <= v(x % context) + context /\ v(x % context) % context = x % context
    BY <1>1, <1>3, <1>4, <1>6, <2>1
  <2>3. v(x % context) = x
    <3>1. ~(x < v(x % context)) /\ ~(v(x % context) < x)
      BY <1>1, <1>3, <1>6, <2>2, SlotsApart
    <3> QED  BY <2>2, <3>1
  <2> QED  BY <2>1, <1>6, <2>3
<1> DEFINE lhs == Sees(b, n, active)[q]
           rhs == Window(end - context, p + q)
<1>7. \A s \in lhs : s \in rhs
  BY <1>2, <1>5
<1>8. \A s \in rhs : s \in lhs
  <2> SUFFICES ASSUME NEW x \in Nat, end - context <= x, x <= p + q PROVE x % context \in lhs
    BY DEF Window
  <2> QED  BY <1>2, <1>6
<1>9. lhs = rhs
  BY <1>7, <1>8
<1>10. end - context = stream_positions[b] + n - context
  BY <1>1
<1> QED  BY <1>9, <1>10

-----------------------------------------------------------------------------
(* The inductive invariant                                                 *)

(* A ring holds the keys at the n positions of stream st before hi, those  *)
(* before from excepted.                                                   *)
Kept(ring, st, hi, n, from) ==
  \A x \in Nat : x < hi /\ hi <= x + n /\ from <= x => ring[x % context] = Key(st, x)

(* An element's ring once what its builder has announced is stored.        *)
Ring(b) ==
  IF applied \/ context <= iam.seq_len THEN k[b]
  ELSE scatter_set(k[b], iam.indices[b], iam.rows[b], iam.seq_len)

(* The padding of a step that an element sits out goes where its next key  *)
(* will: over the oldest of its context keys.                              *)
RingsFollow ==
  \A b \in batch : Kept(Ring(b), stream[b], stream_positions[b], context - 1, unstored[b])

(* The last step was of the keys from p on of stream st, and the ring is   *)
(* what its masks suppose.                                                 *)
StepOf(b, p, st) ==
  LET n == iam.seq_len
  IN /\ \A i \in Below(n) : iam.rows[b][i] = Key(st, p + i)
     /\ context <= n =>
          /\ \A q \in Below(n) : iam.mask[b][q] = SeesAbs(n)[q]
          /\ applied => returned[b] = iam.rows[b]
     /\ n < context =>
          /\ \A i \in Below(n) : iam.indices[b][i] = (p + i) % context
          /\ \A q \in Below(n) : iam.mask[b][q] = Window(p + n - context, p + q)
          /\ applied => Kept(returned[b], st, p + n, context, iam.unstored[b])
          /\ ~applied => Kept(k[b], st, p, context - 1, iam.unstored[b])

StepKnown ==
  \/ iam = NoStep /\ applied
  \/ /\ iam.seq_len \in StepLens /\ iam.active \subseteq batch /\ iam.unstored \in [batch -> Nat]
     /\ \A b \in iam.active : \E p, st \in Nat : StepOf(b, p, st)

IInv ==
  /\ BuilderTypeOK /\ unstored \in [batch -> Nat]
  /\ IndexFollowsPosition
  /\ RingsFollow
  /\ StepKnown

-----------------------------------------------------------------------------
(* Storing                                                                 *)

LEMMA KeptLess ==
  ASSUME NEW ring, NEW st, NEW hi \in Nat, NEW n \in Nat, NEW m \in Nat, m <= n, NEW from,
         Kept(ring, st, hi, n, from)
  PROVE  Kept(ring, st, hi, m, from)
BY DEF Kept

LEMMA Context == context \in Nat \ {0} /\ context - 1 \in Nat /\ StepLens \subseteq Nat \ {0} /\ MaxPos \in Nat
BY BuilderAssumption

(* Scattered after the keys before them, the keys of a step complete the   *)
(* ring.                                                                   *)
LEMMA ScatterKeeps ==
  ASSUME NEW n \in Nat \ {0}, n < context, NEW p \in Nat, NEW st, NEW from \in Nat,
         NEW ring, NEW into, NEW rows,
         \A i \in Below(n) : into[i] = (p + i) % context /\ rows[i] = Key(st, p + i),
         Kept(ring, st, p, context - 1, from)
  PROVE  Kept(scatter_set(ring, into, rows, n), st, p + n, context, from)
<1> SUFFICES ASSUME NEW x \in Nat, x < p + n, p + n <= x + context, from <= x
             PROVE  scatter_set(ring, into, rows, n)[x % context] = Key(st, x)
  BY DEF Kept
<1> DEFINE s == x % context
           W(i) == i \in Below(n) /\ into[i] = s
<1>1. s \in RingSlots
  BY Context, Division DEF RingSlots
<1>2. scatter_set(ring, into, rows, n)[s] = IF \E i : W(i) THEN rows[CHOOSE i : W(i)] ELSE ring[s]
  BY <1>1 DEF scatter_set
<1>3. ASSUME NEW i, W(i) PROVE i \in Nat /\ p + i = x
  <2>1. i \in Nat /\ i < n /\ (p + i) % context = s /\ p + i \in Nat
    BY <1>3 DEF Below
  <2>2. x < p + i + context /\ p + i < x + context
    BY <2>1, Context
  <2>3. ~(x < p + i) /\ ~(p + i < x)
    BY <2>1, <2>2, Context, SlotsApart
  <2> QED  BY <2>1, <2>3
<1>4. CASE \E i : W(i)
  <2>1. PICK i : W(i) /\ scatter_set(ring, into, rows, n)[s] = rows[i]
    BY <1>2, <1>4
  <2>2. p + i = x
    BY <1>3, <2>1
  <2> QED  BY <2>1, <2>2
<1>5. CASE ~\E i : W(i)
  <2>1. x < p
    <3> SUFFICES ASSUME p <= x PROVE FALSE
      OBVIOUS
    <3>1. x - p \in Below(n) /\ p + (x - p) = x
      BY DEF Below
    <3> QED  BY <1>5, <3>1
  <2>2. p <= x + (context - 1)
    BY Context
  <2>3. ring[s] = Key(st, x)
    BY <2>1, <2>2 DEF Kept
  <2> QED  BY <1>2, <1>5, <2>3
<1> QED  BY <1>4, <1>5

(* The padding of an element that sits a step out spares the keys it still *)
(* needs.                                                                  *)
LEMMA PaddingKeeps ==
  ASSUME NEW n \in Nat, NEW p \in Nat, NEW st, NEW from,
         NEW ring, NEW into, NEW rows,
         \A i \in Below(n) : into[i] = p % context,
         Kept(ring, st, p, context - 1, from)
  PROVE  Kept(scatter_set(ring, into, rows, n), st, p, context - 1, from)
<1> SUFFICES ASSUME NEW x \in Nat, x < p, p <= x + (context - 1), from <= x
             PROVE  scatter_set(ring, into, rows, n)[x % context] = Key(st, x)
  BY DEF Kept
<1>1. x % context \in RingSlots
  BY Context, Division DEF RingSlots
<1>2. p < x + context
  BY Context
<1>3. x % context # p % context
  BY <1>2, Context, SlotsApart
<1>4. scatter_set(ring, into, rows, n)[x % context] = ring[x % context]
  BY <1>1, <1>3 DEF scatter_set
<1> QED  BY <1>4 DEF Kept

-----------------------------------------------------------------------------
(* Steps                                                                   *)

LEMMA InitHolds == BuilderInit => IInv
<1> SUFFICES ASSUME BuilderInit PROVE IInv
  OBVIOUS
<1> USE DEF BuilderInit
<1>1. 0 \in RingSlots /\ 0 % context = 0
  BY Context, SlotSmall DEF RingSlots
<1>2. BuilderTypeOK /\ unstored \in [batch -> Nat] /\ IndexFollowsPosition
  BY <1>1 DEF BuilderTypeOK, IndexFollowsPosition
<1>3. RingsFollow
  BY DEF RingsFollow, Kept
<1>4. StepKnown
  BY DEF StepKnown
<1> QED  BY <1>2, <1>3, <1>4 DEF IInv

LEMMA AdvanceTypes ==
  ASSUME IInv, NEW n \in StepLens, NEW active \in SUBSET batch, indices_and_mask(n, active)
  PROVE  BuilderTypeOK' /\ unstored' \in [batch' -> Nat] /\ IndexFollowsPosition'
<1>1. n \in Nat \ {0} /\ context \in Nat \ {0}
  BY Context
<1>2. BuilderTypeOK /\ IndexFollowsPosition /\ unstored \in [batch -> Nat]
  BY DEF IInv
<1>3. /\ stream_positions' = [b \in batch |-> IF b \in active THEN stream_positions[b] + n ELSE stream_positions[b]]
      /\ indices' = [b \in batch |-> IF b \in active THEN IndexAfter(b, n) ELSE indices[b]]
      /\ unstored' = [b \in batch |-> IF b \in active /\ context <= n THEN stream_positions'[b] ELSE unstored[b]]
      /\ applied' = FALSE /\ stream' = stream /\ batch' = batch
  BY DEF indices_and_mask, Advance
<1>4. stream_positions' \in [batch -> Nat]
  BY <1>1, <1>2, <1>3 DEF BuilderTypeOK
<1>5. \A b \in batch : indices'[b] = stream_positions'[b] % context
  BY <1>1, <1>2, <1>3, PositionFacts DEF BuilderTypeOK
<1>6. indices' \in [batch -> RingSlots]
  <2>1. \A b \in batch : indices'[b] \in RingSlots
    BY <1>1, <1>4, <1>5, Division DEF RingSlots
  <2> QED  BY <1>3, <2>1
<1>7. unstored' \in [batch' -> Nat]
  BY <1>2, <1>3, <1>4
<1> QED  BY <1>2, <1>3, <1>4, <1>5, <1>6, <1>7 DEF BuilderTypeOK, IndexFollowsPosition

(* What the builder announces for an element that takes part.              *)
LEMMA Announced ==
  ASSUME IInv, NEW n \in StepLens, NEW active \in SUBSET batch, indices_and_mask(n, active),
         NEW b \in active, NEW p \in Nat, p = stream_positions[b], NEW st, st = stream[b]
  PROVE  /\ StepOf(b, p, st)'
         /\ \A i \in Below(n) : /\ iam'.indices[b][i] = (p + i) % context
                                /\ iam'.rows[b][i] = Key(st, p + i)
<1>1. /\ n \in Nat \ {0} /\ context \in Nat \ {0} /\ p \in Nat /\ p + n <= MaxPos
      /\ BuilderTypeOK /\ IndexFollowsPosition
  BY Context DEF IInv, BuilderTypeOK, indices_and_mask
<1>2. /\ iam' = [seq_len |-> n, active |-> active, unstored |-> unstored,
                 indices |-> [c \in batch |-> Into(c, n, active)],
                 mask |-> [c \in batch |-> IF context <= n THEN SeesAbs(n) ELSE Sees(c, n, active)],
                 rows |-> [c \in batch |-> [i \in Below(n) |->
                             IF c \in active THEN Key(stream[c], stream_positions[c] + i) ELSE Padding]]]
      /\ applied /\ applied' = FALSE /\ k' = k /\ batch' = batch
  BY DEF indices_and_mask
<1>3. iam'.seq_len = n /\ iam'.unstored = unstored /\ iam'.indices[b] = Into(b, n, active)
  BY <1>2
<1>4. iam'.mask[b] = IF context <= n THEN SeesAbs(n) ELSE Sees(b, n, active)
  BY <1>2
<1>5. ASSUME NEW i \in Below(n) PROVE iam'.rows[b][i] = Key(st, p + i)
  BY <1>2
<1>6. ASSUME NEW i \in Below(n) PROVE iam'.indices[b][i] = (p + i) % context
  <2>1. i \in Nat
    BY <1>1 DEF Below
  <2>2. IndexAfter(b, i) = (p + i) % context
    BY <1>1, <2>1, PositionFacts
  <2> QED  BY <1>3, <2>2 DEF Into
<1>7. ASSUME n < context, NEW q \in Below(n) PROVE iam'.mask[b][q] = Window(p + n - context, p + q)
  BY <1>1, <1>4, <1>7, SeesWindow
<1>8. Kept(k[b], st, p, context - 1, unstored[b])
  BY <1>2 DEF IInv, RingsFollow, Ring
<1>9. context <= n => \A q \in Below(n) : iam'.mask[b][q] = SeesAbs(n)[q]
  BY <1>4
<1>10. StepOf(b, p, st)'
  <2>1. iam'.seq_len = n /\ ~applied'
    BY <1>2, <1>3
  <2>2. Kept(k'[b], st, p, context - 1, iam'.unstored[b])
    BY <1>2, <1>3, <1>8
  <2> QED  BY <2>1, <2>2, <1>5, <1>6, <1>7, <1>9 DEF StepOf
<1> QED  BY <1>5, <1>6, <1>10

LEMMA AdvanceHolds ==
  ASSUME IInv, NEW n \in StepLens, NEW active \in SUBSET batch, indices_and_mask(n, active)
  PROVE  IInv'
<1>1. /\ n \in Nat \ {0} /\ context \in Nat \ {0} /\ BuilderTypeOK /\ IndexFollowsPosition
      /\ RingsFollow /\ applied /\ applied' = FALSE /\ k' = k /\ stream' = stream /\ batch' = batch
      /\ iam'.seq_len = n /\ iam'.active = active /\ iam'.unstored = unstored
      /\ unstored \in [batch -> Nat]
  BY Context DEF IInv, indices_and_mask
<1>2. \A b \in batch : stream_positions[b] \in Nat /\ stream[b] \in Nat /\ unstored[b] \in Nat
  BY <1>1 DEF BuilderTypeOK
<1>3. BuilderTypeOK' /\ unstored' \in [batch' -> Nat] /\ IndexFollowsPosition'
  BY AdvanceTypes
<1>4. StepKnown'
  <2>1. ASSUME NEW b \in active PROVE \E p, st \in Nat : StepOf(b, p, st)'
    BY <1>2, Announced
  <2> QED  BY <1>1, <2>1 DEF StepKnown
<1>5. ASSUME NEW b \in batch
      PROVE  Kept(Ring(b)', stream'[b], stream_positions'[b], context - 1, unstored'[b])
  <2>1. Kept(k[b], stream[b], stream_positions[b], context - 1, unstored[b])
    BY <1>1 DEF RingsFollow, Ring
  <2>2. stream_positions'[b] = IF b \in active THEN stream_positions[b] + n ELSE stream_positions[b]
    BY DEF indices_and_mask, Advance
  <2>3. unstored'[b] = IF b \in active /\ context <= n THEN stream_positions'[b] ELSE unstored[b]
    BY DEF indices_and_mask, Advance
  <2>4. Ring(b)' = IF context <= n THEN k[b] ELSE scatter_set(k[b], iam'.indices[b], iam'.rows[b], n)
    BY <1>1 DEF Ring, scatter_set
  <2>5. CASE context <= n /\ b \in active
    <3>1. \A x \in Nat : ~(x < stream_positions'[b] /\ unstored'[b] <= x)
      BY <1>1, <1>2, <2>2, <2>3, <2>5
    <3> QED  BY <3>1 DEF Kept
  <2>6. CASE context <= n /\ b \notin active
    BY <1>1, <2>1, <2>2, <2>3, <2>4, <2>6
  <2>7. CASE n < context /\ b \in active
    <3>1. \A i \in Below(n) : /\ iam'.indices[b][i] = (stream_positions[b] + i) % context
                              /\ iam'.rows[b][i] = Key(stream[b], stream_positions[b] + i)
      BY <1>2, <2>7, Announced
    <3>2. Kept(Ring(b)', stream[b], stream_positions[b] + n, context, unstored[b])
      BY <1>1, <1>2, <2>1, <2>4, <2>7, <3>1, ScatterKeeps
    <3>3. Kept(Ring(b)', stream[b], stream_positions[b] + n, context - 1, unstored[b])
      BY <1>1, <1>2, <3>2, KeptLess
    <3> QED  BY <1>1, <2>2, <2>3, <2>7, <3>3
  <2>8. CASE n < context /\ b \notin active
    <3>1. iam'.indices[b] = Into(b, n, active)
      BY DEF indices_and_mask
    <3>2. \A i \in Below(n) : iam'.indices[b][i] = stream_positions[b] % context
      BY <1>1, <2>8, <3>1, PositionFacts DEF Into
    <3>3. Kept(Ring(b)', stream[b], stream_positions[b], context - 1, unstored[b])
      BY <1>1, <1>2, <2>1, <2>4, <2>8, <3>2, PaddingKeeps
    <3> QED  BY <1>1, <2>2, <2>3, <2>8, <3>3
  <2> QED  BY <1>1, <2>5, <2>6, <2>7, <2>8
<1>6. RingsFollow'
  BY <1>1, <1>5 DEF RingsFollow
<1> QED  BY <1>3, <1>4, <1>6 DEF IInv

LEMMA AppendHolds == IInv /\ append => IInv'
<1> SUFFICES ASSUME IInv, append PROVE IInv'
  OBVIOUS
<1> DEFINE n == iam.seq_len
<1>1. ~applied /\ applied' = TRUE /\ UNCHANGED <<batch, stream_positions, indices, stream, unstored, iam>>
  BY DEF append, builder
<1>2. n \in Nat \ {0} /\ context \in Nat \ {0} /\ iam.active \subseteq batch /\ iam.unstored \in [batch -> Nat]
  BY <1>1, Context DEF IInv, StepKnown
<1>3. IF context <= n THEN k' = k /\ returned' = iam.rows
      ELSE /\ k' = [b \in batch |-> scatter_set(k[b], iam.indices[b], iam.rows[b], n)]
           /\ returned' = k'
  BY DEF append
<1>4. BuilderTypeOK' /\ unstored' \in [batch' -> Nat] /\ IndexFollowsPosition'
  BY <1>1 DEF IInv, BuilderTypeOK, IndexFollowsPosition
<1>5. \A b \in batch : Ring(b)' = Ring(b)
  BY <1>1, <1>3 DEF Ring
<1>6. RingsFollow'
  BY <1>1, <1>5 DEF IInv, RingsFollow
<1>7. ASSUME NEW b \in iam.active, NEW p \in Nat, NEW st \in Nat, StepOf(b, p, st)
      PROVE  StepOf(b, p, st)'
  <2>1. CASE context <= n
    <3>1. returned'[b] = iam.rows[b] /\ ~(n < context)
      BY <1>2, <1>3, <2>1
    <3> QED  BY <1>1, <1>7, <2>1, <3>1 DEF StepOf
  <2>2. CASE n < context
    <3>1. returned'[b] = scatter_set(k[b], iam.indices[b], iam.rows[b], n) /\ ~(context <= n)
      BY <1>2, <1>3, <2>2
    <3>2. iam.unstored[b] \in Nat
      BY <1>2
    <3>3. Kept(k[b], st, p, context - 1, iam.unstored[b])
      BY <1>1, <1>7, <2>2 DEF StepOf
    <3>4. \A i \in Below(n) : iam.indices[b][i] = (p + i) % context /\ iam.rows[b][i] = Key(st, p + i)
      BY <1>7, <2>2 DEF StepOf
    <3>5. Kept(returned'[b], st, p + n, context, iam.unstored[b])
      BY <1>2, <2>2, <3>1, <3>2, <3>3, <3>4, ScatterKeeps
    <3> QED  BY <1>1, <1>7, <2>2, <3>1, <3>5 DEF StepOf
  <2> QED  BY <1>2, <2>1, <2>2
<1>8. StepKnown'
  BY <1>1, <1>7 DEF IInv, StepKnown
<1> QED  BY <1>4, <1>6, <1>8 DEF IInv

(* A reset leaves nothing of the new stream to be kept, and what was       *)
(* announced goes on as it was.                                            *)
LEMMA ResetHolds ==
  ASSUME IInv, NEW bs \in SUBSET batch, NewStreams(bs),
         stream_positions' = [b \in batch |-> IF b \in bs THEN 0 ELSE stream_positions[b]],
         indices' = [b \in batch |-> IF b \in bs THEN 0 ELSE indices[b]]
  PROVE  IInv'
<1>1. /\ stream' = [b \in batch |-> IF b \in bs THEN stream[b] + 1 ELSE stream[b]]
      /\ unstored' = [b \in batch |-> IF b \in bs THEN 0 ELSE unstored[b]]
      /\ UNCHANGED <<batch, k, iam, applied, returned>>
  BY DEF NewStreams
<1>2. 0 \in RingSlots /\ 0 % context = 0
  BY Context, SlotSmall DEF RingSlots
<1>3. BuilderTypeOK' /\ unstored' \in [batch' -> Nat]
  BY <1>1, <1>2 DEF IInv, BuilderTypeOK
<1>4. IndexFollowsPosition'
  BY <1>1, <1>2 DEF IInv, IndexFollowsPosition
<1>5. \A b \in batch : Ring(b)' = Ring(b)
  BY <1>1 DEF Ring, scatter_set
<1>6. ASSUME NEW b \in batch
      PROVE  Kept(Ring(b)', stream'[b], stream_positions'[b], context - 1, unstored'[b])
  <2>1. CASE b \in bs
    <3>1. \A x \in Nat : ~(x < stream_positions'[b])
      BY <2>1
    <3> QED  BY <3>1 DEF Kept
  <2>2. CASE b \notin bs
    BY <1>1, <1>5, <2>2 DEF IInv, RingsFollow
  <2> QED  BY <2>1, <2>2
<1>7. RingsFollow'
  BY <1>1, <1>6 DEF RingsFollow
<1>8. StepKnown'
  <2>1. ASSUME NEW b, NEW p, NEW st, StepOf(b, p, st) PROVE StepOf(b, p, st)'
    BY <1>1, <2>1 DEF StepOf
  <2> QED  BY <1>1, <2>1 DEF IInv, StepKnown
<1> QED  BY <1>3, <1>4, <1>7, <1>8 DEF IInv

LEMMA NextHolds == IInv /\ [BuilderNext]_scattered_vars => IInv'
<1> SUFFICES ASSUME IInv, [BuilderNext]_scattered_vars PROVE IInv'
  OBVIOUS
<1>1. ASSUME reset_all PROVE IInv'
  <2>1. /\ stream_positions' = [b \in batch |-> IF b \in batch THEN 0 ELSE stream_positions[b]]
        /\ indices' = [b \in batch |-> IF b \in batch THEN 0 ELSE indices[b]]
        /\ NewStreams(batch)
    BY <1>1 DEF reset_all
  <2> QED  BY <2>1, ResetHolds
<1>2. ASSUME NEW b \in batch, reset_batch_index(b) PROVE IInv'
  <2>1. stream_positions' = [c \in batch |-> IF c \in {b} THEN 0 ELSE stream_positions[c]]
    BY <1>2 DEF reset_batch_index, IInv, BuilderTypeOK
  <2>2. indices' = [c \in batch |-> IF c \in {b} THEN 0 ELSE indices[c]]
    BY <1>2 DEF reset_batch_index, IInv, BuilderTypeOK
  <2>3. NewStreams({b})
    BY <1>2 DEF reset_batch_index
  <2> QED  BY <2>1, <2>2, <2>3, ResetHolds
<1>3. ASSUME UNCHANGED scattered_vars PROVE IInv'
  <2>1. UNCHANGED <<batch, stream_positions, indices, stream, unstored, k, iam, applied, returned>>
    BY <1>3 DEF scattered_vars, builder
  <2>2. BuilderTypeOK' /\ unstored' \in [batch' -> Nat] /\ IndexFollowsPosition'
    BY <2>1 DEF IInv, BuilderTypeOK, IndexFollowsPosition
  <2>3. \A b \in batch : Ring(b)' = Ring(b)
    BY <2>1 DEF Ring
  <2>4. RingsFollow'
    BY <2>1, <2>3 DEF IInv, RingsFollow
  <2>5. StepKnown'
    BY <2>1 DEF IInv, StepKnown, StepOf
  <2> QED  BY <2>2, <2>4, <2>5 DEF IInv
<1>4. ASSUME NEW n \in StepLens, indices_and_mask_fails(n) PROVE IInv'
  BY <1>3, <1>4 DEF indices_and_mask_fails
<1> QED  BY <1>1, <1>2, <1>3, <1>4, AdvanceHolds, AppendHolds DEF BuilderNext

-----------------------------------------------------------------------------
(* What follows                                                            *)

(* The builder's indices and positions, and what the rings hold, stay as   *)
(* indices_and_mask supposes them (kv_cache.rs:426), for every batch,      *)
(* size of the ring and steps, whichever elements advance, pause or are    *)
(* reset.                                                                  *)
THEOREM BuilderInvariant == BuilderSpec => []IInv
<1> QED  BY InitHolds, NextHolds, PTL DEF BuilderSpec

(* The index an element's next key goes to is its position round the ring. *)
THEOREM IndexIsPosition == BuilderSpec => []IndexFollowsPosition
<1>1. IInv => IndexFollowsPosition
  BY DEF IInv
<1> QED  BY <1>1, BuilderInvariant, PTL

THEOREM BuilderTypeCorrect == BuilderSpec => []BuilderTypeOK
<1>1. IInv => BuilderTypeOK
  BY DEF IInv
<1> QED  BY <1>1, BuilderInvariant, PTL

LEMMA LongAttends ==
  ASSUME IInv, applied, NEW b \in iam.active, iam.seq_len \in StepLens, NEW q \in Below(iam.seq_len),
         NEW p \in Nat, NEW st \in Nat, StepOf(b, p, st), context <= iam.seq_len
  PROVE  Attends(b, q)
<1> DEFINE n == iam.seq_len
           me == iam.rows[b][q]
           lo == Oldest(b, q)
           shown == {returned[b][s] : s \in iam.mask[b][q]}
<1>1. n \in Nat \ {0} /\ context \in Nat \ {0} /\ q \in Nat /\ q < n /\ 0 \in Below(n)
  <2>1. n \in Nat \ {0} /\ context \in Nat \ {0}
    BY Context
  <2> HIDE DEF n
  <2> QED  BY <2>1 DEF Below, n
<1>2. returned[b] = iam.rows[b] /\ iam.mask[b][q] = {j \in Below(n) : j <= q /\ j + context >= q}
  BY DEF StepOf, SeesAbs
<1>3. \A i \in Below(n) : iam.rows[b][i] = Key(st, p + i)
  BY DEF StepOf
<1>4. me = Key(st, p + q) /\ me.stream = st /\ me.pos = p + q /\ iam.rows[b][0].pos = p
  <2>1. me = Key(st, p + q) /\ iam.rows[b][0] = Key(st, p + 0) /\ p + 0 = p
    BY <1>1, <1>3
  <2> QED  BY <2>1 DEF Key
<1>5. lo = IF q < context THEN p ELSE p + q - context
  BY <1>1, <1>4 DEF Oldest
<1>6. lo \in Nat /\ \A j \in Nat : p + j >= lo <=> j + context >= q
  BY <1>1, <1>5
<1>7. ASSUME NEW s \in iam.mask[b][q]
      PROVE  returned[b][s] \in {Key(st, x) : x \in {y \in 0 .. p + q : y >= lo}}
  <2>1. s \in Nat /\ s \in Below(n) /\ s <= q /\ s + context >= q
    BY <1>2, <1>7 DEF Below
  <2>2. p + s \in 0 .. p + q /\ p + s >= lo /\ returned[b][s] = Key(st, p + s)
    BY <1>1, <1>2, <1>3, <1>6, <2>1
  <2> QED  BY <2>2
<1>8. ASSUME NEW x \in 0 .. p + q, x >= lo PROVE Key(st, x) \in shown
  <2>1. p <= x
    BY <1>1, <1>5, <1>8
  <2>2. x - p \in Below(n) /\ x - p <= q /\ p + (x - p) = x /\ x - p \in Nat
    BY <1>1, <1>8, <2>1 DEF Below
  <2>3. x - p \in iam.mask[b][q]
    BY <1>2, <1>6, <1>8, <2>2
  <2>4. returned[b][x - p] = Key(st, x)
    BY <1>2, <1>3, <2>2
  <2> QED  BY <2>3, <2>4
<1> QED  BY <1>4, <1>7, <1>8 DEF Attends

LEMMA ShortAttends ==
  ASSUME IInv, applied, NEW b \in iam.active, iam.seq_len \in StepLens, NEW q \in Below(iam.seq_len),
         NEW p \in Nat, NEW st \in Nat, StepOf(b, p, st), iam.seq_len < context,
         iam.unstored[b] \in Nat, iam.unstored[b] <= Oldest(b, q)
  PROVE  Attends(b, q)
<1> DEFINE n == iam.seq_len
           me == iam.rows[b][q]
           lo == Oldest(b, q)
           shown == {returned[b][s] : s \in iam.mask[b][q]}
<1>1. n \in Nat \ {0} /\ context \in Nat \ {0} /\ q \in Nat /\ q < n /\ n - 1 \in Below(n)
  <2>1. n \in Nat \ {0} /\ context \in Nat \ {0}
    BY Context
  <2> QED  BY <2>1 DEF Below
<1>2. iam.mask[b][q] = Window(p + n - context, p + q)
  BY DEF StepOf
<1>3. Kept(returned[b], st, p + n, context, iam.unstored[b])
  BY DEF StepOf
<1>4. me.stream = st /\ me.pos = p + q /\ iam.rows[b][n - 1].pos = p + (n - 1)
  <2>1. me = Key(st, p + q) /\ iam.rows[b][n - 1] = Key(st, p + (n - 1))
    BY <1>1 DEF StepOf
  <2> QED  BY <2>1 DEF Key
<1>5. lo = p + n - context /\ lo \in Nat
  BY <1>1, <1>4 DEF Oldest
<1>6. ASSUME NEW x \in Nat, lo <= x, x <= p + q PROVE returned[b][x % context] = Key(st, x)
  <2>1. x < p + n /\ p + n <= x + context /\ iam.unstored[b] <= x
    BY <1>1, <1>5, <1>6
  <2> QED  BY <1>3, <2>1 DEF Kept
<1>7. ASSUME NEW s \in iam.mask[b][q]
      PROVE  returned[b][s] \in {Key(st, x) : x \in {y \in 0 .. p + q : y >= lo}}
  <2>1. PICK x \in Nat : lo <= x /\ x <= p + q /\ s = x % context
    BY <1>2, <1>5, <1>7 DEF Window
  <2>2. x \in 0 .. p + q /\ x >= lo /\ returned[b][s] = Key(st, x)
    BY <1>1, <1>5, <1>6, <2>1
  <2> QED  BY <2>2
<1>8. ASSUME NEW x \in 0 .. p + q, x >= lo PROVE Key(st, x) \in shown
  <2>1. x \in Nat /\ lo <= x /\ x <= p + q
    BY <1>1, <1>5, <1>8
  <2>2. x % context \in iam.mask[b][q]
    BY <1>2, <1>5, <2>1 DEF Window
  <2> QED  BY <1>6, <2>1, <2>2
<1> QED  BY <1>4, <1>7, <1>8 DEF Attends

(* In every step of context keys or more that is not refused, and in every *)
(* shorter one whose window is past the last of those, a query attends to  *)
(* exactly the keys of its own stream still held and not after its own     *)
(* (kv_cache.rs:426 to 501 for the indices and masks, 352 to 366 for the   *)
(* append), whoever else advances, pauses or is reset in between.          *)
THEOREM AttendsToKept == BuilderSpec => []AttendsOnceStored
<1>1. IInv => AttendsOnceStored
  <2> SUFFICES ASSUME IInv, applied, iam # NoStep, NEW b \in iam.active, NEW q \in Below(iam.seq_len)
               PROVE  Attends(b, q) \/ (iam.seq_len < context /\ Oldest(b, q) < iam.unstored[b])
    BY DEF AttendsOnceStored
  <2>1. /\ iam.seq_len \in StepLens /\ b \in batch /\ iam.unstored[b] \in Nat
        /\ iam.seq_len \in Nat \ {0} /\ context \in Nat \ {0} /\ q \in Nat /\ q < iam.seq_len
        /\ iam.seq_len - 1 \in Below(iam.seq_len)
    <3>1. iam.seq_len \in StepLens /\ b \in batch /\ iam.unstored[b] \in Nat
      BY DEF IInv, StepKnown
    <3>2. iam.seq_len \in Nat \ {0} /\ context \in Nat \ {0}
      BY <3>1, Context
    <3> QED  BY <3>1, <3>2 DEF Below
  <2>2. PICK p \in Nat, st \in Nat : StepOf(b, p, st)
    BY <2>1 DEF IInv, StepKnown
  <2>3. CASE context <= iam.seq_len
    BY <2>1, <2>2, <2>3, LongAttends
  <2>4. CASE iam.seq_len < context
    <3>1. iam.rows[b][iam.seq_len - 1] = Key(st, p + (iam.seq_len - 1))
      BY <2>1, <2>2 DEF StepOf
    <3>2. Oldest(b, q) \in Int
      BY <2>1, <2>2, <2>4, <3>1 DEF Oldest, Key
    <3> QED  BY <2>1, <2>2, <2>4, <3>2, ShortAttends
  <2> QED  BY <2>1, <2>3, <2>4
<1> QED  BY <1>1, BuilderInvariant, PTL

=============================================================================
