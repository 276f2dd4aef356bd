--------------------------- MODULE SharingProofs ----------------------------
(***************************************************************************)
(* How threads share data. par_chunks_mut (ParUnits) covers its slice,     *)
(* each element once, for every length, piece size and number of threads;  *)
(* the locks of tensors (TensorLocks) keep what they guard whole, for any  *)
(* threads, storages and operations; the pieces that a kernel of the CPU   *)
(* backend is cut into (CpuLayout, CpuCompute) write different places, for *)
(* any shapes and strides and any number of participants.                  *)
(***************************************************************************)
EXTENDS ParUnits, TensorLocks, CpuCompute, SequenceTheorems, WellFoundedInduction, TLAPS

-----------------------------------------------------------------------------
(* Pieces of a slice                                                       *)

(* Arithmetic of the cut.                                                  *)

(* Multiplying by a piece size is strictly monotonic.                      *)
LEMMA Monotonic ==
  ASSUME NEW k \in Nat \ {0}, NEW c \in Nat, NEW d \in Nat, c < d
  PROVE  (c + 1) * k <= d * k
BY SMTT(20)

(* What division by a variable gives.                                      *)
LEMMA Division ==
  ASSUME NEW k \in Nat \ {0}, NEW a \in Nat
  PROVE  a \div k \in Nat /\ (a \div k) * k <= a /\ a < (a \div k + 1) * k
BY SMTT(20)

(* A quotient exceeds every c whose successor times the divisor fits.      *)
LEMMA DivisionAbove ==
  ASSUME NEW k \in Nat \ {0}, NEW a \in Nat, NEW c \in Nat, (c + 1) * k <= a
  PROVE  c < a \div k
<1>1. a \div k \in Nat /\ a < (a \div k + 1) * k
  BY Division
<1>2. ASSUME a \div k <= c
      PROVE  FALSE
  <2>1. (a \div k + 1) * k <= (c + 1) * k
    BY <1>1, <1>2, Monotonic
  <2> QED
    BY <1>1, <2>1
<1> QED
  BY <1>1, <1>2

(* Two pieces share no element of the slice.                               *)
LEMMA PiecesShareNothing ==
  ASSUME ParAssumption, NEW c \in Nat, NEW d \in Nat, c # d
  PROVE  Piece(c) \cap Piece(d) = {}
<1>1. Chunk \in Nat \ {0} /\ Length \in Nat
  BY DEF ParAssumption
<1>2. ASSUME NEW i \in Nat, NEW j \in Nat, i < j, NEW e \in Piece(i) \cap Piece(j)
      PROVE  FALSE
  <2>1. (i + 1) * Chunk <= j * Chunk
    BY <1>1, <1>2, Monotonic
  <2>2. e \in Nat /\ j * Chunk <= e /\ e < (i + 1) * Chunk
    BY <1>1, <1>2 DEF Piece, Elements
  <2> QED
    BY <1>1, <2>1, <2>2
<1>3. c < d \/ d < c
  OBVIOUS
<1> QED
  BY <1>2, <1>3

(* Every element of the slice is in one of the pieces.                     *)
LEMMA PiecesCover ==
  ASSUME ParAssumption, NEW e \in Elements
  PROVE  NChunks \in Nat /\ \E c \in 0 .. NChunks - 1 : e \in Piece(c)
<1>1. Chunk \in Nat \ {0} /\ Length \in Nat /\ e \in Nat /\ e < Length
  BY DEF ParAssumption, Elements
<1> DEFINE c == e \div Chunk
           top == Length + Chunk - 1
<1>2. c \in Nat /\ c * Chunk <= e /\ e < (c + 1) * Chunk
  BY <1>1, Division
<1>3. top \in Nat /\ (c + 1) * Chunk <= top
  BY <1>1, <1>2
<1>4. c < top \div Chunk /\ top \div Chunk \in Nat
  BY <1>1, <1>2, <1>3, DivisionAbove, Division
<1>5. NChunks = top \div Chunk
  BY DEF NChunks, DivCeil
<1>6. e \in Piece(c)
  BY <1>2 DEF Piece
<1> QED
  BY <1>2, <1>4, <1>5, <1>6

(* A fetch always hands out something.                                     *)
LEMMA BatchPositive ==
  ASSUME ParAssumption
  PROVE  NChunks \in Nat /\ Batch \in Nat /\ Batch > 0
<1>1. Chunk \in Nat \ {0} /\ Length \in Nat /\ Nth \in Nat \ {0}
  BY DEF ParAssumption
<1>2. NChunks \in Nat
  BY <1>1, Division DEF NChunks, DivCeil
<1>3. CASE NChunks = 0
  BY <1>2, <1>3 DEF Batch
<1>4. CASE NChunks # 0
  <2> DEFINE runs == Least(Nth * 8, NChunks)
             top == NChunks + runs - 1
  <2>1. runs \in Nat \ {0} /\ runs <= NChunks
    BY <1>1, <1>2, <1>4 DEF Least
  <2>2. top \in Nat /\ (0 + 1) * runs <= top
    BY <1>2, <1>4, <2>1
  <2> HIDE DEF runs
  <2>3. top \div runs \in Nat /\ 0 < top \div runs
    BY <2>1, <2>2, Division, DivisionAbove
  <2>4. Batch = top \div runs
    BY <1>4 DEF Batch, DivCeil, runs
  <2> QED
    BY <1>2, <2>3, <2>4
<1> QED
  BY <1>3, <1>4

-----------------------------------------------------------------------------
(* The inductive invariant. A piece is still to be handed out, held by one *)
(* participant, or gone; it is unwritten in the first two cases and, short *)
(* of a panic, written in the third.                                       *)

Held(c) == \E p \in Participants : at[p] <= c /\ c < end[p]
Pieces == 0 .. NChunks - 1

Shape ==
  /\ TypeOK
  /\ left \subseteq team
  /\ phase = "idle" => /\ team = {} /\ left = {} /\ next = 0
                        /\ \A p \in Participants : at[p] = 0 /\ end[p] = 0
  /\ phase # "idle" => 0 \in team
  /\ phase = "returned" => left = team

Runs ==
  /\ \A p \in Participants :
       /\ at[p] <= end[p]
       /\ at[p] < end[p] => end[p] <= next /\ p \in team
  /\ \A p, q \in Participants :
       p # q /\ at[p] < end[p] /\ at[q] < end[q] => end[p] <= at[q] \/ end[q] <= at[p]

Unwritten == \A c \in Pieces : c >= next \/ Held(c) => \A e \in Piece(c) : writes[e] = 0

AtMostOnce == \A e \in Elements : writes[e] <= 1

Written ==
  ~panic =>
    /\ \A c \in Pieces : c < next /\ ~Held(c) => \A e \in Piece(c) : writes[e] = 1
    /\ \A p \in left : at[p] = end[p]
    /\ left # {} => next >= NChunks

PInv == Shape /\ Runs /\ Unwritten /\ AtMostOnce /\ Written

(* Before the call starts nothing is handed out or written.                *)
LEMMA ParStart == ASSUME ParAssumption, Init PROVE PInv
<1>1. NChunks \in Nat /\ 0 \in 0 .. NChunks
  BY BatchPositive
<1>2. Shape
  BY <1>1 DEF Init, Shape, TypeOK
<1>3. Runs /\ AtMostOnce
  BY DEF Init, Runs, AtMostOnce
<1>4. Unwritten /\ Written
  BY <1>1 DEF Init, Unwritten, Written, Pieces, Piece
<1> QED
  BY <1>2, <1>3, <1>4 DEF PInv

(* Fetching, finishing, writing a piece and returning keep the invariant.  *)
LEMMA ParStep == ASSUME ParAssumption, PInv, [Next]_vars PROVE PInv'
<1>0. NChunks \in Nat /\ Batch \in Nat /\ Batch > 0 /\ 0 \in Participants
  BY BatchPositive DEF ParAssumption, Participants
<1> USE <1>0 DEF PInv, Shape, TypeOK, Inside
<1>1. ASSUME StartInline PROVE PInv'
  <2> USE <1>1 DEF StartInline
  <2>1. Shape'
    BY DEF Participants
  <2>2. Runs' /\ AtMostOnce'
    BY DEF Runs, AtMostOnce
  <2>3. \A c \in Pieces : \A e \in Piece(c) : writes[e] = 0
    BY DEF Unwritten, Pieces
  <2>4. Unwritten'
    BY <2>3 DEF Unwritten
  <2>5. \A c \in Pieces : Held(c)'
    BY DEF Held, Pieces, Runs
  <2>6. Written'
    BY <2>5 DEF Written, Runs
  <2> QED
    BY <2>1, <2>2, <2>4, <2>6
<1>2. ASSUME StartDispatch PROVE PInv'
  <2> USE <1>2 DEF StartDispatch
  <2>1. Shape' /\ Runs' /\ AtMostOnce'
    BY DEF Runs, AtMostOnce, Participants
  <2>2. Unwritten' /\ Written'
    BY DEF Unwritten, Written, Held, Pieces
  <2> QED
    BY <2>1, <2>2
<1>3. ASSUME NEW p \in Participants, Fetch(p) PROVE PInv'
  <2> USE <1>3 DEF Fetch
  <2>1. /\ at'[p] = next /\ next < end'[p]
        /\ end'[p] <= NChunks /\ end'[p] <= next'
        /\ end'[p] = next' \/ end'[p] = NChunks
        /\ \A q \in Participants \ {p} : at'[q] = at[q] /\ end'[q] = end[q]
    BY DEF Least
  <2>2. Shape'
    BY DEF Least
  <2>3. Runs' /\ AtMostOnce'
    BY <2>1 DEF Runs, AtMostOnce
  <2>4. \A c \in Pieces : (c < next' /\ ~Held(c)') => c < next /\ ~Held(c)
    BY <2>1 DEF Held, Pieces
  <2>5. \A c \in Pieces : (c >= next' \/ Held(c)') => c >= next \/ Held(c)
    BY <2>1 DEF Held, Pieces
  <2>6. Unwritten'
    BY <2>5 DEF Unwritten
  <2>7. Written'
    BY <2>1, <2>4 DEF Written
  <2> QED
    BY <2>2, <2>3, <2>6, <2>7
<1>4. ASSUME NEW p \in Participants, Finish(p) PROVE PInv'
  <2> USE <1>4 DEF Finish
  <2>1. Shape' /\ Runs' /\ AtMostOnce'
    BY DEF Runs, AtMostOnce
  <2>2. \A c \in Pieces : c < next /\ c < next' /\ (Held(c)' <=> Held(c))
    BY DEF Held, Pieces
  <2>3. Unwritten'
    BY <2>2 DEF Unwritten, Pieces
  <2>4. next' >= NChunks /\ \A q \in left' : q = p \/ q \in left
    OBVIOUS
  <2>5. Written'
    BY <2>2, <2>4 DEF Written
  <2> QED
    BY <2>1, <2>3, <2>5
<1>5. ASSUME NEW p \in Participants, NEW panics \in BOOLEAN, DoPiece(p, panics) PROVE PInv'
  <2> USE <1>5 DEF DoPiece
  <2>1. PICK i \in Pieces : i = at[p] /\ i < next /\ Held(i)
    BY DEF Held, Pieces, Runs
  <2>2. \A e \in Piece(i) : writes[e] = 0 /\ writes'[e] = 1
    BY <2>1 DEF Unwritten, Piece
  <2>3. \A c \in Pieces \ {i} : \A e \in Piece(c) : writes'[e] = writes[e]
    <3>1. \A c \in Pieces \ {i} : Piece(c) \cap Piece(i) = {}
      BY PiecesShareNothing DEF Pieces
    <3> QED
      BY <2>1, <3>1 DEF Piece
  <2>4. ~Held(i)'
    <3> SUFFICES ASSUME NEW q \in Participants, at'[q] <= i, i < end'[q]
                 PROVE  FALSE
      BY DEF Held
    <3>1. CASE q = p
      BY <2>1, <3>1
    <3>2. CASE q # p
      <4>1. at[q] < end[q] /\ at[q] <= i /\ i < end[q]
        BY <2>1, <3>2 DEF Pieces
      <4> QED
        BY <2>1, <3>2, <4>1 DEF Runs
    <3> QED
      BY <3>1, <3>2
  <2>5. \A c \in Pieces \ {i} : Held(c)' <=> Held(c)
    BY <2>1 DEF Held, Pieces
  <2>6. Shape' /\ Runs'
    BY DEF Runs
  <2>7. AtMostOnce'
    BY <2>1, <2>2 DEF AtMostOnce
  <2>8. Unwritten'
    <3> SUFFICES ASSUME NEW c \in Pieces, c >= next \/ Held(c)', NEW e \in Piece(c)
                 PROVE  writes'[e] = 0
      BY DEF Unwritten, Pieces, Piece
    <3>1. c # i /\ (c >= next \/ Held(c))
      BY <2>1, <2>4, <2>5 DEF Pieces
    <3> QED
      BY <2>3, <3>1 DEF Unwritten
  <2>9. Written'
    BY <2>1, <2>2, <2>3, <2>5 DEF Written
  <2> QED
    BY <2>6, <2>7, <2>8, <2>9
<1>6. ASSUME Return PROVE PInv'
  BY <1>6 DEF Return, Runs, Unwritten, AtMostOnce, Written, Held
<1>7. ASSUME UNCHANGED vars PROVE PInv'
  BY <1>7 DEF vars, Runs, Unwritten, AtMostOnce, Written, Held
<1> QED
  BY <1>1, <1>2, <1>3, <1>4, <1>5, <1>6, <1>7 DEF Next

(* The inductive invariant holds of every behaviour of the call.           *)
THEOREM ParInvariant == Spec => []PInv
<1>1. Init => PInv
  BY ParAssumption, ParStart
<1>2. PInv /\ [Next]_vars => PInv'
  BY ParAssumption, ParStep
<1> QED
  BY <1>1, <1>2, PTL DEF Spec

(* The slices handed to different participants share no element, and none  *)
(* is handed out twice (the SAFETY comment of par_chunks_mut_by).          *)
THEOREM PiecesNeverOverlap == Spec => []PiecesDisjoint
<1>1. ASSUME PInv PROVE PiecesDisjoint
  <2>1. \A p, q \in team : \A c \in at[p] .. end[p] - 1, d \in at[q] .. end[q] - 1 :
          p # q => c \in Nat /\ d \in Nat /\ c # d
    BY <1>1, BatchPositive, ParAssumption DEF PInv, Shape, TypeOK, Runs
  <2> QED
    BY <1>1, <2>1, PiecesShareNothing, ParAssumption DEF PiecesDisjoint, PInv, AtMostOnce
<1> QED
  BY <1>1, ParInvariant, PTL

(* When the call returns without a panic every element has been handed out *)
(* exactly once.                                                           *)
THEOREM WholeSliceWritten == Spec => []SliceCovered
<1>1. ASSUME PInv, phase = "returned", ~panic, NEW e \in Elements
      PROVE  writes[e] = 1
  <2>1. PICK c \in Pieces : e \in Piece(c)
    BY ParAssumption, PiecesCover DEF Pieces
  <2>2. NChunks <= next
    BY <1>1 DEF PInv, Shape, Written
  <2>3. ~Held(c)
    BY <1>1 DEF PInv, Shape, TypeOK, Runs, Written, Held, Pieces
  <2> QED
    BY <1>1, <2>1, <2>2, <2>3, BatchPositive, ParAssumption
    DEF PInv, Shape, TypeOK, Written, Pieces
<1>2. PInv => SliceCovered
  BY <1>1 DEF SliceCovered
<1> QED
  BY <1>2, ParInvariant, PTL

-----------------------------------------------------------------------------
(* Locks of tensors                                                        *)

(* Guards of one storage exclude each other as a RwLock's do.              *)
Exclusive ==
  \A th, u \in Threads, s \in Storages :
    th # u /\ Holds(th, Write(s)) => ~Holds(u, Read(s)) /\ ~Holds(u, Write(s))

(* What is poisoned is held by nobody, and what is torn is poisoned.       *)
Avoided ==
  /\ torn \subseteq poisoned
  /\ \A th \in Threads, s \in poisoned : ~Holds(th, Read(s)) /\ ~Holds(th, Write(s))

(* A kernel runs once nothing is left to take.                             *)
Phases ==
  /\ \A th \in computing : todo[th] = <<>>
  /\ \A th \in parked : Asking(th)

Disciplined == LocksTypeOK /\ Phases /\ Exclusive /\ Avoided

(* What a thread holds is above what it still takes before it drops it, if *)
(* its operation descends.                                                 *)
Above(guards, steps) ==
  \A i \in DOMAIN guards, j \in DOMAIN steps :
    (\A n \in 1 .. j : steps[n] # Drop) => steps[j].on < guards[i].on
Ordered == \A th \in Threads \ unordered : Descends(todo[th]) /\ Above(held[th], todo[th])

-----------------------------------------------------------------------------
(* Types                                                                   *)

LEMMA StepFacts ==
  /\ Drop \notin Locks
  /\ \A s : Read(s) # Write(s)
  /\ \A s \in Storages : Read(s) \in Locks /\ Write(s) \in Locks
  /\ \A l \in Locks : /\ l.on \in Storages
                      /\ l.mode = "read" => l = Read(l.on)
                      /\ l.mode = "write" => l = Write(l.on)
                      /\ l.mode \in {"read", "write"}
<1>1. \A s : Read(s).mode # Write(s).mode
  BY DEF Read, Write, Tensor!Read, Tensor!Write, Tensor!Lock
<1>2. Drop \notin Locks
  BY DEF Drop, Tensor!Drop, Locks
<1> QED  BY <1>1, <1>2 DEF Read, Write, Tensor!Read, Tensor!Write, Tensor!Lock, Locks

LEMMA WantsFacts ==
  ASSUME LocksTypeOK, NEW th \in Threads, Asking(th)
  PROVE  Wants(th) \in Locks
BY DEF LocksTypeOK, Asking, Wants, Steps

LEMMA Initially == LocksInit => Disciplined /\ Ordered
<1> SUFFICES ASSUME LocksInit PROVE Disciplined /\ Ordered
  OBVIOUS
<1> USE DEF LocksInit
<1>1. LocksTypeOK
  BY DEF LocksTypeOK
<1>2. \A th \in Threads : \A l : ~Holds(th, l)
  BY DEF Holds
<1>3. Phases /\ Exclusive /\ Avoided
  BY <1>2 DEF Phases, Exclusive, Avoided
<1>4. Ordered
  BY DEF Ordered, Descends, Above
<1> QED  BY <1>1, <1>3, <1>4 DEF Disciplined

LEMMA ReleaseTypes ==
  ASSUME LocksTypeOK, Phases, NEW th \in Threads, Release(th),
         poisoned' \subseteq Storages, torn' \subseteq Storages
  PROVE  LocksTypeOK' /\ Phases'
<1> USE DEF LocksTypeOK, Release
<1>1. todo' \in [Threads -> Seq(Steps)] /\ held' \in [Threads -> Seq(Locks)]
  OBVIOUS
<1>2. \A u \in parked' : u # th /\ Asking(u) /\ todo'[u] = todo[u]
  BY DEF Phases
<1>3. \A u \in parked' : Asking(u)' /\ todo'[u] # <<>>
  BY <1>2 DEF Asking, Wants
<1>4. \A u \in computing' : todo'[u] = <<>>
  BY DEF Phases
<1> QED  BY <1>1, <1>3, <1>4 DEF Phases

(* Every step keeps the types.                                             *)
LEMMA TypesKept == LocksTypeOK /\ Phases /\ [LocksNext]_lock_vars => LocksTypeOK' /\ Phases'
<1> SUFFICES ASSUME LocksTypeOK, Phases, [LocksNext]_lock_vars PROVE LocksTypeOK' /\ Phases'
  OBVIOUS
<1>1. ASSUME NEW th \in Threads, NEW o \in Ops, Start(th, o) PROVE LocksTypeOK' /\ Phases'
  <2>1. o \in Seq(Steps) /\ th \notin parked
    BY <1>1, LocksAssumption DEF Start, Idle, LocksTypeOK
  <2>2. LocksTypeOK'
    BY <1>1, <2>1 DEF Start, Idle, LocksTypeOK
  <2>3. Phases'
    BY <1>1, <2>1 DEF Start, Idle, LocksTypeOK, Phases, Asking, Wants
  <2> QED  BY <2>2, <2>3
<1>2. ASSUME NEW th \in Threads, Park(th) PROVE LocksTypeOK' /\ Phases'
  <2>1. th \notin computing
    BY <1>2 DEF Park, Asking, Phases
  <2> QED  BY <1>2, <2>1 DEF Park, Asking, Wants, LocksTypeOK, Phases
<1>3. ASSUME NEW th \in Threads, DropGuards(th) PROVE LocksTypeOK' /\ Phases'
  <2>1. th \notin parked /\ th \notin computing
    BY <1>3 DEF DropGuards, Phases, Asking
  <2>2. todo'[th] \in Seq(Steps) /\ todo' \in [Threads -> Seq(Steps)]
    BY <1>3 DEF DropGuards, LocksTypeOK
  <2>3. LocksTypeOK'
    BY <1>3, <2>1, <2>2 DEF DropGuards, LocksTypeOK
  <2>4. Phases'
    BY <1>3, <2>1 DEF DropGuards, LocksTypeOK, Phases, Asking, Wants
  <2> QED  BY <2>3, <2>4
<1>4. ASSUME NEW th \in Threads, Acquire(th) PROVE LocksTypeOK' /\ Phases'
  <2>1. Wants(th) \in Locks /\ todo[th] # <<>>
    BY <1>4, WantsFacts DEF Acquire, Granted, Asking
  <2>2. held' \in [Threads -> Seq(Locks)] /\ todo' \in [Threads -> Seq(Steps)]
    BY <1>4, <2>1 DEF Acquire, LocksTypeOK
  <2>3. LocksTypeOK'
    <3>1. computing' \subseteq Threads /\ parked' \subseteq Threads \ computing'
      BY <1>4 DEF Acquire, LocksTypeOK
    <3>2. \A t \in parked' : t \in parked /\ t # th
      BY <1>4 DEF Acquire
    <3>3. \A t \in Threads : t # th => todo'[t] = todo[t]
      BY <1>4 DEF Acquire, LocksTypeOK
    <3>4. \A t \in parked' : todo'[t] # <<>>
      BY <3>2, <3>3 DEF LocksTypeOK
    <3>5. poisoned' \subseteq Storages /\ torn' \subseteq Storages
      BY <1>4 DEF Acquire, LocksTypeOK
    <3>6. unordered' = unordered /\ unordered \subseteq Threads
      BY <1>4 DEF Acquire, LocksTypeOK
    <3> QED  BY <2>2, <3>1, <3>4, <3>5, <3>6 DEF LocksTypeOK
  <2>4. Len(todo[th]) = 1 => todo'[th] = <<>>
    <3>1. todo[th] \in Seq(Steps) /\ todo'[th] = Tail(todo[th])
      BY <1>4 DEF Acquire, LocksTypeOK
    <3>2. Len(todo[th]) = 1 => todo'[th] \in Seq(Steps) /\ Len(todo'[th]) = 0
      BY <2>1, <3>1
    <3> QED  BY <3>2
  <2>5. th \notin computing
    BY <2>1 DEF Phases
  <2>6. Phases'
    BY <1>4, <2>4, <2>5 DEF Acquire, LocksTypeOK, Phases, Asking, Wants
  <2> QED  BY <2>3, <2>6
<1>5. ASSUME NEW th \in Threads, Refused(th) \/ LetGo(th) PROVE LocksTypeOK' /\ Phases'
  BY <1>5, ReleaseTypes DEF Refused, LetGo, LocksTypeOK
<1>6. ASSUME NEW th \in Threads, Panic(th) PROVE LocksTypeOK' /\ Phases'
  <2>1. Outputs(th) \subseteq Storages
    BY DEF Outputs
  <2> QED  BY <1>6, <2>1, ReleaseTypes DEF Panic, LocksTypeOK
<1>7. CASE UNCHANGED lock_vars
  BY <1>7 DEF lock_vars, LocksTypeOK, Phases, Asking, Wants
<1> QED  BY <1>1, <1>2, <1>3, <1>4, <1>5, <1>6, <1>7 DEF LocksNext, Step

-----------------------------------------------------------------------------
(* Guards                                                                  *)

LEMMA ReleaseHolds ==
  ASSUME LocksTypeOK, NEW th \in Threads, held' = [held EXCEPT ![th] = <<>>]
  PROVE  /\ \A l : ~Holds(th, l)'
         /\ \A u \in Threads \ {th} : \A l : Holds(u, l)' <=> Holds(u, l)
BY DEF LocksTypeOK, Holds

LEMMA AcquireHolds ==
  ASSUME LocksTypeOK, NEW th \in Threads, Acquire(th)
  PROVE  /\ \A l : Holds(th, l)' <=> Holds(th, l) \/ l = Wants(th)
         /\ \A u \in Threads \ {th} : \A l : Holds(u, l)' <=> Holds(u, l)
<1>1. Wants(th) \in Locks
  BY WantsFacts DEF Acquire, Granted
<1>2. held[th] \in Seq(Locks) /\ held' = [held EXCEPT ![th] = Append(held[th], Wants(th))]
  BY DEF Acquire, LocksTypeOK
<1>3. held'[th] = Append(held[th], Wants(th))
  BY <1>2 DEF LocksTypeOK
<1>4. DOMAIN held'[th] = DOMAIN held[th] \cup {Len(held[th]) + 1}
  BY <1>1, <1>2, <1>3
<1>5. held'[th][Len(held[th]) + 1] = Wants(th)
  BY <1>1, <1>2, <1>3
<1>6. \A i \in DOMAIN held[th] : held'[th][i] = held[th][i]
  BY <1>1, <1>2, <1>3
<1>7. \A l : Holds(th, l)' <=> Holds(th, l) \/ l = Wants(th)
  BY <1>4, <1>5, <1>6 DEF Holds
<1>8. \A u \in Threads \ {th} : held'[u] = held[u]
  BY <1>2 DEF LocksTypeOK
<1> QED  BY <1>7, <1>8 DEF Holds

(* Nobody else holds what is granted in a way that excludes it.            *)
LEMMA GrantedFree ==
  ASSUME LocksTypeOK, NEW th \in Threads, Granted(th), NEW u \in Threads
  PROVE  /\ ~Holds(u, Write(Wants(th).on))
         /\ Wants(th).mode = "write" => ~Holds(u, Read(Wants(th).on))
BY DEF Granted, Blockers

LEMMA AcquireKeeps ==
  ASSUME Disciplined, NEW th \in Threads, Acquire(th)
  PROVE  Exclusive' /\ Avoided'
<1> USE DEF Disciplined
<1>1. Wants(th) \in Locks /\ Wants(th).on \notin poisoned /\ UNCHANGED <<poisoned, torn>> /\ Granted(th)
  BY WantsFacts DEF Acquire, Granted
<1>2. Exclusive'
  <2> SUFFICES ASSUME NEW v \in Threads, NEW u \in Threads, NEW s \in Storages,
                      v # u, Holds(v, Write(s))'
               PROVE  ~Holds(u, Read(s))' /\ ~Holds(u, Write(s))'
    BY DEF Exclusive
  <2>1. CASE v = th
    <3>1. ~Holds(u, Read(s)) /\ ~Holds(u, Write(s))
      <4>1. CASE Holds(th, Write(s))
        BY <2>1, <4>1 DEF Exclusive
      <4>2. CASE Write(s) = Wants(th)
        <5>1. Wants(th).on = s /\ Wants(th).mode = "write"
          BY <4>2 DEF Write, Tensor!Write, Tensor!Lock
        <5> QED  BY <5>1, <1>1, GrantedFree
      <4> QED  BY <2>1, <4>1, <4>2, AcquireHolds
    <3> QED  BY <2>1, <3>1, AcquireHolds
  <2>2. CASE u = th
    <3>1. Holds(v, Write(s))
      BY <2>2, AcquireHolds
    <3>2. ~Holds(th, Read(s)) /\ ~Holds(th, Write(s))
      BY <2>2, <3>1 DEF Exclusive
    <3>3. Wants(th).on # s
      BY <3>1, <1>1, GrantedFree
    <3>4. Read(s) # Wants(th) /\ Write(s) # Wants(th)
      BY <3>3 DEF Read, Write, Tensor!Read, Tensor!Write, Tensor!Lock
    <3> QED  BY <2>2, <3>2, <3>4, AcquireHolds
  <2>3. CASE v # th /\ u # th
    BY <2>3, AcquireHolds DEF Exclusive
  <2> QED  BY <2>1, <2>2, <2>3
<1>3. Avoided'
  <2>1. \A s \in poisoned : Read(s) # Wants(th) /\ Write(s) # Wants(th)
    BY <1>1 DEF Read, Write, Tensor!Read, Tensor!Write, Tensor!Lock
  <2>2. \A u \in Threads, s \in poisoned : ~Holds(u, Read(s))' /\ ~Holds(u, Write(s))'
    BY <2>1, AcquireHolds DEF Avoided
  <2> QED  BY <1>1, <2>2 DEF Avoided
<1> QED  BY <1>2, <1>3

LEMMA DropKeeps ==
  ASSUME Disciplined, NEW th \in Threads, held' = [held EXCEPT ![th] = <<>>]
  PROVE  Exclusive' /\ (UNCHANGED <<poisoned, torn>> => Avoided')
<1> USE DEF Disciplined
<1>1. Exclusive'
  BY ReleaseHolds DEF Exclusive
<1>2. UNCHANGED <<poisoned, torn>> => Avoided'
  BY ReleaseHolds DEF Avoided
<1> QED  BY <1>1, <1>2

LEMMA PanicKeeps ==
  ASSUME Disciplined, NEW th \in Threads, Panic(th)
  PROVE  Avoided'
<1> USE DEF Disciplined
<1>1. held' = [held EXCEPT ![th] = <<>>]
  BY DEF Panic, Release
<1>2. torn' \subseteq poisoned'
  BY DEF Panic, Avoided
<1>3. ASSUME NEW u \in Threads, NEW s \in poisoned' PROVE ~Holds(u, Read(s))' /\ ~Holds(u, Write(s))'
  <2>1. CASE u = th
    BY <1>1, <2>1, ReleaseHolds
  <2>2. CASE u # th
    <3>1. ~Holds(u, Read(s)) /\ ~Holds(u, Write(s))
      BY <1>3, <2>2 DEF Panic, Outputs, Avoided, Exclusive
    <3> QED  BY <1>1, <2>2, <3>1, ReleaseHolds
  <2> QED  BY <2>1, <2>2
<1> QED  BY <1>2, <1>3 DEF Avoided

LEMMA NextDisciplined == Disciplined /\ [LocksNext]_lock_vars => Disciplined'
<1> SUFFICES ASSUME Disciplined, [LocksNext]_lock_vars PROVE Exclusive' /\ Avoided'
  BY TypesKept DEF Disciplined
<1>1. ASSUME held' = held, UNCHANGED <<poisoned, torn>> PROVE Exclusive' /\ Avoided'
  <2>1. \A u, l : Holds(u, l)' <=> Holds(u, l)
    BY <1>1 DEF Holds
  <2> QED  BY <1>1, <2>1 DEF Disciplined, Exclusive, Avoided
<1>2. ASSUME NEW th \in Threads, NEW o \in Ops, Start(th, o) PROVE Exclusive' /\ Avoided'
  BY <1>1, <1>2 DEF Start
<1>3. ASSUME NEW th \in Threads, Park(th) PROVE Exclusive' /\ Avoided'
  BY <1>1, <1>3 DEF Park
<1>4. ASSUME NEW th \in Threads, DropGuards(th) PROVE Exclusive' /\ Avoided'
  BY <1>4, DropKeeps DEF DropGuards
<1>5. ASSUME NEW th \in Threads, Refused(th) \/ LetGo(th) PROVE Exclusive' /\ Avoided'
  BY <1>5, DropKeeps DEF Refused, LetGo, Release
<1>6. ASSUME NEW th \in Threads, Panic(th) PROVE Exclusive' /\ Avoided'
  BY <1>6, DropKeeps, PanicKeeps DEF Panic, Release
<1>7. CASE UNCHANGED lock_vars
  BY <1>1, <1>7 DEF lock_vars
<1> QED  BY <1>2, <1>3, <1>4, <1>5, <1>6, <1>7, AcquireKeeps DEF LocksNext, Step

(* Guards exclude each other, and nothing poisoned is held.                *)
THEOREM GuardsExclude == LocksSpec => []Disciplined
<1>1. LocksInit => Disciplined
  BY Initially
<1> QED  BY <1>1, NextDisciplined, PTL DEF LocksSpec

(* What a panic left half written (inplace_ops.rs: a kernel writes through *)
(* the guard its operation holds) is no operand of a kernel that runs      *)
(* after it, whatever threads do to whatever storages.                     *)
THEOREM TornIsAvoided == LocksSpec => []HalfWrittenNotUsed
<1>1. Disciplined => HalfWrittenNotUsed
  BY DEF Disciplined, LocksTypeOK, Avoided, HalfWrittenNotUsed
<1> QED  BY <1>1, GuardsExclude, PTL

-----------------------------------------------------------------------------
(* Waiting                                                                 *)

LEMMA TailDescends ==
  ASSUME NEW p \in Seq(Steps), p # <<>>, Descends(p)
  PROVE  Descends(Tail(p))
<1>1. \A i \in DOMAIN Tail(p) : i + 1 \in DOMAIN p /\ Tail(p)[i] = p[i + 1] /\ i \in Nat
  OBVIOUS
<1> SUFFICES ASSUME NEW i \in DOMAIN Tail(p), NEW j \in DOMAIN Tail(p), Together(Tail(p), i, j)
             PROVE  Tail(p)[j].on < Tail(p)[i].on
  BY DEF Descends
<1>2. i < j /\ \A n \in i .. j : Tail(p)[n] # Drop
  BY DEF Together
<1>3. ASSUME NEW n \in i + 1 .. j + 1 PROVE p[n] # Drop
  <2>1. n - 1 \in i .. j /\ n - 1 \in DOMAIN Tail(p) /\ n - 1 + 1 = n
    BY <1>1
  <2> QED  BY <2>1, <1>1, <1>2
<1>4. Together(p, i + 1, j + 1)
  BY <1>1, <1>2, <1>3 DEF Together
<1> QED  BY <1>1, <1>4 DEF Descends

LEMMA TailAbove ==
  ASSUME NEW p \in Seq(Steps), p # <<>>, Head(p) # Drop, Descends(p),
         NEW g \in Seq(Locks), Above(g, p)
  PROVE  Above(Append(g, Head(p)), Tail(p))
<1> DEFINE h == Append(g, Head(p))
<1>1. \A i \in DOMAIN Tail(p) : i + 1 \in DOMAIN p /\ Tail(p)[i] = p[i + 1] /\ i \in Nat \ {0}
  OBVIOUS
<1>2. \A i \in DOMAIN h : (i \in DOMAIN g /\ h[i] = g[i]) \/ h[i] = Head(p)
  OBVIOUS
<1>3. p[1] = Head(p) /\ 1 \in DOMAIN p
  OBVIOUS
<1> HIDE DEF h
<1> SUFFICES ASSUME NEW i \in DOMAIN h, NEW j \in DOMAIN Tail(p), \A n \in 1 .. j : Tail(p)[n] # Drop
             PROVE  Tail(p)[j].on < h[i].on
  BY DEF Above, h
<1>4. ASSUME NEW n \in 1 .. j + 1 PROVE p[n] # Drop
  <2>1. CASE n = 1
    BY <2>1, <1>3
  <2>2. CASE n # 1
    <3>1. n - 1 \in 1 .. j /\ n - 1 \in DOMAIN Tail(p) /\ n - 1 + 1 = n
      BY <1>1, <2>2
    <3> QED  BY <3>1, <1>1
  <2> QED  BY <2>1, <2>2
<1>5. j + 1 \in DOMAIN p /\ Tail(p)[j] = p[j + 1] /\ 1 < j + 1
  BY <1>1
<1>6. p[j + 1].on < p[1].on
  <2>1. Together(p, 1, j + 1)
    BY <1>4, <1>5 DEF Together
  <2> QED  BY <2>1, <1>3, <1>5 DEF Descends
<1>7. i \in DOMAIN g /\ h[i] = g[i] => p[j + 1].on < g[i].on
  BY <1>4, <1>5 DEF Above
<1> QED  BY <1>2, <1>3, <1>5, <1>6, <1>7

LEMMA InOrderInitially == LocksInit => Ordered
BY DEF LocksInit, Ordered, Descends, Above

LEMMA NextInOrder ==
  ASSUME LocksTypeOK, Ordered, [LocksNext]_lock_vars
  PROVE  Ordered'
<1> DEFINE Fine(th) == Descends(todo[th]) /\ Above(held[th], todo[th])
<1>1. \A th \in Threads \ unordered : Fine(th)
  BY DEF Ordered
<1>2. ASSUME NEW th \in Threads,
             \A u \in Threads \ {th} : /\ todo'[u] = todo[u] /\ held'[u] = held[u]
                                       /\ u \in unordered => u \in unordered',
             th \notin unordered' => Descends(todo'[th]) /\ Above(held'[th], todo'[th])
      PROVE  Ordered'
  <2>1. ASSUME NEW u \in Threads \ {th}, u \notin unordered'
        PROVE  Descends(todo'[u]) /\ Above(held'[u], todo'[u])
    <3>1. u \notin unordered /\ todo'[u] = todo[u] /\ held'[u] = held[u]
      BY <1>2, <2>1
    <3> QED  BY <1>1, <3>1
  <2> QED  BY <1>2, <2>1 DEF Ordered
<1>3. Descends(<<>>) /\ \A p : Above(<<>>, p)
  BY DEF Descends, Above
<1>4. ASSUME NEW th \in Threads, NEW o \in Ops, Start(th, o) PROVE Ordered'
  <2>1. held'[th] = <<>> /\ todo'[th] = o /\ (th \notin unordered' => Descends(o))
    BY <1>4 DEF Start, Idle, LocksTypeOK
  <2>2. \A u \in Threads \ {th} : /\ todo'[u] = todo[u] /\ held'[u] = held[u]
                                  /\ u \in unordered => u \in unordered'
    BY <1>4 DEF Start, LocksTypeOK
  <2> QED  BY <1>2, <1>3, <2>1, <2>2
<1>5. ASSUME NEW th \in Threads, DropGuards(th) PROVE Ordered'
  <2>1. todo[th] \in Seq(Steps) /\ todo[th] # <<>> /\ held'[th] = <<>> /\ todo'[th] = Tail(todo[th])
    BY <1>5 DEF DropGuards, LocksTypeOK
  <2>2. /\ \A u \in Threads \ {th} : /\ todo'[u] = todo[u] /\ held'[u] = held[u]
                                     /\ u \in unordered => u \in unordered'
    BY <1>5 DEF DropGuards, LocksTypeOK
  <2>3. th \notin unordered' => th \notin unordered \/ Len(todo[th]) = 1
    BY <1>5 DEF DropGuards
  <2>4. Len(todo[th]) = 1 => Descends(todo'[th])
    <3>1. Len(todo[th]) = 1 => todo'[th] \in Seq(Steps) /\ Len(todo'[th]) = 0
      BY <2>1
    <3> QED  BY <1>3, <3>1
  <2>5. th \notin unordered => Descends(todo'[th])
    BY <1>1, <2>1, TailDescends
  <2>6. Above(held'[th], todo'[th])
    BY <1>3, <2>1
  <2> QED  BY <1>2, <2>2, <2>3, <2>4, <2>5, <2>6
<1>6. ASSUME NEW th \in Threads, Acquire(th) PROVE Ordered'
  <2>1. /\ todo[th] \in Seq(Steps) /\ todo[th] # <<>> /\ Head(todo[th]) # Drop
        /\ held[th] \in Seq(Locks) /\ held'[th] = Append(held[th], Head(todo[th]))
        /\ todo'[th] = Tail(todo[th])
    BY <1>6 DEF Acquire, Granted, Asking, Wants, LocksTypeOK
  <2>2. /\ \A u \in Threads \ {th} : todo'[u] = todo[u] /\ held'[u] = held[u]
        /\ unordered' = unordered
    BY <1>6 DEF Acquire, LocksTypeOK
  <2>3. th \notin unordered => Above(held'[th], todo'[th])
    BY <1>1, <2>1, TailAbove
  <2>4. th \notin unordered => Descends(todo'[th])
    BY <1>1, <2>1, TailDescends
  <2> QED  BY <1>2, <2>2, <2>3, <2>4
<1>7. ASSUME NEW th \in Threads, Release(th) PROVE Ordered'
  <2>1. held'[th] = <<>> /\ todo'[th] = <<>>
    BY <1>7 DEF Release, LocksTypeOK
  <2>2. \A u \in Threads \ {th} : /\ todo'[u] = todo[u] /\ held'[u] = held[u]
                                  /\ u \in unordered => u \in unordered'
    BY <1>7 DEF Release, LocksTypeOK
  <2> QED  BY <1>2, <1>3, <2>1, <2>2
<1>8. ASSUME UNCHANGED <<todo, held, unordered>> PROVE Ordered'
  BY <1>8 DEF Ordered
<1> QED  BY <1>4, <1>5, <1>6, <1>7, <1>8 DEF LocksNext, Step, Park, Refused, LetGo, Panic, lock_vars

(* Some thread of any group waits for the lowest storage of those that     *)
(* threads of the group wait for.                                          *)
LEMMA LowestWait ==
  ASSUME Storages \subseteq Nat, NEW S \in SUBSET Threads, S # {},
         \A th \in S : Wants(th).on \in Storages
  PROVE  \E th \in S : \A u \in S : ~(Wants(u).on < Wants(th).on)
<1> DEFINE N == {Wants(th).on : th \in S}
<1>1. N \subseteq Nat /\ N # {}
  OBVIOUS
<1>2. PICK x \in N : \A y \in N : <<y, x>> \notin OpToRel(<, Nat)
  BY <1>1, WFMin, NatLessThanWellFounded
<1>3. \A y \in N : ~(y < x)
  BY <1>1, <1>2 DEF OpToRel
<1> QED  BY <1>3

LEMMA NoCircle ==
  ASSUME Storages \subseteq Nat, LocksTypeOK, Phases, Ordered
  PROVE  CirclesCrossOrder
<1> SUFFICES ASSUME NEW S \in SUBSET parked, S # {}, S \cap unordered = {},
                    \A th \in S : Blockers(th) \cap S # {}
             PROVE  FALSE
  BY DEF CirclesCrossOrder, Circle
<1>1. \A th \in S : th \in Threads /\ Asking(th) /\ Wants(th) \in Locks
  BY WantsFacts DEF LocksTypeOK, Phases
<1>2. \A th \in S : Wants(th).on \in Storages /\ Wants(th).on \in Nat
  BY <1>1 DEF Locks
(* Who holds a storage waits for a lower one.                              *)
<1>3. ASSUME NEW u \in S, NEW l, Holds(u, l) PROVE Wants(u).on < l.on
  <2>1. PICK i \in DOMAIN held[u] : held[u][i] = l
    BY <1>3 DEF Holds
  <2>2. todo[u] # <<>> /\ todo[u] \in Seq(Steps) /\ Head(todo[u]) # Drop
    BY <1>1 DEF Asking, Wants, LocksTypeOK
  <2>3. 1 \in DOMAIN todo[u] /\ todo[u][1] = Head(todo[u]) /\ \A n \in 1 .. 1 : n = 1
    BY <2>2
  <2>4. Above(held[u], todo[u])
    BY <1>1 DEF Ordered
  <2> QED  BY <2>1, <2>2, <2>3, <2>4 DEF Above, Wants
<1>4. PICK th \in S : \A u \in S : ~(Wants(u).on < Wants(th).on)
  BY <1>1, <1>2, LowestWait
<1>5. PICK u \in S : u \in Blockers(th)
  OBVIOUS
<1> DEFINE s == Wants(th).on
<1>6. Wants(u) = Write(s)
  <2>1. ~Holds(u, Write(s)) /\ ~Holds(u, Read(s))
    BY <1>3, <1>4 DEF Read, Write, Tensor!Read, Tensor!Write, Tensor!Lock
  <2> QED  BY <1>5, <2>1 DEF Blockers
<1>7. PICK v \in S : v \in Blockers(u)
  OBVIOUS
<1>8. Wants(u).on = s /\ Wants(u).mode = "write"
  BY <1>6 DEF Write, Tensor!Write, Tensor!Lock
<1>9. Holds(v, Write(s)) \/ Holds(v, Read(s))
  BY <1>7, <1>8 DEF Blockers
<1> QED  BY <1>3, <1>4, <1>9 DEF Read, Write, Tensor!Read, Tensor!Write, Tensor!Lock

(* Threads that wait for each other in a circle, or for themselves, are    *)
(* there because of an operation that takes a lock not below all those it  *)
(* holds then (inplace_ops.rs:135-136: the target, then the other operand, *)
(* in the caller's order). Operations that take their locks from the       *)
(* highest storage down are never in a circle of their own, whatever the   *)
(* rest do, though a reader also waits behind a parked writer.             *)
THEOREM NobodyWaitsInACircle == LocksSpec => []CirclesCrossOrder
<1>1. LocksInit => Disciplined /\ Ordered
  BY Initially, InOrderInitially
<1>2. Disciplined /\ Ordered /\ [LocksNext]_lock_vars => Ordered'
  BY NextInOrder DEF Disciplined
<1>3. Disciplined /\ Ordered => CirclesCrossOrder
  BY NoCircle, LocksAssumption DEF Disciplined
<1> QED  BY <1>1, <1>2, <1>3, NextDisciplined, PTL DEF LocksSpec

-----------------------------------------------------------------------------
(* A set of numbers with 0 and, with each of them, the next one is all of  *)
(* Nat. (The library states induction for predicates, which no prover here *)
(* can instantiate; its theorem on minimal elements is about sets.)        *)
LEMMA Induction ==
  ASSUME NEW S, 0 \in S, \A n \in Nat : n \in S => n + 1 \in S
  PROVE  Nat \subseteq S
<1> SUFFICES ASSUME Nat \ S # {} PROVE FALSE
  OBVIOUS
<1>1. PICK x \in Nat \ S : \A y \in Nat \ S : <<y, x>> \notin OpToRel(<, Nat)
  <2>1. Nat \ S \subseteq Nat
    OBVIOUS
  <2> QED  BY <2>1, WFMin, NatLessThanWellFounded
<1>2. x # 0 /\ x - 1 \in Nat /\ x - 1 + 1 = x
  OBVIOUS
<1>3. x - 1 \in Nat \ S
  BY <1>2
<1>4. <<x - 1, x>> \in OpToRel(<, Nat)
  <2>1. x - 1 < x
    BY <1>2
  <2> QED  BY <1>2, <2>1 DEF OpToRel
<1> QED  BY <1>1, <1>3, <1>4

-----------------------------------------------------------------------------
(* Pieces of kernels                                                       *)

Apart(stage) ==
  \A i, j \in DOMAIN stage : i # j => Places(stage[i]) \cap Places(stage[j]) = {}

(* Writes only from a on, and n places at most.                            *)
Within(piece, a, n) == \A p \in piece : p[1] \in Int /\ a <= p[1] /\ p[1] < a + n

LEMMA ApartWithin ==
  ASSUME NEW stage, NEW base \in Int, NEW size \in Nat, DOMAIN stage \subseteq Int,
         \A i \in DOMAIN stage : Within(stage[i], base + (i - 1) * size, size)
  PROVE  Apart(stage)
<1> SUFFICES \A i, j \in DOMAIN stage : i < j =>
               \A p \in stage[i], q \in stage[j] : p[1] # q[1]
  BY DEF Apart, Places
<1> SUFFICES ASSUME NEW i \in DOMAIN stage, NEW j \in DOMAIN stage, i < j,
                    NEW p \in stage[i], NEW q \in stage[j], p[1] = q[1]
             PROVE  FALSE
  OBVIOUS
<1>1. i \in Int /\ j \in Int /\ i <= j - 1
  OBVIOUS
<1>2. p[1] \in Int /\ p[1] < base + (i - 1) * size + size /\ base + (j - 1) * size <= p[1]
  BY DEF Within
<1>3. i * size <= (j - 1) * size
  BY <1>1, SMTT(20)
<1>4. (i - 1) * size + size = i * size
  BY <1>1
<1> QED  BY <1>1, <1>2, <1>3, <1>4

(* A stage is a sequence of pieces that write apart.                       *)
List(f, m) == f = [c \in 1 .. m |-> f[c]]
SafeStage(stage) == (\E T : stage \in Seq(T)) /\ Apart(stage)
SafeStages(ss) == \E U : ss \in Seq(U) /\ \A u \in U : SafeStage(u)

LEMMA ListOver ==
  ASSUME NEW m \in Int, NEW f, List(f, m), NEW T, \A c \in 1 .. m : f[c] \in T
  PROVE  f \in Seq(T) /\ DOMAIN f = 1 .. m
<1>1. PICK n \in Nat : 1 .. m = 1 .. n
  <2>1. CASE m < 0
    BY <2>1, 1 .. m = 1 .. 0
  <2>2. CASE m >= 0
    BY <2>2
  <2> QED  BY <2>1, <2>2
<1>2. f \in [1 .. m -> T]
  BY DEF List
<1>3. f \in [1 .. n -> T]
  BY <1>1, <1>2
<1> QED  BY <1>2, <1>3

(* Each of m pieces stays in its own chunk of size places, from base on.   *)
Chunked(stage, m, base, size) ==
  List(stage, m) /\ \A c \in 1 .. m : Within(stage[c], base + (c - 1) * size, size)

LEMMA ChunksSafe ==
  ASSUME NEW stage, NEW m \in Int, NEW base \in Int, NEW size \in Nat,
         Chunked(stage, m, base, size)
  PROVE  SafeStage(stage)
<1>1. (\E T : stage \in Seq(T)) /\ DOMAIN stage = 1 .. m
  <2> DEFINE T == {stage[c] : c \in 1 .. m}
  <2>1. \A c \in 1 .. m : stage[c] \in T
    OBVIOUS
  <2> HIDE DEF T
  <2> QED  BY <2>1, ListOver DEF Chunked
<1>2. Apart(stage)
  <2>1. DOMAIN stage \subseteq Int
    BY <1>1
  <2>2. \A i \in DOMAIN stage : Within(stage[i], base + (i - 1) * size, size)
    BY <1>1 DEF Chunked
  <2> QED  BY <2>1, <2>2, ApartWithin
<1> QED  BY <1>1, <1>2 DEF SafeStage

LEMMA OnePieceSafe == ASSUME NEW piece PROVE SafeStage(<<piece>>)
<1>1. <<piece>> \in Seq({piece}) /\ DOMAIN <<piece>> = {1}
  OBVIOUS
<1> QED  BY <1>1 DEF SafeStage, Apart

LEMMA ManyStagesSafe ==
  ASSUME NEW m \in Int, NEW ss, List(ss, m), \A s \in 1 .. m : SafeStage(ss[s])
  PROVE  SafeStages(ss)
<1> DEFINE U == {ss[s] : s \in 1 .. m}
<1>1. \A u \in U : SafeStage(u)
  OBVIOUS
<1>2. ss \in Seq(U)
  BY ListOver
<1> QED  BY <1>1, <1>2 DEF SafeStages

LEMMA OneStageSafe == ASSUME NEW stage, SafeStage(stage) PROVE SafeStages(<<stage>>)
<1>1. List(<<stage>>, 1) /\ \A s \in 1 .. 1 : <<stage>>[s] = stage
  BY DEF List
<1> QED  BY <1>1, ManyStagesSafe

LEMMA TwoStagesSafe ==
  ASSUME NEW s1, NEW s2, SafeStage(s1), SafeStage(s2)
  PROVE  SafeStages(<<s1, s2>>)
<1>1. List(<<s1, s2>>, 2) /\ <<s1, s2>>[1] = s1 /\ <<s1, s2>>[2] = s2
  BY DEF List
<1>2. \A s \in 1 .. 2 : SafeStage(<<s1, s2>>[s])
  BY <1>1
<1> QED  BY <1>1, <1>2, ManyStagesSafe

LEMMA ConcatSafe ==
  ASSUME NEW s1, NEW s2, SafeStages(s1), SafeStages(s2)
  PROVE  SafeStages(s1 \o s2)
<1>1. PICK U : s1 \in Seq(U) /\ \A u \in U : SafeStage(u)
  BY DEF SafeStages
<1>2. PICK V : s2 \in Seq(V) /\ \A u \in V : SafeStage(u)
  BY DEF SafeStages
<1>3. s1 \in Seq(U \cup V) /\ s2 \in Seq(U \cup V)
  BY <1>1, <1>2
<1>4. s1 \o s2 \in Seq(U \cup V)
  BY <1>3
<1> QED  BY <1>1, <1>2, <1>4 DEF SafeStages

LEMMA RemoveSafe ==
  ASSUME NEW stage, SafeStage(stage), NEW i \in DOMAIN stage
  PROVE  SafeStage(RemoveAt(stage, i))
<1> DEFINE rest == RemoveAt(stage, i)
<1>1. PICK T : stage \in Seq(T)
  BY DEF SafeStage
<1>2. i \in 1 .. Len(stage) /\ Len(stage) \in Nat /\ DOMAIN stage = 1 .. Len(stage)
  BY <1>1
<1> DEFINE before == SubSeq(stage, 1, i - 1)
           after == SubSeq(stage, i + 1, Len(stage))
<1>3. /\ before \in Seq(T) /\ Len(before) = i - 1
      /\ \A k \in 1 .. i - 1 : before[k] = stage[k]
  <2>1. \A k \in 1 .. i - 1 : stage[k] \in T
    BY <1>1, <1>2
  <2>2. /\ before \in Seq(T) /\ Len(before) = IF 1 <= i - 1 THEN i - 1 - 1 + 1 ELSE 0
        /\ \A k \in 1 .. i - 1 - 1 + 1 : before[k] = stage[1 + k - 1]
    BY <1>2, <2>1, SubSeqProperties
  <2> HIDE DEF before
  <2> QED  BY <1>2, <2>2
<1>4. /\ after \in Seq(T) /\ Len(after) = Len(stage) - i
      /\ \A k \in 1 .. Len(stage) - i : after[k] = stage[i + k]
  <2>1. \A k \in i + 1 .. Len(stage) : stage[k] \in T
    BY <1>1, <1>2
  <2>2. /\ after \in Seq(T)
        /\ Len(after) = IF i + 1 <= Len(stage) THEN Len(stage) - (i + 1) + 1 ELSE 0
        /\ \A k \in 1 .. Len(stage) - (i + 1) + 1 : after[k] = stage[i + 1 + k - 1]
    BY <1>2, <2>1, SubSeqProperties
  <2> HIDE DEF after
  <2>3. Len(after) = Len(stage) - i
    BY <1>2, <2>2
  <2>4. ASSUME NEW k \in 1 .. Len(stage) - i PROVE after[k] = stage[i + k]
    <3>1. k \in 1 .. Len(stage) - (i + 1) + 1 /\ i + 1 + k - 1 = i + k
      BY <1>2
    <3> QED  BY <2>2, <3>1
  <2> QED  BY <2>2, <2>3, <2>4
<1>5. /\ rest \in Seq(T) /\ Len(rest) = Len(stage) - 1
      /\ \A k \in 1 .. Len(stage) - 1 : rest[k] = IF k < i THEN stage[k] ELSE stage[k + 1]
  <2>1. rest = before \o after
    BY DEF RemoveAt
  <2> HIDE DEF rest, before, after
  <2>2. /\ rest \in Seq(T) /\ Len(rest) = Len(before) + Len(after)
        /\ \A k \in 1 .. Len(before) + Len(after) :
             rest[k] = IF k <= Len(before) THEN before[k] ELSE after[k - Len(before)]
    BY <1>3, <1>4, <2>1, ConcatProperties
  <2>3. ASSUME NEW k \in 1 .. Len(stage) - 1
        PROVE  rest[k] = IF k < i THEN stage[k] ELSE stage[k + 1]
    <3>1. CASE k < i
      BY <1>2, <1>3, <1>4, <2>2, <3>1
    <3>2. CASE k >= i
      <4>1. /\ k - (i - 1) \in 1 .. Len(stage) - i /\ i + (k - (i - 1)) = k + 1
            /\ ~(k <= i - 1) /\ ~(k < i)
        BY <1>2, <3>2
      <4>2. /\ Len(before) = i - 1 /\ Len(after) = Len(stage) - i
            /\ k \in 1 .. Len(before) + Len(after) /\ ~(k <= Len(before))
        BY <1>2, <1>3, <1>4, <3>2
      <4>3. rest[k] = after[k - (i - 1)]
        BY <2>2, <4>2
      <4> QED  BY <1>4, <4>1, <4>3
    <3> QED  BY <1>2, <3>1, <3>2
  <2>4. Len(rest) = Len(stage) - 1
    BY <1>2, <1>3, <1>4, <2>2
  <2> QED  BY <2>2, <2>3, <2>4
<1> HIDE DEF rest
<1>6. ASSUME NEW k \in DOMAIN rest, NEW l \in DOMAIN rest, k # l
      PROVE  Places(rest[k]) \cap Places(rest[l]) = {}
  <2>1. k \in 1 .. Len(stage) - 1 /\ l \in 1 .. Len(stage) - 1
    BY <1>5
  <2> DEFINE back(x) == IF x < i THEN x ELSE x + 1
  <2>2. rest[k] = stage[back(k)] /\ rest[l] = stage[back(l)]
    BY <1>5, <2>1
  <2>3. back(k) \in DOMAIN stage /\ back(l) \in DOMAIN stage /\ back(k) # back(l)
    BY <1>2, <1>6, <2>1
  <2> HIDE DEF back
  <2> QED  BY <2>2, <2>3 DEF SafeStage, Apart
<1> QED  BY <1>5, <1>6 DEF SafeStage, Apart, rest

LEMMA RunPieceSafe ==
  ASSUME SafeStages(stages), NEW i, RunPiece(i)
  PROVE  SafeStages(stages')
<1>1. PICK U : stages \in Seq(U) /\ \A u \in U : SafeStage(u)
  BY DEF SafeStages
<1>2. stages # <<>> /\ i \in DOMAIN Head(stages)
  BY DEF RunPiece
<1>3. CASE stages' = Tail(stages)
  <2>1. Tail(stages) \in Seq(U)
    BY <1>1, <1>2
  <2> QED  BY <1>1, <1>3, <2>1 DEF SafeStages
<1>4. CASE stages' = [stages EXCEPT ![1] = RemoveAt(@, i)]
  <2> DEFINE rest == RemoveAt(stages[1], i)
  <2>1. 1 \in DOMAIN stages /\ stages[1] = Head(stages) /\ stages[1] \in U
    BY <1>1, <1>2
  <2>2. SafeStage(rest)
    BY <1>1, <1>2, <2>1, RemoveSafe
  <2> HIDE DEF rest
  <2>3. stages \in Seq(U \cup {rest})
    BY <1>1
  <2>4. stages' = [stages EXCEPT ![1] = rest]
    BY <1>4 DEF rest
  <2>5. stages' \in Seq(U \cup {rest})
    BY <2>1, <2>3, <2>4
  <2> QED  BY <1>1, <2>2, <2>5 DEF SafeStages
<1> QED  BY <1>3, <1>4 DEF RunPiece

KeptTrace(ss, n, f) ==
  f = [i \in 0 .. n |-> IF i = 0 THEN <<>>
                        ELSE IF ss[i] = <<>> THEN f[i - 1] ELSE Append(f[i - 1], ss[i])]

LEMMA KeptTraceExists ==
  ASSUME NEW ss, NEW n \in Nat
  PROVE  \E f : KeptTrace(ss, n, f)
<1> DEFINE S == {k \in Nat : \E f : KeptTrace(ss, k, f)}
<1>1. 0 \in S
  <2>1. KeptTrace(ss, 0, [i \in 0 .. 0 |-> <<>>])
    BY DEF KeptTrace
  <2> QED  BY <2>1
<1>2. ASSUME NEW k \in Nat, k \in S PROVE k + 1 \in S
  <2>1. PICK f : KeptTrace(ss, k, f)
    BY <1>2
  <2> DEFINE last == IF ss[k + 1] = <<>> THEN f[k] ELSE Append(f[k], ss[k + 1])
             g == [i \in 0 .. k + 1 |-> IF i = k + 1 THEN last ELSE f[i]]
  <2>2. \A i \in 0 .. k : f[i] = IF i = 0 THEN <<>>
                                 ELSE IF ss[i] = <<>> THEN f[i - 1] ELSE Append(f[i - 1], ss[i])
    BY <2>1 DEF KeptTrace
  <2>3. \A i \in 0 .. k + 1 : g[i] = IF i = 0 THEN <<>>
                                 ELSE IF ss[i] = <<>> THEN g[i - 1] ELSE Append(g[i - 1], ss[i])
    BY <2>2
  <2>4. KeptTrace(ss, k + 1, g)
    BY <2>3 DEF KeptTrace
  <2> QED  BY <2>4
<1> HIDE DEF S
<1>3. Nat \subseteq S
  BY <1>1, <1>2, Induction
<1> QED  BY <1>3 DEF S

LEMMA WithPiecesSafe ==
  ASSUME NEW ss, SafeStages(ss)
  PROVE  SafeStages(WithPieces(ss))
<1>1. PICK U : ss \in Seq(U) /\ \A u \in U : SafeStage(u)
  BY DEF SafeStages
<1> DEFINE n == Len(ss)
           F == CHOOSE f : KeptTrace(ss, n, f)
<1>2. n \in Nat /\ \A i \in 1 .. n : ss[i] \in U
  BY <1>1
<1>3. WithPieces(ss) = F[n]
  BY DEF WithPieces, KeptTrace
<1>4. KeptTrace(ss, n, F)
  BY <1>2, KeptTraceExists
<1> HIDE DEF n, F
<1>5. \A i \in 0 .. n : F[i] = IF i = 0 THEN <<>>
                               ELSE IF ss[i] = <<>> THEN F[i - 1] ELSE Append(F[i - 1], ss[i])
  BY <1>4 DEF KeptTrace
<1> DEFINE S == {k \in Nat : k <= n => F[k] \in Seq(U)}
<1>6. 0 \in S
  <2>1. 0 \in 0 .. n
    BY <1>2
  <2>2. F[0] = <<>>
    BY <1>5, <2>1
  <2>3. F[0] \in Seq(U)
    BY <2>2
  <2> QED  BY <2>3
<1>7. ASSUME NEW k \in Nat, k \in S PROVE k + 1 \in S
  <2> SUFFICES ASSUME k + 1 <= n PROVE F[k + 1] \in Seq(U)
    OBVIOUS
  <2>1. k + 1 \in 0 .. n /\ k + 1 # 0 /\ k + 1 - 1 = k /\ k + 1 \in 1 .. n /\ F[k] \in Seq(U)
    BY <1>2, <1>7
  <2>2. F[k + 1] = IF ss[k + 1] = <<>> THEN F[k] ELSE Append(F[k], ss[k + 1])
    BY <1>5, <2>1
  <2> QED  BY <1>2, <2>1, <2>2
<1> HIDE DEF S
<1>8. Nat \subseteq S
  BY <1>6, <1>7, Induction
<1>9. F[n] \in Seq(U)
  BY <1>2, <1>8 DEF S
<1> QED  BY <1>1, <1>3, <1>9 DEF SafeStages

LEMMA CallSafe ==
  ASSUME NEW n, NEW ss, NEW w, SafeStages(ss), Call(n, ss, w)
  PROVE  SafeStages(stages')
BY WithPiecesSafe DEF Call

(* Arithmetic of rows.                                                     *)
LEMMA RowBound ==
  ASSUME NEW a \in Int, NEW b \in Int, NEW A \in Int, NEW B \in Int,
         0 <= a, a < A, 0 <= b, b < B
  PROVE  a * B + b \in Int /\ 0 <= a * B + b /\ a * B + b < A * B
<1>1. a * B \in Int /\ 0 <= a * B
  BY SMTT(20)
<1>2. (a + 1) * B <= A * B
  BY SMTT(20)
<1>3. (a + 1) * B = a * B + B
  OBVIOUS
<1> QED  BY <1>1, <1>2, <1>3

LEMMA RowsDiffer ==
  ASSUME NEW a \in Int, NEW b \in Int, NEW c \in Int, NEW d \in Int, NEW B \in Int,
         0 <= b, b < B, 0 <= d, d < B, a * B + b = c * B + d
  PROVE  a = c /\ b = d
<1>1. ASSUME NEW x \in Int, NEW y \in Int, x < y, NEW u \in Int, NEW v \in Int,
             u < B, 0 <= v
      PROVE  x * B + u < y * B + v
  <2>1. (x + 1) * B <= y * B
    BY <1>1, SMTT(20)
  <2>2. (x + 1) * B = x * B + B /\ x * B \in Int /\ y * B \in Int
    BY <1>1
  <2> QED  BY <1>1, <2>1, <2>2
<1>2. ~(a < c) /\ ~(c < a)
  BY <1>1
<1>3. a = c
  BY <1>2
<1> QED  BY <1>3

LEMMA DivCeilType ==
  ASSUME NEW a \in Int, NEW b \in Nat \ {0}
  PROVE  DivCeil(a, b) \in Int
BY DEF DivCeil

LEMMA ProductPositive ==
  ASSUME NEW a \in Nat \ {0}, NEW b \in Nat \ {0}
  PROVE  a * b \in Nat \ {0}
BY SMTT(20)

-----------------------------------------------------------------------------
(* Numbers of elements                                                     *)

Sizes == Seq(Nat \ {0})

CountTrace(d, n, f) == f = [i \in 0 .. n |-> IF i = 0 THEN 1 ELSE f[i - 1] * d[i]]

LEMMA CountTraceExists ==
  ASSUME NEW d, NEW n \in Nat
  PROVE  \E f : CountTrace(d, n, f)
<1> DEFINE S == {k \in Nat : \E f : CountTrace(d, k, f)}
<1>1. 0 \in S
  <2>1. CountTrace(d, 0, [i \in 0 .. 0 |-> 1])
    BY DEF CountTrace
  <2> QED  BY <2>1
<1>2. ASSUME NEW k \in Nat, k \in S PROVE k + 1 \in S
  <2>1. PICK f : CountTrace(d, k, f)
    BY <1>2
  <2> DEFINE g == [i \in 0 .. k + 1 |-> IF i = k + 1 THEN f[k] * d[k + 1] ELSE f[i]]
  <2>2. \A i \in 0 .. k : f[i] = IF i = 0 THEN 1 ELSE f[i - 1] * d[i]
    BY <2>1 DEF CountTrace
  <2>3. \A i \in 0 .. k + 1 : g[i] = IF i = 0 THEN 1 ELSE g[i - 1] * d[i]
    BY <2>2
  <2>4. CountTrace(d, k + 1, g)
    BY <2>3 DEF CountTrace
  <2> QED  BY <2>4
<1> HIDE DEF S
<1>3. Nat \subseteq S
  BY <1>1, <1>2, Induction
<1> QED  BY <1>3 DEF S

LEMMA CountIsTrace ==
  ASSUME NEW d, Len(d) \in Nat
  PROVE  \E f : /\ elem_count(d) = f[Len(d)] /\ f[0] = 1
                /\ \A i \in 1 .. Len(d) : f[i] = f[i - 1] * d[i]
<1> DEFINE F == CHOOSE f : CountTrace(d, Len(d), f)
<1>1. CountTrace(d, Len(d), F)
  BY CountTraceExists
<1>2. elem_count(d) = F[Len(d)]
  BY DEF elem_count, CountTrace
<1> HIDE DEF F
<1>3. F[0] = 1 /\ \A i \in 1 .. Len(d) : F[i] = F[i - 1] * d[i]
  BY <1>1 DEF CountTrace
<1> QED  BY <1>2, <1>3

LEMMA CountEmpty == elem_count(<<>>) = 1
<1>1. Len(<<>>) = 0
  OBVIOUS
<1>2. PICK f : elem_count(<<>>) = f[Len(<<>>)] /\ f[0] = 1
  BY <1>1, CountIsTrace
<1> QED  BY <1>1, <1>2

LEMMA CountAppend ==
  ASSUME NEW T, NEW d \in Seq(T), NEW x \in T
  PROVE  elem_count(Append(d, x)) = elem_count(d) * x
<1> DEFINE n == Len(d)
           e == Append(d, x)
<1>1. /\ n \in Nat /\ n + 1 \in Nat
      /\ Len(e) = n + 1 /\ e[n + 1] = x /\ \A i \in 1 .. n : e[i] = d[i]
  OBVIOUS
<1>0. Len(d) \in Nat /\ Len(d) = n
  OBVIOUS
<1> HIDE DEF n, e
<1>2. PICK f : elem_count(d) = f[n] /\ f[0] = 1 /\ \A i \in 1 .. n : f[i] = f[i - 1] * d[i]
  <2>1. \E f : /\ elem_count(d) = f[Len(d)] /\ f[0] = 1
               /\ \A i \in 1 .. Len(d) : f[i] = f[i - 1] * d[i]
    BY <1>0, CountIsTrace
  <2> QED  BY <1>0, <2>1, Zenon
<1>3. PICK g : /\ elem_count(e) = g[n + 1] /\ g[0] = 1
               /\ \A i \in 1 .. n + 1 : g[i] = g[i - 1] * e[i]
  <2>1. Len(e) \in Nat /\ Len(e) = n + 1
    BY <1>1
  <2>2. \E g : /\ elem_count(e) = g[Len(e)] /\ g[0] = 1
               /\ \A i \in 1 .. Len(e) : g[i] = g[i - 1] * e[i]
    BY <2>1, CountIsTrace
  <2> QED  BY <2>1, <2>2, Zenon
<1>4. f[n] = g[n]
  <2> DEFINE S == {i \in Nat : i <= n => f[i] = g[i]}
  <2>1. 0 \in S
    BY <1>2, <1>3
  <2>2. ASSUME NEW i \in Nat, i \in S PROVE i + 1 \in S
    <3> SUFFICES ASSUME i + 1 <= n PROVE f[i + 1] = g[i + 1]
      OBVIOUS
    <3>1. i + 1 \in 1 .. n /\ i + 1 \in 1 .. n + 1 /\ i + 1 - 1 = i /\ f[i] = g[i]
      BY <1>1, <2>2
    <3> QED  BY <1>1, <1>2, <1>3, <3>1
  <2> HIDE DEF S
  <2>3. Nat \subseteq S
    BY <2>1, <2>2, Induction
  <2> QED  BY <1>1, <2>3 DEF S
<1>5. n + 1 \in 1 .. n + 1 /\ n + 1 - 1 = n
  BY <1>1
<1> QED  BY <1>1, <1>2, <1>3, <1>4, <1>5 DEF e

LEMMA CountType ==
  ASSUME NEW d \in Sizes
  PROVE  elem_count(d) \in Nat \ {0}
<1>1. Len(d) \in Nat /\ \A i \in 1 .. Len(d) : d[i] \in Nat \ {0}
  BY DEF Sizes
<1>2. PICK f : /\ elem_count(d) = f[Len(d)] /\ f[0] = 1
               /\ \A i \in 1 .. Len(d) : f[i] = f[i - 1] * d[i]
  BY <1>1, CountIsTrace
<1> DEFINE S == {i \in Nat : i <= Len(d) => f[i] \in Nat \ {0}}
<1>3. 0 \in S
  BY <1>2
<1>4. ASSUME NEW i \in Nat, i \in S PROVE i + 1 \in S
  <2> SUFFICES ASSUME i + 1 <= Len(d) PROVE f[i + 1] \in Nat \ {0}
    OBVIOUS
  <2>1. i + 1 \in 1 .. Len(d) /\ i + 1 - 1 = i /\ f[i] \in Nat \ {0}
    BY <1>1, <1>4
  <2>2. f[i + 1] = f[i] * d[i + 1] /\ d[i + 1] \in Nat \ {0}
    BY <1>1, <1>2, <2>1
  <2> QED  BY <2>1, <2>2, ProductPositive
<1> HIDE DEF S
<1>5. Nat \subseteq S
  BY <1>3, <1>4, Induction
<1> QED  BY <1>1, <1>2, <1>5 DEF S

LEMMA PartType ==
  ASSUME NEW d \in Sizes, NEW a \in Int, NEW b \in Int, 1 <= a, b <= Len(d)
  PROVE  SubSeq(d, a, b) \in Sizes
<1>1. \A i \in a .. b : d[i] \in Nat \ {0}
  BY DEF Sizes
<1> QED  BY <1>1, SubSeqProperties DEF Sizes

LEMMA CountSplit ==
  ASSUME NEW d \in Sizes, NEW a \in Nat \ {0}, NEW m \in Nat, NEW b \in Nat,
         a <= m + 1, m <= b, b <= Len(d)
  PROVE  elem_count(SubSeq(d, a, b))
           = elem_count(SubSeq(d, a, m)) * elem_count(SubSeq(d, m + 1, b))
<1> DEFINE c(x, y) == elem_count(SubSeq(d, x, y))
           S == {i \in Nat : m + i <= Len(d) => c(a, m + i) = c(a, m) * c(m + 1, m + i)}
<1>0. Len(d) \in Nat
  BY DEF Sizes
<1>1. \A x, y \in Int : 1 <= x /\ y <= Len(d) => c(x, y) \in Nat \ {0}
  BY PartType, CountType
<1>2. \A x \in Nat \ {0}, y \in Nat : x <= y + 1 /\ y + 1 <= Len(d) => c(x, y + 1) = c(x, y) * d[y + 1]
  <2> SUFFICES ASSUME NEW x \in Nat \ {0}, NEW y \in Nat, x <= y + 1, y + 1 <= Len(d)
               PROVE  c(x, y + 1) = c(x, y) * d[y + 1]
    OBVIOUS
  <2>1. x \in 1 .. Len(d) /\ y + 1 \in x .. Len(d) /\ y + 1 - 1 = y
    BY <1>0
  <2>2. SubSeq(d, x, y + 1) = SubSeq(d, x, y) \o <<d[y + 1]>>
    BY <2>1, SubSeqRecursiveSecond DEF Sizes
  <2>3. SubSeq(d, x, y) \in Seq(Nat \ {0}) /\ d[y + 1] \in Nat \ {0}
    BY <1>0, <2>1, PartType DEF Sizes
  <2>4. SubSeq(d, x, y) \o <<d[y + 1]>> = Append(SubSeq(d, x, y), d[y + 1])
    BY <2>3
  <2> QED  BY <2>2, <2>3, <2>4, CountAppend
<1>3. 0 \in S
  <2>1. SubSeq(d, m + 1, m + 0) = <<>>
    BY SubSeqEmpty
  <2>2. c(m + 1, m + 0) = 1
    BY <2>1, CountEmpty
  <2>3. c(a, m) \in Nat
    BY <1>0, <1>1
  <2> QED  BY <2>2, <2>3
<1>4. ASSUME NEW i \in Nat, i \in S PROVE i + 1 \in S
  <2> SUFFICES ASSUME m + (i + 1) <= Len(d)
               PROVE  c(a, m + (i + 1)) = c(a, m) * c(m + 1, m + (i + 1))
    OBVIOUS
  <2>0. /\ m + i <= Len(d) /\ m + i + 1 = m + (i + 1) /\ m + i \in Nat /\ m + i + 1 <= Len(d)
        /\ m + i + 1 \in 1 .. Len(d) /\ a <= m + i + 1 /\ m + 1 <= m + i + 1
        /\ m + 1 \in Nat \ {0}
    BY <1>0
  <2>1. c(a, m + i) = c(a, m) * c(m + 1, m + i)
    BY <1>4, <2>0
  <2> HIDE DEF c
  <2>2. /\ c(a, m + i + 1) = c(a, m + i) * d[m + i + 1]
        /\ c(m + 1, m + i + 1) = c(m + 1, m + i) * d[m + i + 1]
    BY <1>2, <2>0
  <2>3. c(a, m) \in Nat /\ c(m + 1, m + i) \in Nat /\ d[m + i + 1] \in Nat
    <3>1. d[m + i + 1] \in Nat
      BY <2>0 DEF Sizes
    <3>2. c(a, m) \in Nat \ {0} /\ c(m + 1, m + i) \in Nat \ {0}
      BY <1>0, <1>1, <2>0
    <3> QED  BY <3>1, <3>2
  <2> QED  BY <2>0, <2>1, <2>2, <2>3
<1> HIDE DEF S
<1>5. Nat \subseteq S
  BY <1>3, <1>4, Induction
<1>6. b - m \in S /\ m + (b - m) = b
  BY <1>5
<1> QED  BY <1>6 DEF S

LEMMA CountOne ==
  ASSUME NEW d \in Sizes, NEW a \in 1 .. Len(d)
  PROVE  elem_count(SubSeq(d, a, a)) = d[a]
<1>1. a \in Nat \ {0} /\ a - 1 \in Nat /\ a - 1 + 1 = a /\ Len(d) \in Nat /\ a <= Len(d)
  BY DEF Sizes
<1>2. SubSeq(d, a, a) = SubSeq(d, a, a - 1) \o <<d[a]>>
  BY <1>1, SubSeqRecursiveSecond DEF Sizes
<1>3. SubSeq(d, a, a - 1) = <<>>
  BY <1>1, SubSeqEmpty
<1>4. d[a] \in Nat \ {0} /\ <<>> \in Seq(Nat \ {0})
  BY DEF Sizes
<1>5. <<>> \o <<d[a]>> = Append(<<>>, d[a])
  BY <1>4
<1>6. elem_count(Append(<<>>, d[a])) = elem_count(<<>>) * d[a]
  BY <1>4, CountAppend
<1>7. SubSeq(d, a, a) = Append(<<>>, d[a])
  BY <1>2, <1>3, <1>5
<1>8. 1 * d[a] = d[a]
  BY <1>4
<1> QED  BY <1>6, <1>7, <1>8, CountEmpty, Zenon

-----------------------------------------------------------------------------
(* Kernels that move elements                                              *)

LEMMA Constants ==
  /\ Tile \in Nat \ {0} /\ PoolSize \in Nat \ {0}
  /\ \A d \in Shapes : d \in Sizes /\ d # <<>> /\ Len(d) \in Nat /\ DOMAIN d = 1 .. Len(d)
<1>1. \A d \in Shapes : d \in Seq(Nat \ {0}) /\ d # <<>>
  BY LayoutAssumption
<1> QED  BY <1>1, LayoutAssumption DEF Sizes

LEMMA TiledBelow ==
  ASSUME NEW n \in Nat, NEW x \in Tiled(n)
  PROVE  x \in Int /\ 0 <= x /\ x < n
<1>1. PICK t \in Below(DivCeil(n, Tile)) : x \in t * Tile .. Least((t + 1) * Tile, n) - 1
  BY DEF Tiled
<1>2. Tile \in Nat \ {0} /\ DivCeil(n, Tile) \in Int
  BY Constants, DivCeilType
<1>3. t \in Nat
  BY <1>1, <1>2 DEF Below
<1>4. t * Tile \in Nat /\ (t + 1) * Tile \in Nat
  BY <1>2, <1>3, SMTT(20)
<1>5. Least((t + 1) * Tile, n) \in Nat /\ Least((t + 1) * Tile, n) <= n
  BY <1>4 DEF Least
<1> QED  BY <1>1, <1>4, <1>5

(* The places of rows of rows of rows of rows.                             *)
Spot(a, b, c, x, B, C, D) == a * B * C * D + b * C * D + c * D + x

LEMMA FourRows ==
  ASSUME NEW a \in Int, NEW b \in Int, NEW c \in Int, NEW x \in Int,
         NEW A \in Nat, NEW B \in Nat, NEW C \in Nat, NEW D \in Nat,
         0 <= a, a < A, 0 <= b, b < B, 0 <= c, c < C, 0 <= x, x < D
  PROVE  /\ Spot(a, b, c, x, B, C, D) \in Int /\ 0 <= Spot(a, b, c, x, B, C, D)
         /\ Spot(a, b, c, x, B, C, D) < A * B * C * D
<1> DEFINE r == a * B + b
           s == r * C + c
<1>1. r \in Int /\ 0 <= r /\ r < A * B /\ A * B \in Int
  BY RowBound
<1> HIDE DEF r
<1>2. s \in Int /\ 0 <= s /\ s < A * B * C /\ A * B * C \in Int
  BY <1>1, RowBound
<1> HIDE DEF s
<1>3. s * D + x \in Int /\ 0 <= s * D + x /\ s * D + x < A * B * C * D
  BY <1>2, RowBound
<1>4. s * D + x = Spot(a, b, c, x, B, C, D)
  BY SMTT(20) DEF r, s, Spot
<1> QED  BY <1>3, <1>4

LEMMA Associates ==
  ASSUME NEW a \in Int, NEW b \in Int, NEW c \in Int
  PROVE  a * b \in Int /\ b * c \in Int /\ (a * b) * c = a * (b * c)
OBVIOUS

LEMMA TransposeBlockWithin ==
  ASSUME NEW d \in Sizes, NEW dim1 \in 1 .. Len(d), NEW dim2 \in 1 .. Len(d), dim1 < dim2,
         NEW i \in Nat, NEW size, size = elem_count(SubSeq(d, dim1, Len(d)))
  PROVE  size \in Nat \ {0} /\ Within(transpose_block(d, dim1, dim2, i), i * size, size)
<1> DEFINE d1 == d[dim1]
           d2 == d[dim2]
           d_j == elem_count(SubSeq(d, dim1 + 1, dim2 - 1))
           d_k == After(d, dim2)
           base == i * d1 * d_j * d2 * d_k
<1>0. /\ Len(d) \in Nat /\ dim1 \in Nat \ {0} /\ dim2 \in Nat \ {0} /\ dim1 + 1 \in Nat \ {0}
      /\ dim2 - 1 \in Nat /\ dim2 - 1 + 1 = dim2 /\ dim2 <= Len(d)
  BY DEF Sizes
<1>1. /\ d1 \in Nat \ {0} /\ d2 \in Nat \ {0} /\ d_j \in Nat \ {0} /\ d_k \in Nat \ {0}
      /\ size \in Nat \ {0}
  <2>1. d1 \in Nat \ {0} /\ d2 \in Nat \ {0}
    BY DEF Sizes
  <2>2. d_j \in Nat \ {0} /\ d_k \in Nat \ {0} /\ size \in Nat \ {0}
    BY <1>0, PartType, CountType DEF After
  <2> QED  BY <2>1, <2>2
<1>2. size = d1 * (d_j * (d2 * d_k))
  <2>1. size = elem_count(SubSeq(d, dim1, dim1)) * elem_count(SubSeq(d, dim1 + 1, Len(d)))
    BY <1>0, CountSplit
  <2>2. elem_count(SubSeq(d, dim1 + 1, Len(d))) = d_j * elem_count(SubSeq(d, dim2, Len(d)))
    BY <1>0, CountSplit
  <2>3. elem_count(SubSeq(d, dim2, Len(d))) = elem_count(SubSeq(d, dim2, dim2)) * d_k
    BY <1>0, CountSplit DEF After
  <2> QED  BY <2>1, <2>2, <2>3, CountOne
<1>3. ASSUME NEW p \in transpose_block(d, dim1, dim2, i)
      PROVE  \E a2, j, a1, x \in Int :
               /\ 0 <= a2 /\ a2 < d2 /\ 0 <= j /\ j < d_j
               /\ 0 <= a1 /\ a1 < d1 /\ 0 <= x /\ x < d_k
               /\ p[1] = base + Spot(a2, j, a1, x, d_j, d1, d_k)
  <2>1. CASE d_k = 1
    <3>1. \E j \in Below(d_j), a1 \in Tiled(d1), a2 \in Tiled(d2) :
            p[1] = base + a2 * d_j * d1 + j * d1 + a1
      BY <1>3, <2>1 DEF transpose_block
    <3>2. PICK j \in Below(d_j), a1 \in Tiled(d1), a2 \in Tiled(d2) :
            p[1] = base + a2 * d_j * d1 + j * d1 + a1
      BY <3>1
    <3> HIDE DEF d1, d2, d_j, d_k, base
    <3>3. /\ j \in Int /\ 0 <= j /\ j < d_j /\ a1 \in Int /\ 0 <= a1 /\ a1 < d1
          /\ a2 \in Int /\ 0 <= a2 /\ a2 < d2
      BY <1>1, <3>2, TiledBelow DEF Below
    <3>4. base \in Int
      BY <1>1 DEF base
    <3>5. p[1] = base + Spot(a2, j, a1, 0, d_j, d1, d_k)
      BY <1>1, <2>1, <3>2, <3>3, <3>4 DEF Spot
    <3> QED  BY <1>1, <2>1, <3>3, <3>5
  <2>2. CASE d_k # 1
    <3>1. \E a1 \in Below(d1), j \in Below(d_j), a2 \in Below(d2) :
            \E src : p \in Copy(base + a2 * d_j * d1 * d_k + j * d1 * d_k + a1 * d_k, src, d_k)
      BY <1>3, <2>2 DEF transpose_block
    <3> HIDE DEF d1, d2, d_j, d_k, base
    <3>2. PICK a1 \in Below(d1), j \in Below(d_j), a2 \in Below(d2) :
            \E src : p \in Copy(base + a2 * d_j * d1 * d_k + j * d1 * d_k + a1 * d_k, src, d_k)
      BY <3>1
    <3>3. PICK x \in Below(d_k) : p[1] = base + a2 * d_j * d1 * d_k + j * d1 * d_k + a1 * d_k + x
      BY <3>2 DEF Copy
    <3>4. /\ j \in Int /\ 0 <= j /\ j < d_j /\ a1 \in Int /\ 0 <= a1 /\ a1 < d1
          /\ a2 \in Int /\ 0 <= a2 /\ a2 < d2 /\ x \in Int /\ 0 <= x /\ x < d_k
      BY <1>1, <3>2, <3>3 DEF Below
    <3>5. base \in Int
      BY <1>1 DEF base
    <3>6. p[1] = base + Spot(a2, j, a1, x, d_j, d1, d_k)
      BY <1>1, <3>3, <3>4, <3>5 DEF Spot
    <3> QED  BY <3>4, <3>6
  <2> QED  BY <2>1, <2>2
<1>4. base = i * size /\ i * size \in Int
  <2>1. base = i * d1 * d_j * d2 * d_k
    OBVIOUS
  <2> HIDE DEF d1, d2, d_j, d_k, base
  <2> DEFINE x == d2 * d_k
             y == d_j * x
  <2>2. x \in Int /\ y \in Int /\ i \in Int
    <3>1. x \in Int
      BY <1>1, Associates
    <3> QED  BY <1>1, <3>1, Associates
  <2>3. size = d1 * y
    BY <1>2
  <2>4. (i * d1 * d_j * d2) * d_k = (i * d1 * d_j) * x
    <3>1. i * d1 * d_j \in Int
      <4>1. i * d1 \in Int
        BY <1>1, <2>2, Associates
      <4> QED  BY <1>1, <4>1, Associates
    <3> QED  BY <1>1, <3>1, Associates
  <2> HIDE DEF x
  <2>5. (i * d1 * d_j) * x = (i * d1) * y
    <3>1. i * d1 \in Int
      BY <1>1, <2>2, Associates
    <3> QED  BY <1>1, <2>2, <3>1, Associates
  <2> HIDE DEF y
  <2>6. (i * d1) * y = i * (d1 * y) /\ i * (d1 * y) \in Int
    <3>1. d1 * y \in Int
      BY <1>1, <2>2, Associates
    <3> QED  BY <1>1, <2>2, <3>1, Associates
  <2> QED  BY <2>1, <2>3, <2>4, <2>5, <2>6
<1> HIDE DEF d1, d2, d_j, d_k, base
<1>5. ASSUME NEW p \in transpose_block(d, dim1, dim2, i)
      PROVE  p[1] \in Int /\ i * size <= p[1] /\ p[1] < i * size + size
  <2>1. PICK a2, j, a1, x \in Int :
               /\ 0 <= a2 /\ a2 < d2 /\ 0 <= j /\ j < d_j
               /\ 0 <= a1 /\ a1 < d1 /\ 0 <= x /\ x < d_k
               /\ p[1] = base + Spot(a2, j, a1, x, d_j, d1, d_k)
    BY <1>3, <1>5
  <2> DEFINE q == Spot(a2, j, a1, x, d_j, d1, d_k)
  <2>2. q \in Int /\ 0 <= q /\ q < d2 * d_j * d1 * d_k
    BY <1>1, <2>1, FourRows
  <2>3. d2 * d_j * d1 * d_k = size
    BY <1>1, <1>2
  <2>4. p[1] = base + q
    BY <2>1
  <2> HIDE DEF q
  <2>5. q < size
    BY <2>2, <2>3
  <2> DEFINE first == i * size
  <2>6. first \in Int /\ p[1] = first + q
    BY <1>4, <2>4
  <2> HIDE DEF first
  <2>7. p[1] \in Int /\ first <= p[1] /\ p[1] < first + size
    BY <1>1, <2>2, <2>5, <2>6
  <2> QED  BY <2>7 DEF first
<1> QED  BY <1>1, <1>5 DEF Within

(* A call with one stage.                                                  *)
LEMMA StageSafe ==
  ASSUME NEW stage, SafeStage(stage), stages' = WithPieces(<<stage>>)
  PROVE  SafeStages(stages')
BY OneStageSafe, WithPiecesSafe

LEMMA PieceSafe ==
  ASSUME NEW piece, stages' = WithPieces(<< <<piece>> >>)
  PROVE  SafeStages(stages')
BY OnePieceSafe, StageSafe

LEMMA TransposeSafe ==
  ASSUME NEW d \in Shapes, NEW dim1 \in DOMAIN d, NEW dim2 \in DOMAIN d, transpose(d, dim1, dim2)
  PROVE  SafeStages(stages')
<1> DEFINE n == elem_count(d)
           lo == Least(dim1, dim2)
           hi == dim1 + dim2 - lo
           size == elem_count(SubSeq(d, lo, Len(d)))
           stage == [c \in 1 .. DivCeil(n, size) |-> transpose_block(d, lo, hi, c - 1)]
<1>0. d \in Sizes /\ Len(d) \in Nat /\ DOMAIN d = 1 .. Len(d)
  BY Constants
<1>1. CASE dim1 = dim2 \/ Cardinality({i \in DOMAIN d : d[i] # 1}) <= 1
  <2>1. stages' = WithPieces(<< <<Copy(0, 0, n)>> >>)
    BY <1>1 DEF transpose, Call
  <2> QED  BY <2>1, PieceSafe
<1>2. CASE ~(dim1 = dim2 \/ Cardinality({i \in DOMAIN d : d[i] # 1}) <= 1)
  <2>1. stages' = WithPieces(<<stage>>)
    BY <1>2 DEF transpose, Call, Chunks
  <2>2. lo \in 1 .. Len(d) /\ hi \in 1 .. Len(d) /\ lo < hi
    BY <1>0, <1>2 DEF Least
  <2> HIDE DEF lo, hi
  <2>3. size \in Nat \ {0} /\ \A i \in Nat : Within(transpose_block(d, lo, hi, i), i * size, size)
    BY <1>0, <2>2, TransposeBlockWithin
  <2>4. n \in Nat
    BY <1>0, CountType
  <2> DEFINE m == DivCeil(n, size)
  <2>5. m \in Int
    BY <2>3, <2>4, DivCeilType
  <2>6. List(stage, m)
    BY DEF List
  <2>7. \A c \in 1 .. m : stage[c] = transpose_block(d, lo, hi, c - 1)
    OBVIOUS
  <2> HIDE DEF stage, m, size, n
  <2>8. Chunked(stage, m, 0, size)
    <3>1. ASSUME NEW c \in 1 .. m PROVE Within(stage[c], 0 + (c - 1) * size, size)
      <4>1. c - 1 \in Nat /\ 0 + (c - 1) * size = (c - 1) * size
        BY <2>3, <2>5
      <4> QED  BY <2>3, <2>7, <4>1
    <3> QED  BY <2>6, <3>1 DEF Chunked
  <2>9. SafeStage(stage)
    BY <2>3, <2>5, <2>8, ChunksSafe
  <2> QED  BY <2>1, <2>9, StageSafe
<1> QED  BY <1>1, <1>2

LEMMA GatherWithin ==
  ASSUME NEW dst \in Int, NEW off, NEW rows \in Int, NEW d_b \in Nat, NEW s_a, NEW s_b
  PROVE  /\ Within(Gather(dst, off, rows, d_b, s_a, s_b), dst, rows * d_b)
         /\ Within(tiled_2d_gather(dst, off, rows, d_b, s_a, s_b), dst, rows * d_b)
<1>1. ASSUME NEW p, NEW a \in Below(rows), NEW b \in Int, 0 <= b, b < d_b, p[1] = dst + a * d_b + b
      PROVE  p[1] \in Int /\ dst <= p[1] /\ p[1] < dst + rows * d_b
  <2> DEFINE q == a * d_b + b
             n == rows * d_b
  <2>1. q \in Int /\ 0 <= q /\ q < n /\ n \in Int
    BY <1>1, RowBound DEF Below
  <2>2. p[1] = dst + q
    BY <1>1 DEF Below
  <2> HIDE DEF q, n
  <2>3. p[1] \in Int /\ dst <= p[1] /\ p[1] < dst + n
    BY <2>1, <2>2
  <2> QED  BY <2>3 DEF n
<1>2. ASSUME NEW p \in Gather(dst, off, rows, d_b, s_a, s_b)
      PROVE  p[1] \in Int /\ dst <= p[1] /\ p[1] < dst + rows * d_b
  <2>1. \E a \in Below(rows), b \in Below(d_b) : p[1] = dst + a * d_b + b
    BY <1>2 DEF Gather
  <2>2. PICK a \in Below(rows), b \in Below(d_b) : p[1] = dst + a * d_b + b
    BY <2>1
  <2>3. b \in Int /\ 0 <= b /\ b < d_b
    BY DEF Below
  <2> QED  BY <1>1, <2>2, <2>3
<1>3. ASSUME NEW p \in tiled_2d_gather(dst, off, rows, d_b, s_a, s_b)
      PROVE  p[1] \in Int /\ dst <= p[1] /\ p[1] < dst + rows * d_b
  <2>1. \E a \in Below(rows), b \in Tiled(d_b) : p[1] = dst + a * d_b + b
    BY <1>3 DEF tiled_2d_gather
  <2>2. PICK a \in Below(rows), b \in Tiled(d_b) : p[1] = dst + a * d_b + b
    BY <2>1
  <2>3. b \in Int /\ 0 <= b /\ b < d_b
    BY TiledBelow
  <2> QED  BY <1>1, <2>2, <2>3
<1> QED  BY <1>2, <1>3 DEF Within

LEMMA CopyWithin ==
  ASSUME NEW dst \in Int, NEW src, NEW n \in Nat
  PROVE  Within(Copy(dst, src, n), dst, n)
<1>1. ASSUME NEW p \in Copy(dst, src, n) PROVE p[1] \in Int /\ dst <= p[1] /\ p[1] < dst + n
  <2>1. PICK i \in Below(n) : p[1] = dst + i
    BY <1>1 DEF Copy
  <2> QED  BY <2>1 DEF Below
<1> QED  BY <1>1 DEF Within

(* Fewer places are within more.                                           *)
LEMMA WithinMore ==
  ASSUME NEW piece, NEW a \in Int, NEW n \in Int, NEW m \in Int, n <= m, Within(piece, a, n)
  PROVE  Within(piece, a, m)
BY DEF Within

LEMMA CopyStridedRowsSafe ==
  ASSUME NEW o, NEW d \in Shapes, NEW s
  PROVE  /\ Len(d) = 2 => SafeStages(copy_strided_2d(o, d, s))
         /\ Len(d) = 3 => SafeStages(copy_strided_3d(o, d, s))
<1>0. d \in Sizes /\ \A i \in 1 .. Len(d) : d[i] \in Nat \ {0}
  BY Constants DEF Sizes
<1>1. ASSUME Len(d) = 2 PROVE SafeStages(copy_strided_2d(o, d, s))
  <2> DEFINE m == DivCeil(d[1] * d[2], d[2])
             stage == [c \in 1 .. m |-> Copy((c - 1) * d[2], o + (c - 1) * s[1], d[2])]
  <2>1. copy_strided_2d(o, d, s) = <<stage>>
    BY DEF copy_strided_2d, Chunks
  <2>2. d[1] \in Nat \ {0} /\ d[2] \in Nat \ {0}
    BY <1>0, <1>1
  <2>3. m \in Int
    <3>1. d[1] * d[2] \in Int
      BY <2>2
    <3> QED  BY <2>2, <3>1, DivCeilType
  <2>4. List(stage, m)
    BY DEF List
  <2>5. \A c \in 1 .. m : stage[c] = Copy((c - 1) * d[2], o + (c - 1) * s[1], d[2])
    OBVIOUS
  <2> HIDE DEF stage, m
  <2>6. ASSUME NEW c \in 1 .. m PROVE Within(stage[c], 0 + (c - 1) * d[2], d[2])
    <3>1. (c - 1) * d[2] \in Int /\ 0 + (c - 1) * d[2] = (c - 1) * d[2]
      BY <2>2, <2>3
    <3> QED  BY <2>2, <2>5, <3>1, CopyWithin
  <2>7. Chunked(stage, m, 0, d[2])
    BY <2>4, <2>6 DEF Chunked
  <2> QED  BY <2>1, <2>2, <2>3, <2>7, ChunksSafe, OneStageSafe
<1>2. ASSUME Len(d) = 3 PROVE SafeStages(copy_strided_3d(o, d, s))
  <2> DEFINE m == DivCeil(elem_count(d), d[2] * d[3])
             block(c) == UNION {Copy(((c - 1) * d[2] + i1) * d[3], o + (c - 1) * s[1] + i1 * s[2], d[3]) :
                                  i1 \in Below(d[2])}
             stage == [c \in 1 .. m |-> block(c)]
  <2>1. copy_strided_3d(o, d, s) = <<stage>>
    BY DEF copy_strided_3d, Chunks
  <2>2. d[2] \in Nat \ {0} /\ d[3] \in Nat \ {0} /\ d[2] * d[3] \in Nat \ {0}
    BY <1>0, <1>2, ProductPositive
  <2>3. m \in Int
    BY <1>0, <2>2, CountType, DivCeilType
  <2>4. List(stage, m) /\ \A c \in 1 .. m : stage[c] = block(c)
    BY DEF List
  <2> HIDE DEF stage, m
  <2>5. ASSUME NEW c \in 1 .. m PROVE Within(block(c), 0 + (c - 1) * (d[2] * d[3]), d[2] * d[3])
    <3>1. ASSUME NEW p \in block(c)
          PROVE  \E i1 \in Below(d[2]), x \in Below(d[3]) : p[1] = ((c - 1) * d[2] + i1) * d[3] + x
      <4>1. PICK i1 \in Below(d[2]) :
              p \in Copy(((c - 1) * d[2] + i1) * d[3], o + (c - 1) * s[1] + i1 * s[2], d[3])
        BY <3>1
      <4> QED  BY <4>1 DEF Copy
    <3> HIDE DEF block
    <3>2. ASSUME NEW p \in block(c)
          PROVE  /\ p[1] \in Int /\ 0 + (c - 1) * (d[2] * d[3]) <= p[1]
                 /\ p[1] < 0 + (c - 1) * (d[2] * d[3]) + d[2] * d[3]
      <4>1. PICK i1 \in Below(d[2]), x \in Below(d[3]) : p[1] = ((c - 1) * d[2] + i1) * d[3] + x
        BY <3>1, <3>2
      <4> DEFINE q == i1 * d[3] + x
                 n == d[2] * d[3]
                 first == (c - 1) * n
      <4>2. i1 \in Int /\ 0 <= i1 /\ i1 < d[2] /\ x \in Int /\ 0 <= x /\ x < d[3] /\ c \in Int
        BY <2>2, <2>3 DEF Below
      <4>3. q \in Int /\ 0 <= q /\ q < n
        BY <2>2, <4>2, RowBound
      <4>4. n \in Int /\ first \in Int /\ p[1] = first + q
        BY <2>2, <4>1, <4>2
      <4> HIDE DEF q, n, first
      <4>5. p[1] \in Int /\ 0 + first <= p[1] /\ p[1] < 0 + first + n
        BY <4>3, <4>4
      <4> QED  BY <4>5 DEF first, n
    <3> QED  BY <3>2 DEF Within
  <2> HIDE DEF block
  <2>6. Chunked(stage, m, 0, d[2] * d[3])
    BY <2>4, <2>5 DEF Chunked
  <2> QED  BY <2>1, <2>2, <2>3, <2>6, ChunksSafe, OneStageSafe
<1> QED  BY <1>1, <1>2

LEMMA CopyStridedGeneralSafe ==
  ASSUME NEW o, NEW d \in Shapes, NEW s, NEW parallel \in BOOLEAN, Len(d) >= 2
  PROVE  SafeStages(copy_strided_general(o, d, s, parallel))
<1> DEFINE r == Len(d)
           d_a == d[r - 1]
           d_b == d[r]
           n_outer == elem_count(d) \div (d_a * d_b)
           off(i) == outer_offset(o, d, s, i)
           serial == [i \in 1 .. n_outer |->
                        Gather((i - 1) * d_a * d_b, off(i - 1), d_a, d_b, s[r - 1], s[r])]
           blocks == [i \in 1 .. n_outer |->
                        tiled_2d_gather((i - 1) * d_a * d_b, off(i - 1), d_a, d_b, s[r - 1], s[r])]
           m == DivCeil(d_a * d_b, Tile * d_b)
           tile(i, t) == tiled_2d_gather((i - 1) * d_a * d_b + t * Tile * d_b,
                                         off(i - 1) + t * Tile * s[r - 1],
                                         Least(Tile, d_a - t * Tile), d_b, s[r - 1], s[r])
           tiles(i) == [c \in 1 .. m |-> tile(i, c - 1)]
           all == [i \in 1 .. n_outer |-> tiles(i)]
<1>1. copy_strided_general(o, d, s, parallel) =
        IF ~parallel THEN <<serial>> ELSE IF n_outer >= PoolSize THEN <<blocks>> ELSE all
  BY DEF copy_strided_general, Chunks
<1>2. /\ d_a \in Nat \ {0} /\ d_b \in Nat \ {0} /\ d_a * d_b \in Nat \ {0}
      /\ Tile \in Nat \ {0} /\ Tile * d_b \in Nat \ {0}
  <2>1. d_a \in Nat \ {0} /\ d_b \in Nat \ {0}
    BY Constants DEF Sizes
  <2> HIDE DEF d_a, d_b
  <2> QED  BY <2>1, Constants, ProductPositive
<1>3. n_outer \in Int
  <2>1. elem_count(d) \in Nat
    BY Constants, CountType
  <2> HIDE DEF d_a, d_b
  <2> QED  BY <1>2, <2>1
<1>4. m \in Int
  <2> HIDE DEF d_a, d_b
  <2> QED  BY <1>2, DivCeilType
<1>5. /\ List(serial, n_outer) /\ List(blocks, n_outer) /\ List(all, n_outer)
      /\ \A i \in 1 .. n_outer :
           /\ serial[i] = Gather((i - 1) * d_a * d_b, off(i - 1), d_a, d_b, s[r - 1], s[r])
           /\ blocks[i] = tiled_2d_gather((i - 1) * d_a * d_b, off(i - 1), d_a, d_b, s[r - 1], s[r])
           /\ all[i] = tiles(i)
  BY DEF List
<1>6. \A i : List(tiles(i), m) /\ \A c \in 1 .. m : tiles(i)[c] = tile(i, c - 1)
  BY DEF List
<1> HIDE DEF serial, blocks, all, tiles, m, n_outer, off, d_a, d_b
<1>7. ASSUME NEW i \in 1 .. n_outer
      PROVE  /\ Within(serial[i], 0 + (i - 1) * (d_a * d_b), d_a * d_b)
             /\ Within(blocks[i], 0 + (i - 1) * (d_a * d_b), d_a * d_b)
  <2>1. /\ (i - 1) * d_a * d_b \in Int
        /\ 0 + (i - 1) * (d_a * d_b) = (i - 1) * d_a * d_b
    BY <1>2, <1>3
  <2> DEFINE first == (i - 1) * d_a * d_b
  <2>2. Within(serial[i], first, d_a * d_b) /\ Within(blocks[i], first, d_a * d_b)
    <3>1. first \in Int /\ d_a \in Int /\ d_b \in Nat
      BY <1>2, <2>1
    <3>2. /\ serial[i] = Gather(first, off(i - 1), d_a, d_b, s[r - 1], s[r])
          /\ blocks[i] = tiled_2d_gather(first, off(i - 1), d_a, d_b, s[r - 1], s[r])
      BY <1>5
    <3> HIDE DEF first
    <3> QED  BY <3>1, <3>2, GatherWithin
  <2> QED  BY <2>1, <2>2
<1>8. Chunked(serial, n_outer, 0, d_a * d_b) /\ Chunked(blocks, n_outer, 0, d_a * d_b)
  BY <1>5, <1>7 DEF Chunked
<1>9. SafeStages(<<serial>>) /\ SafeStages(<<blocks>>)
  <2>1. d_a * d_b \in Nat
    BY <1>2
  <2> QED  BY <1>3, <1>8, <2>1, ChunksSafe, OneStageSafe
<1>10. ASSUME NEW i \in 1 .. n_outer PROVE SafeStage(tiles(i))
  <2> DEFINE base == (i - 1) * d_a * d_b
  <2>1. base \in Int
    BY <1>2, <1>3
  <2>2. ASSUME NEW c \in 1 .. m
        PROVE  Within(tiles(i)[c], base + (c - 1) * (Tile * d_b), Tile * d_b)
    <3> DEFINE t == c - 1
               first == base + t * Tile * d_b
               rows == Least(Tile, d_a - t * Tile)
    <3>1. t \in Int
      BY <1>4
    <3>2. first \in Int /\ first = base + (c - 1) * (Tile * d_b)
      BY <1>2, <2>1, <3>1
    <3>3. rows \in Int /\ rows <= Tile
      BY <1>2, <3>1 DEF Least
    <3>4. tiles(i)[c] = tiled_2d_gather(first, off(i - 1) + t * Tile * s[r - 1], rows, d_b,
                                        s[r - 1], s[r])
      BY <1>6
    <3>5. ASSUME NEW n \in Int, n = rows * d_b, NEW k \in Int, k = Tile * d_b
          PROVE  n <= k
      BY <1>2, <3>3, <3>5, SMTT(20)
    <3> HIDE DEF t, first, rows, base
    <3>6. Within(tiles(i)[c], first, rows * d_b)
      BY <1>2, <3>2, <3>3, <3>4, GatherWithin
    <3>7. rows * d_b \in Int /\ Tile * d_b \in Int /\ rows * d_b <= Tile * d_b
      BY <1>2, <3>3, <3>5
    <3>8. Within(tiles(i)[c], first, Tile * d_b)
      BY <3>2, <3>6, <3>7, WithinMore
    <3> QED  BY <3>2, <3>8
  <2> HIDE DEF base
  <2>3. Chunked(tiles(i), m, base, Tile * d_b)
    BY <1>6, <2>2 DEF Chunked
  <2>4. Tile * d_b \in Nat
    BY <1>2
  <2> QED  BY <1>4, <2>1, <2>3, <2>4, ChunksSafe
<1>11. SafeStages(all)
  <2>1. \A i \in 1 .. n_outer : SafeStage(all[i])
    BY <1>5, <1>10
  <2> QED  BY <1>3, <1>5, <2>1, ManyStagesSafe
<1> QED  BY <1>1, <1>9, <1>11

LEMMA CopyStridedSafe ==
  ASSUME NEW o, NEW d \in Shapes, NEW s, NEW parallel \in BOOLEAN, copy_strided(o, d, s, parallel)
  PROVE  SafeStages(stages')
<1> DEFINE one == << <<{<<i, <<o + i * s[1]>>>> : i \in Below(d[1])}>> >>
<1>1. stages' = WithPieces(IF Len(d) = 1 THEN one
          ELSE IF Len(d) = 2 /\ s[2] = 1 THEN copy_strided_2d(o, d, s)
          ELSE IF Len(d) = 3 /\ s[3] = 1 THEN copy_strided_3d(o, d, s)
          ELSE copy_strided_general(o, d, s, parallel))
  BY DEF copy_strided, Call
<1>2. SafeStages(one)
  BY OnePieceSafe, OneStageSafe
<1> HIDE DEF one
<1>3. Len(d) # 1 => Len(d) >= 2
  <2>1. d \in Seq(Nat \ {0}) /\ d # <<>>
    BY Constants DEF Sizes
  <2> QED  BY <2>1
<1>4. /\ Len(d) = 2 => SafeStages(copy_strided_2d(o, d, s))
      /\ Len(d) = 3 => SafeStages(copy_strided_3d(o, d, s))
      /\ Len(d) >= 2 => SafeStages(copy_strided_general(o, d, s, parallel))
  BY CopyStridedRowsSafe, CopyStridedGeneralSafe
<1> QED  BY <1>1, <1>2, <1>3, <1>4, WithPiecesSafe

(* Writes only to the columns from a to b - 1 of rows of W places.         *)
Strip(piece, W, a, b) ==
  \A p \in piece : \E i, x \in Int : a <= x /\ x < b /\ p[1] = i * W + x

LEMMA StripsApart ==
  ASSUME NEW P, NEW Q, NEW W \in Int, NEW a \in Int, NEW b \in Int, NEW c \in Int, NEW e \in Int,
         Strip(P, W, a, b), Strip(Q, W, c, e),
         0 <= a, b <= W, 0 <= c, e <= W, b <= c \/ e <= a
  PROVE  Places(P) \cap Places(Q) = {}
<1> SUFFICES ASSUME NEW p \in P, NEW q \in Q, p[1] = q[1] PROVE FALSE
  BY DEF Places
<1>1. PICK i \in Int, x \in Int : a <= x /\ x < b /\ p[1] = i * W + x
  BY DEF Strip
<1>2. PICK j \in Int, y \in Int : c <= y /\ y < e /\ q[1] = j * W + y
  BY DEF Strip
<1>3. x = y
  <2>1. 0 <= x /\ x < W /\ 0 <= y /\ y < W
    BY <1>1, <1>2
  <2>2. i * W + x = j * W + y
    BY <1>1, <1>2, Zenon
  <2> QED  BY <2>1, <2>2, RowsDiffer
<1> QED  BY <1>1, <1>2, <1>3

LEMMA CopyStrip ==
  ASSUME NEW src, NEW d1 \in Int, NEW d2 \in Int, NEW dst_s \in Int, NEW src_s,
         NEW dst_o \in Int, NEW src_o
  PROVE  Strip(copy2d(src, d1, d2, dst_s, src_s, dst_o, src_o), dst_s, dst_o, dst_o + d2)
<1> SUFFICES ASSUME NEW p \in copy2d(src, d1, d2, dst_s, src_s, dst_o, src_o)
             PROVE  \E i, x \in Int : dst_o <= x /\ x < dst_o + d2 /\ p[1] = i * dst_s + x
  BY DEF Strip
<1>1. PICK i1 \in Below(d1), i \in Below(d2) :
        p = <<i1 * dst_s + dst_o + i, src \o <<i1 * src_s + src_o + i>>>>
  BY DEF copy2d
<1>2. p[1] = i1 * dst_s + dst_o + i
  <2>1. \A u, v : <<u, v>>[1] = u
    OBVIOUS
  <2> QED  BY <1>1, <2>1, Zenon
<1>3. /\ i1 \in Int /\ dst_o + i \in Int /\ dst_o <= dst_o + i /\ dst_o + i < dst_o + d2
      /\ p[1] = i1 * dst_s + (dst_o + i)
  BY <1>2 DEF Below
<1> QED  BY <1>3

LEMMA ListSafe ==
  ASSUME NEW stage, NEW m \in Int, List(stage, m),
         \A i, j \in 1 .. m : i # j => Places(stage[i]) \cap Places(stage[j]) = {}
  PROVE  SafeStage(stage)
<1> DEFINE T == {stage[c] : c \in 1 .. m}
<1>1. \A c \in 1 .. m : stage[c] \in T
  OBVIOUS
<1> HIDE DEF T
<1>2. stage \in Seq(T) /\ DOMAIN stage = 1 .. m
  BY <1>1, ListOver
<1> QED  BY <1>2 DEF SafeStage, Apart

-----------------------------------------------------------------------------
(* Sums of the first of some numbers                                       *)

SumTrace(ns, n, f) == f = [i \in 0 .. n |-> IF i = 0 THEN 0 ELSE f[i - 1] + ns[i]]

LEMMA SumTraceExists ==
  ASSUME NEW ns, NEW n \in Nat
  PROVE  \E f : SumTrace(ns, n, f)
<1> DEFINE S == {k \in Nat : \E f : SumTrace(ns, k, f)}
<1>1. 0 \in S
  <2>1. SumTrace(ns, 0, [i \in 0 .. 0 |-> 0])
    BY DEF SumTrace
  <2> QED  BY <2>1
<1>2. ASSUME NEW k \in Nat, k \in S PROVE k + 1 \in S
  <2>1. PICK f : SumTrace(ns, k, f)
    BY <1>2
  <2> DEFINE g == [i \in 0 .. k + 1 |-> IF i = k + 1 THEN f[k] + ns[k + 1] ELSE f[i]]
  <2>2. \A i \in 0 .. k : f[i] = IF i = 0 THEN 0 ELSE f[i - 1] + ns[i]
    BY <2>1 DEF SumTrace
  <2>3. \A i \in 0 .. k + 1 : g[i] = IF i = 0 THEN 0 ELSE g[i - 1] + ns[i]
    BY <2>2
  <2>4. SumTrace(ns, k + 1, g)
    BY <2>3 DEF SumTrace
  <2> QED  BY <2>4
<1> HIDE DEF S
<1>3. Nat \subseteq S
  BY <1>1, <1>2, Induction
<1> QED  BY <1>3 DEF S

LEMMA SumIsTrace ==
  ASSUME NEW ns, Len(ns) \in Nat
  PROVE  \E f : /\ SumOf(ns) = f[Len(ns)] /\ f[0] = 0
                /\ \A i \in 1 .. Len(ns) : f[i] = f[i - 1] + ns[i]
<1> DEFINE F == CHOOSE f : SumTrace(ns, Len(ns), f)
<1>1. SumTrace(ns, Len(ns), F)
  BY SumTraceExists
<1>2. SumOf(ns) = F[Len(ns)]
  BY DEF SumOf, SumTrace
<1> HIDE DEF F
<1>3. F[0] = 0 /\ \A i \in 1 .. Len(ns) : F[i] = F[i - 1] + ns[i]
  BY <1>1 DEF SumTrace
<1> QED  BY <1>2, <1>3

LEMMA SumPrefix ==
  ASSUME NEW ns \in Seq(Nat), NEW k \in 0 .. Len(ns), NEW f,
         f[0] = 0, \A i \in 1 .. Len(ns) : f[i] = f[i - 1] + ns[i]
  PROVE  SumOf(SubSeq(ns, 1, k)) = f[k]
<1> DEFINE part == SubSeq(ns, 1, k)
<1>1. Len(part) = k /\ k \in Nat /\ Len(ns) \in Nat /\ \A i \in 1 .. k : part[i] = ns[i]
  <2>1. k \in Nat /\ Len(ns) \in Nat /\ \A i \in 1 .. k : ns[i] \in Nat
    OBVIOUS
  <2>2. /\ Len(part) = IF 1 <= k THEN k - 1 + 1 ELSE 0
        /\ \A i \in 1 .. k - 1 + 1 : part[i] = ns[1 + i - 1]
    BY <2>1, SubSeqProperties
  <2> HIDE DEF part
  <2> QED  BY <2>1, <2>2
<1> HIDE DEF part
<1>2. PICK g : SumOf(part) = g[k] /\ g[0] = 0 /\ \A i \in 1 .. k : g[i] = g[i - 1] + part[i]
  <2>1. Len(part) \in Nat /\ Len(part) = k
    BY <1>1
  <2>2. \E g : /\ SumOf(part) = g[Len(part)] /\ g[0] = 0
               /\ \A i \in 1 .. Len(part) : g[i] = g[i - 1] + part[i]
    BY <2>1, SumIsTrace
  <2> QED  BY <2>1, <2>2, Zenon
<1> DEFINE S == {i \in Nat : i <= k => f[i] = g[i]}
<1>3. 0 \in S
  BY <1>2
<1>4. ASSUME NEW i \in Nat, i \in S PROVE i + 1 \in S
  <2> SUFFICES ASSUME i + 1 <= k PROVE f[i + 1] = g[i + 1]
    OBVIOUS
  <2>1. i + 1 \in 1 .. k /\ i + 1 \in 1 .. Len(ns) /\ i + 1 - 1 = i /\ f[i] = g[i]
    BY <1>1, <1>4
  <2>2. part[i + 1] = ns[i + 1]
    BY <1>1, <2>1
  <2>3. f[i + 1] = f[i] + ns[i + 1]
    BY <2>1
  <2>4. g[i + 1] = g[i] + part[i + 1]
    BY <1>2, <2>1
  <2> QED  BY <2>1, <2>2, <2>3, <2>4
<1> HIDE DEF S
<1>5. Nat \subseteq S
  BY <1>3, <1>4, Induction
<1> QED  BY <1>1, <1>2, <1>5 DEF S, part

LEMMA SumsGrow ==
  ASSUME NEW ns \in Seq(Nat)
  PROVE  /\ SumOf(ns) \in Nat
         /\ \A i \in 1 .. Len(ns) :
              /\ SumOf(SubSeq(ns, 1, i - 1)) \in Nat
              /\ SumOf(SubSeq(ns, 1, i - 1)) + ns[i] <= SumOf(ns)
         /\ \A i, j \in 1 .. Len(ns) : i < j =>
              SumOf(SubSeq(ns, 1, i - 1)) + ns[i] <= SumOf(SubSeq(ns, 1, j - 1))
<1> DEFINE n == Len(ns)
<1>1. n \in Nat /\ \A i \in 1 .. n : ns[i] \in Nat
  OBVIOUS
<1>2. PICK f : SumOf(ns) = f[n] /\ f[0] = 0 /\ \A i \in 1 .. n : f[i] = f[i - 1] + ns[i]
  BY <1>1, SumIsTrace
<1>3. \A i \in 1 .. n : SumOf(SubSeq(ns, 1, i - 1)) = f[i - 1]
  <2> SUFFICES ASSUME NEW i \in 1 .. n PROVE SumOf(SubSeq(ns, 1, i - 1)) = f[i - 1]
    OBVIOUS
  <2>1. i - 1 \in 0 .. n
    BY <1>1
  <2> QED  BY <1>2, <2>1, SumPrefix
<1> HIDE DEF n
<1> DEFINE S == {k \in Nat : k <= n => \A i \in 0 .. k : f[i] \in Nat /\ f[i] <= f[k]}
<1>4. 0 \in S
  BY <1>2
<1>5. ASSUME NEW k \in Nat, k \in S PROVE k + 1 \in S
  <2> SUFFICES ASSUME k + 1 <= n
               PROVE  \A i \in 0 .. k + 1 : f[i] \in Nat /\ f[i] <= f[k + 1]
    OBVIOUS
  <2>1. /\ k + 1 \in 1 .. n /\ k + 1 - 1 = k
        /\ k \in 0 .. k /\ \A i \in 0 .. k : f[i] \in Nat /\ f[i] <= f[k]
    BY <1>1, <1>5
  <2>2. f[k + 1] = f[k] + ns[k + 1] /\ ns[k + 1] \in Nat
    BY <1>1, <1>2, <2>1
  <2>3. f[k + 1] \in Nat /\ f[k] <= f[k + 1]
    BY <2>1, <2>2
  <2>4. ASSUME NEW i \in 0 .. k + 1 PROVE f[i] \in Nat /\ f[i] <= f[k + 1]
    <3>1. CASE i = k + 1
      BY <2>3, <3>1
    <3>2. CASE i # k + 1
      <4>1. i \in 0 .. k
        BY <3>2
      <4>2. f[i] <= f[k] /\ f[i] \in Nat
        BY <2>1, <4>1
      <4> QED  BY <2>1, <2>3, <4>2
    <3> QED  BY <3>1, <3>2
  <2> QED  BY <2>3, <2>4
<1> HIDE DEF S
<1>6. Nat \subseteq S
  BY <1>4, <1>5, Induction
<1>7. \A k \in 0 .. n : \A i \in 0 .. k : f[i] \in Nat /\ f[i] <= f[k]
  BY <1>1, <1>6 DEF S
<1>8. \A i \in 1 .. n : f[i - 1] + ns[i] = f[i] /\ f[i - 1] \in Nat /\ f[i] <= f[n]
  BY <1>1, <1>2, <1>7
<1>9. \A i, j \in 1 .. n : i < j => f[i] <= f[j - 1]
  BY <1>1, <1>7
<1>10. SumOf(ns) \in Nat
  BY <1>1, <1>2, <1>7
<1>11. ASSUME NEW i \in 1 .. n
       PROVE  /\ SumOf(SubSeq(ns, 1, i - 1)) \in Nat
              /\ SumOf(SubSeq(ns, 1, i - 1)) + ns[i] <= SumOf(ns)
  BY <1>2, <1>3, <1>8
<1>12. ASSUME NEW i \in 1 .. n, NEW j \in 1 .. n, i < j
       PROVE  SumOf(SubSeq(ns, 1, i - 1)) + ns[i] <= SumOf(SubSeq(ns, 1, j - 1))
  BY <1>3, <1>8, <1>9, <1>12
<1> QED  BY <1>10, <1>11, <1>12 DEF n

LEMMA RowsOf ==
  ASSUME NEW d \in Shapes, NEW dim \in DOMAIN d
  PROVE  /\ After(d, dim) \in Nat \ {0} /\ Before(d, dim) \in Nat \ {0} /\ d[dim] \in Nat \ {0}
         /\ \A n : Resized(d, dim, n)[dim] = n
<1>1. d \in Sizes /\ Len(d) \in Nat /\ dim \in 1 .. Len(d)
  BY Constants
<1>2. /\ SubSeq(d, 1, dim - 1) \in Sizes /\ SubSeq(d, dim + 1, Len(d)) \in Sizes
      /\ d[dim] \in Nat \ {0}
  <2>1. dim - 1 \in Int /\ dim + 1 \in Int /\ 1 <= dim + 1 /\ dim - 1 <= Len(d)
    BY <1>1
  <2>2. d[dim] \in Nat \ {0}
    BY <1>1 DEF Sizes
  <2> QED  BY <1>1, <2>1, <2>2, PartType
<1>3. \A n : Resized(d, dim, n)[dim] = n
  BY DEF Resized
<1> QED  BY <1>2, <1>3, CountType DEF After, Before

LEMMA CatSafe ==
  ASSUME NEW d \in Shapes, NEW dim \in DOMAIN d, NEW sizes \in Seq(Nat), cat(d, dim, sizes)
  PROVE  SafeStages(stages')
<1> DEFINE total == SumOf(sizes)
           inner == After(d, dim)
           rows == Before(d, dim)
           at_(i) == SumOf(SubSeq(sizes, 1, i - 1))
           piece(i) == copy2d(<<i>>, rows, sizes[i] * inner, total * inner,
                              sizes[i] * inner, at_(i) * inner, 0)
           stage == [i \in DOMAIN sizes |-> piece(i)]
           m == Len(sizes)
<1>1. stages' = WithPieces(<<stage>>)
  BY DEF cat, Call
<1>2. m \in Nat /\ DOMAIN sizes = 1 .. m /\ \A i \in 1 .. m : sizes[i] \in Nat
  OBVIOUS
<1>3. List(stage, m) /\ \A i \in 1 .. m : stage[i] = piece(i)
  BY <1>2 DEF List
<1>4. inner \in Nat \ {0} /\ rows \in Nat \ {0}
  BY RowsOf
<1>5. /\ total \in Nat
      /\ \A i \in 1 .. m : at_(i) \in Nat /\ at_(i) + sizes[i] <= total
      /\ \A i, j \in 1 .. m : i < j => at_(i) + sizes[i] <= at_(j)
  BY SumsGrow
<1> HIDE DEF total, inner, rows, at_, stage, m
<1>6. ASSUME NEW x \in Nat, NEW y \in Nat, x <= y PROVE x * inner <= y * inner
  BY <1>4, <1>6, SMTT(20)
<1> DEFINE W == total * inner
           from(i) == at_(i) * inner
           to(i) == (at_(i) + sizes[i]) * inner
<1>7. /\ W \in Int
      /\ \A i \in 1 .. m : from(i) \in Int /\ to(i) \in Int /\ 0 <= from(i) /\ to(i) <= W
      /\ \A i, j \in 1 .. m : i < j => to(i) <= from(j)
  <2>1. W \in Int
    BY <1>4, <1>5
  <2>2. ASSUME NEW i \in 1 .. m
        PROVE  from(i) \in Int /\ to(i) \in Int /\ 0 <= from(i) /\ to(i) <= W
    <3>1. at_(i) \in Nat /\ at_(i) + sizes[i] \in Nat /\ at_(i) + sizes[i] <= total
      BY <1>2, <1>5
    <3>2. from(i) \in Nat /\ to(i) \in Nat
      BY <1>4, <3>1
    <3>3. to(i) <= W
      BY <1>5, <1>6, <3>1
    <3> QED  BY <3>2, <3>3
  <2>3. ASSUME NEW i \in 1 .. m, NEW j \in 1 .. m, i < j PROVE to(i) <= from(j)
    <3>1. at_(i) \in Nat /\ at_(j) \in Nat /\ sizes[i] \in Nat
      BY <1>2, <1>5
    <3>2. at_(i) + sizes[i] <= at_(j)
      BY <1>5, <2>3
    <3>3. at_(i) + sizes[i] \in Nat
      BY <3>1
    <3> QED  BY <1>6, <3>1, <3>2, <3>3
  <2> QED  BY <2>1, <2>2, <2>3
<1>8. ASSUME NEW i \in 1 .. m PROVE Strip(stage[i], W, from(i), to(i))
  <2>1. sizes[i] * inner \in Int /\ rows \in Int /\ from(i) + sizes[i] * inner = to(i)
    BY <1>2, <1>4, <1>5
  <2>2. stage[i] = copy2d(<<i>>, rows, sizes[i] * inner, W, sizes[i] * inner, from(i), 0)
    BY <1>3
  <2> HIDE DEF W, from, to
  <2>3. W \in Int /\ from(i) \in Int
    BY <1>7
  <2>4. Strip(stage[i], W, from(i), from(i) + sizes[i] * inner)
    BY <2>1, <2>2, <2>3, CopyStrip
  <2> QED  BY <2>1, <2>4
<1> HIDE DEF W, from, to, piece
<1>9. ASSUME NEW i \in 1 .. m, NEW j \in 1 .. m, i # j
      PROVE  Places(stage[i]) \cap Places(stage[j]) = {}
  <2>1. i < j \/ j < i
    BY <1>2, <1>9
  <2>2. to(i) <= from(j) \/ to(j) <= from(i)
    BY <1>7, <2>1
  <2>3. \A k \in 1 .. m : to(k) <= W
    BY <1>7
  <2> QED  BY <1>7, <1>8, <2>2, <2>3, StripsApart
<1>10. SafeStage(stage)
  <2>1. m \in Int /\ List(stage, m)
    BY <1>2, <1>3
  <2>2. \A i, j \in 1 .. m : i # j => Places(stage[i]) \cap Places(stage[j]) = {}
    BY <1>9
  <2> QED  BY <2>1, <2>2, ListSafe
<1> QED  BY <1>1, <1>10, StageSafe

LEMMA PadWithStrip ==
  ASSUME NEW d \in Shapes, NEW dim \in DOMAIN d, NEW out, NEW w \in Nat, out[dim] = w,
         NEW n \in Nat, NEW dst \in Nat, NEW src, NEW inner, inner = After(d, dim)
  PROVE  Strip(PadWith(d, dim, out, n, dst, src), w * inner, dst * inner, (dst + n) * inner)
<1>1. inner \in Nat /\ Before(d, dim) \in Int
  BY RowsOf
<1>2. PadWith(d, dim, out, n, dst, src)
        = copy2d(<<>>, Before(d, dim), n * inner, w * inner, d[dim] * inner, dst * inner, src * inner)
  BY DEF PadWith
<1>3. /\ n * inner \in Int /\ w * inner \in Int /\ dst * inner \in Int
      /\ dst * inner + n * inner = (dst + n) * inner
  BY <1>1
<1>4. Strip(PadWith(d, dim, out, n, dst, src), w * inner, dst * inner, dst * inner + n * inner)
  BY <1>1, <1>2, <1>3, CopyStrip
<1> QED  BY <1>3, <1>4

LEMMA PadWithSameSafe ==
  ASSUME NEW d \in Shapes, NEW dim \in DOMAIN d, NEW left_by \in Nat, NEW right_by \in Nat,
         pad_with_same(d, dim, left_by, right_by)
  PROVE  SafeStages(stages')
<1> DEFINE out == Padded(d, dim, left_by, right_by)
           inner == After(d, dim)
           size == d[dim]
           w == size + left_by + right_by
           first == PadWith(d, dim, out, size, left_by, 0)
           before(l) == PadWith(d, dim, out, 1, l - 1, 0)
           after(r) == PadWith(d, dim, out, 1, left_by + size + r - 1, size - 1)
           s1 == <<first>>
           s2 == [l \in 1 .. left_by |-> before(l)]
           s3 == [r \in 1 .. right_by |-> after(r)]
           stage == s1 \o s2 \o s3
           m == 1 + left_by + right_by
           (* The slices that piece k writes.                              *)
           from(k) == IF k = 1 THEN left_by
                      ELSE IF k <= 1 + left_by THEN k - 2 ELSE size + k - 2
           num(k) == IF k = 1 THEN size ELSE 1
<1>1. stages' = WithPieces(<<stage>>)
  BY DEF pad_with_same, Call
<1>2. inner \in Nat \ {0} /\ size \in Nat \ {0} /\ out[dim] = w /\ w \in Nat /\ m \in Nat
  <2>1. inner \in Nat \ {0} /\ size \in Nat \ {0} /\ out[dim] = w
    BY RowsOf DEF Padded
  <2> HIDE DEF size
  <2> QED  BY <2>1
<1>3. /\ List(stage, m) /\ stage[1] = first
      /\ \A k \in 2 .. 1 + left_by : stage[k] = before(k - 1)
      /\ \A k \in 2 + left_by .. m : stage[k] = after(k - 1 - left_by)
  <2> DEFINE T == {first} \cup {before(l) : l \in 1 .. left_by} \cup {after(r) : r \in 1 .. right_by}
  <2>1. /\ s1 \in Seq(T) /\ Len(s1) = 1 /\ s1[1] = first
        /\ s2 \in Seq(T) /\ Len(s2) = left_by /\ \A l \in 1 .. left_by : s2[l] = before(l)
        /\ s3 \in Seq(T) /\ Len(s3) = right_by /\ \A r \in 1 .. right_by : s3[r] = after(r)
    <3>1. first \in T /\ (\A l \in 1 .. left_by : before(l) \in T) /\ \A r \in 1 .. right_by : after(r) \in T
      OBVIOUS
    <3> HIDE DEF T, first, before, after
    <3> QED  BY <3>1
  <2> HIDE DEF T, first, before, after, s1, s2, s3
  <2> DEFINE s12 == s1 \o s2
  <2>2. /\ s12 \in Seq(T) /\ Len(s12) = Len(s1) + Len(s2)
        /\ \A k \in 1 .. Len(s1) + Len(s2) : s12[k] = IF k <= Len(s1) THEN s1[k] ELSE s2[k - Len(s1)]
    BY <2>1, ConcatProperties
  <2>3. stage = s12 \o s3
    OBVIOUS
  <2> HIDE DEF stage, s12
  <2>4. /\ stage \in Seq(T) /\ Len(stage) = Len(s12) + Len(s3)
        /\ \A k \in 1 .. Len(s12) + Len(s3) :
             stage[k] = IF k <= Len(s12) THEN s12[k] ELSE s3[k - Len(s12)]
    <3>1. /\ s12 \o s3 \in Seq(T) /\ Len(s12 \o s3) = Len(s12) + Len(s3)
          /\ \A k \in 1 .. Len(s12) + Len(s3) :
               (s12 \o s3)[k] = IF k <= Len(s12) THEN s12[k] ELSE s3[k - Len(s12)]
      <4>1. s12 \in Seq(T) /\ s3 \in Seq(T)
        BY <2>1, <2>2
      <4> QED  BY <4>1, ConcatProperties
    <3> QED  BY <2>3, <3>1
  <2>5. /\ Len(s12) = 1 + left_by /\ Len(stage) = m
        /\ \A k \in 1 .. 1 + left_by : s12[k] = IF k <= 1 THEN s1[k] ELSE s2[k - 1]
        /\ \A k \in 1 .. m : stage[k] = IF k <= 1 + left_by THEN s12[k] ELSE s3[k - (1 + left_by)]
    BY <2>1, <2>2, <2>4
  <2>6. List(stage, m)
    <3>1. stage = [k \in 1 .. Len(stage) |-> stage[k]]
      BY <2>4
    <3> QED  BY <2>5, <3>1 DEF List
  <2>7. stage[1] = first
    <3>1. 1 \in 1 .. m /\ 1 \in 1 .. 1 + left_by /\ 1 <= 1 /\ 1 <= 1 + left_by
      BY <1>2
    <3> QED  BY <2>1, <2>5, <3>1
  <2>8. ASSUME NEW k \in 2 .. 1 + left_by PROVE stage[k] = before(k - 1)
    <3>1. /\ k \in 1 .. m /\ k \in 1 .. 1 + left_by /\ ~(k <= 1) /\ k <= 1 + left_by
          /\ k - 1 \in 1 .. left_by
      BY <1>2
    <3> QED  BY <2>1, <2>5, <3>1
  <2>9. ASSUME NEW k \in 2 + left_by .. m PROVE stage[k] = after(k - 1 - left_by)
    <3>1. k \in 1 .. m /\ ~(k <= 1 + left_by) /\ k - (1 + left_by) = k - 1 - left_by
          /\ k - 1 - left_by \in 1 .. right_by
      BY <1>2
    <3> QED  BY <2>1, <2>5, <3>1
  <2> QED  BY <2>6, <2>7, <2>8, <2>9
<1>4. ASSUME NEW k \in 1 .. m
      PROVE  from(k) \in Nat /\ num(k) \in Nat /\ from(k) + num(k) <= w
  <2> HIDE DEF size
  <2> QED  BY <1>2
<1>5. ASSUME NEW k \in 1 .. m, NEW l \in 1 .. m, k # l
      PROVE  from(k) + num(k) <= from(l) \/ from(l) + num(l) <= from(k)
  <2> HIDE DEF size
  <2> QED  BY <1>2, <1>5
<1>6. ASSUME NEW k \in 1 .. m
      PROVE  Strip(stage[k], w * inner, from(k) * inner, (from(k) + num(k)) * inner)
  <2>1. \E src : stage[k] = PadWith(d, dim, out, num(k), from(k), src)
    <3> HIDE DEF stage, out, size, w
    <3>1. CASE k = 1
      BY <1>3, <3>1
    <3>2. CASE k \in 2 .. 1 + left_by
      <4>1. k # 1 /\ k <= 1 + left_by /\ k - 1 - 1 = k - 2
        BY <3>2
      <4>2. stage[k] = PadWith(d, dim, out, 1, k - 2, 0)
        BY <1>3, <3>2, <4>1
      <4> QED  BY <4>1, <4>2
    <3>3. CASE k \in 2 + left_by .. m
      <4>1. /\ k # 1 /\ ~(k <= 1 + left_by)
            /\ left_by + size + (k - 1 - left_by) - 1 = size + k - 2
        BY <1>2, <3>3
      <4>2. stage[k] = PadWith(d, dim, out, 1, size + k - 2, size - 1)
        BY <1>3, <3>3, <4>1
      <4> QED  BY <4>1, <4>2
    <3>4. k = 1 \/ k \in 2 .. 1 + left_by \/ k \in 2 + left_by .. m
      BY <1>2
    <3> QED  BY <3>1, <3>2, <3>3, <3>4
  <2> HIDE DEF stage, out, w, inner, from, num
  <2> QED  BY <1>2, <1>4, <2>1, PadWithStrip DEF inner
<1> HIDE DEF out, inner, size, w, stage, m, from, num
<1>7. ASSUME NEW x \in Nat, NEW y \in Nat, x <= y PROVE x * inner <= y * inner
  BY <1>2, <1>7, SMTT(20)
<1> DEFINE a(k) == from(k) * inner
           b(k) == (from(k) + num(k)) * inner
           W == w * inner
<1>8. /\ W \in Int
      /\ \A k \in 1 .. m : a(k) \in Int /\ b(k) \in Int /\ 0 <= a(k) /\ b(k) <= W
      /\ \A k, l \in 1 .. m : k # l => b(k) <= a(l) \/ b(l) <= a(k)
  <2>1. W \in Int
    BY <1>2
  <2>2. ASSUME NEW k \in 1 .. m
        PROVE  a(k) \in Int /\ b(k) \in Int /\ 0 <= a(k) /\ b(k) <= W
    <3>1. from(k) \in Nat /\ from(k) + num(k) \in Nat /\ from(k) + num(k) <= w
      BY <1>4
    <3>2. a(k) \in Nat /\ b(k) \in Nat
      BY <1>2, <3>1
    <3>3. b(k) <= W
      BY <1>2, <1>7, <3>1
    <3> QED  BY <3>2, <3>3
  <2>3. ASSUME NEW k \in 1 .. m, NEW l \in 1 .. m, k # l
        PROVE  b(k) <= a(l) \/ b(l) <= a(k)
    <3>1. /\ from(k) \in Nat /\ from(k) + num(k) \in Nat
          /\ from(l) \in Nat /\ from(l) + num(l) \in Nat
      BY <1>4
    <3> QED  BY <1>5, <1>7, <2>3, <3>1
  <2> QED  BY <2>1, <2>2, <2>3
<1>9. \A k \in 1 .. m : Strip(stage[k], W, a(k), b(k))
  BY <1>6
<1> HIDE DEF a, b, W
<1>10. \A k, l \in 1 .. m : k # l => Places(stage[k]) \cap Places(stage[l]) = {}
  BY <1>8, <1>9, StripsApart
<1>11. SafeStage(stage)
  <2>1. m \in Int /\ List(stage, m)
    BY <1>2, <1>3
  <2> QED  BY <1>10, <2>1, ListSafe
<1> QED  BY <1>1, <1>11, StageSafe

-----------------------------------------------------------------------------
(* Kernels that are one piece, or one piece after another                  *)

LEMMA OnePieceKernels ==
  ASSUME NEW d, NEW dim
  PROVE  /\ \A left_by, right_by : pad_with_zeros(d, dim, left_by, right_by) => SafeStages(stages')
         /\ \A n, offset : slice_set(d, dim, n, offset) => SafeStages(stages')
         /\ \A ids : index_select(d, dim, ids) => SafeStages(stages')
         /\ \A n, ids : scatter_set(d, dim, n, ids) => SafeStages(stages')
         /\ \A r : broadcast_binary(d, r) => SafeStages(stages')
<1>1. ASSUME NEW left_by, NEW right_by, pad_with_zeros(d, dim, left_by, right_by) PROVE SafeStages(stages')
  <2>1. \E a, b : stages' = WithPieces(<< <<a>>, <<b>> >>)
    BY <1>1 DEF pad_with_zeros, Call
  <2> QED  BY <2>1, OnePieceSafe, TwoStagesSafe, WithPiecesSafe
<1>2. ASSUME NEW n, NEW offset, slice_set(d, dim, n, offset) PROVE SafeStages(stages')
  <2>1. \E a : stages' = WithPieces(<< <<a>> >>)
    BY <1>2 DEF slice_set, Call
  <2> QED  BY <2>1, PieceSafe
<1>3. ASSUME NEW ids, index_select(d, dim, ids) PROVE SafeStages(stages')
  <2> DEFINE right == After(d, dim)
             from(row, i, r) ==
               IF ids[i] = -1 THEN Zero ELSE <<row * d[dim] * right + ids[i] * right + r>>
             piece == {<<row * Len(ids) * right + (i - 1) * right + r, from(row, i, r)>> :
                         row \in Below(Before(d, dim)), i \in DOMAIN ids, r \in Below(right)}
  <2>1. stages' = WithPieces(<< <<piece>> >>)
    BY <1>3 DEF index_select, Call
  <2> HIDE DEF piece
  <2> QED  BY <2>1, PieceSafe
<1>4. ASSUME NEW n, NEW ids, scatter_set(d, dim, n, ids) PROVE SafeStages(stages')
  <2>1. \E a : stages' = WithPieces(<< <<a>> >>)
    BY <1>4 DEF scatter_set, Call
  <2> QED  BY <2>1, PieceSafe
<1>5. ASSUME NEW r, broadcast_binary(d, r) PROVE SafeStages(stages')
  <2>1. \E a : stages' = WithPieces(<< <<a>> >>)
    BY <1>5 DEF broadcast_binary, Call
  <2> QED  BY <2>1, PieceSafe
<1> QED  BY <1>1, <1>2, <1>3, <1>4, <1>5

-----------------------------------------------------------------------------
(* Kernels cut into chunks                                                 *)

(* Each piece stays in its own chunk of size places.                       *)
LEMMA ChunkedCall ==
  ASSUME NEW n \in Int, NEW size \in Nat \ {0}, NEW stage, List(stage, DivCeil(n, size)),
         \A c \in Nat : c + 1 \in 1 .. DivCeil(n, size) => Within(stage[c + 1], c * size, size)
  PROVE  SafeStage(stage)
<1> DEFINE m == DivCeil(n, size)
<1>1. m \in Int
  BY DivCeilType
<1> HIDE DEF m
<1>2. ASSUME NEW c \in 1 .. m PROVE Within(stage[c], 0 + (c - 1) * size, size)
  <2>1. c - 1 \in Nat /\ c - 1 + 1 = c /\ (c - 1) * size \in Int
    BY <1>1
  <2>2. 0 + (c - 1) * size = (c - 1) * size
    BY <2>1
  <2>3. Within(stage[c - 1 + 1], (c - 1) * size, size)
    BY <2>1 DEF m
  <2> QED  BY <2>1, <2>2, <2>3
<1>3. Chunked(stage, m, 0, size)
  BY <1>2 DEF Chunked, m
<1> QED  BY <1>1, <1>3, ChunksSafe

(* Each row of a rotation stays in the t * d places of its head.           *)
LEMMA RopeRowWithin ==
  ASSUME NEW bh_i \in Nat, NEW h, NEW t \in Nat, NEW d \in Nat, d % 2 = 0, NEW pos, NEW batched
  PROVE  Within(RopeRow(bh_i, h, t, d, pos, batched), bh_i * (t * d), t * d)
<1> DEFINE half == d \div 2
           first == bh_i * t * d
<1>1. half \in Nat /\ d = 2 * half
  OBVIOUS
<1>2. ASSUME NEW p \in RopeRow(bh_i, h, t, d, pos, batched)
      PROVE  \E i_t \in Below(t), i_d \in Below(half) :
               \/ p[1] = first + i_t * d + i_d
               \/ p[1] = first + i_t * d + i_d + half
  <2> DEFINE turned(i_t, i_d) ==
               LET i1 == bh_i * t * d + i_t * d + i_d
                   i2 == i1 + d \div 2
                   a == Angle(bh_i, h, t, d, pos, batched, i_t * (d \div 2) + i_d)
               IN {i1, i2} \X {<<i1, a>>, <<i2, a>>}
  <2>1. RopeRow(bh_i, h, t, d, pos, batched)
          = UNION {turned(i_t, i_d) : i_t \in Below(t), i_d \in Below(half)}
    BY DEF RopeRow
  <2>2. \A i_t, i_d : \A x \in turned(i_t, i_d) :
          x[1] = first + i_t * d + i_d \/ x[1] = first + i_t * d + i_d + half
    OBVIOUS
  <2> HIDE DEF turned
  <2>3. PICK i_t \in Below(t), i_d \in Below(half) : p \in turned(i_t, i_d)
    BY <1>2, <2>1
  <2>4. p[1] = first + i_t * d + i_d \/ p[1] = first + i_t * d + i_d + half
    BY <2>3, <2>2
  <2> QED  BY <2>4
<1> HIDE DEF half
<1>3. ASSUME NEW p \in RopeRow(bh_i, h, t, d, pos, batched)
      PROVE  p[1] \in Int /\ bh_i * (t * d) <= p[1] /\ p[1] < bh_i * (t * d) + t * d
  <2>1. PICK i_t \in Below(t), i_d \in Below(half) :
               \/ p[1] = first + i_t * d + i_d
               \/ p[1] = first + i_t * d + i_d + half
    BY <1>2, <1>3
  <2>2. i_t \in Int /\ 0 <= i_t /\ i_t < t /\ i_d \in Int /\ 0 <= i_d /\ i_d < half
    BY <1>1 DEF Below
  <2>3. PICK x \in Int : 0 <= x /\ x < d /\ p[1] = first + i_t * d + x
    <3>1. first + i_t * d \in Int
      BY <2>2
    <3> DEFINE q == first + i_t * d
    <3> HIDE DEF q
    <3>2. q + i_d = first + i_t * d + i_d /\ q + (i_d + half) = first + i_t * d + i_d + half
      BY <1>1, <2>2, <3>1 DEF q
    <3>3. \E x \in Int : 0 <= x /\ x < d /\ p[1] = q + x
      <4>1. i_d \in Int /\ 0 <= i_d /\ i_d < d
        BY <1>1, <2>2
      <4>2. i_d + half \in Int /\ 0 <= i_d + half /\ i_d + half < d
        BY <1>1, <2>2
      <4>3. p[1] = q + i_d \/ p[1] = q + (i_d + half)
        BY <2>1, <3>2
      <4> QED  BY <4>1, <4>2, <4>3
    <3> QED  BY <3>3 DEF q
  <2> DEFINE q == i_t * d + x
             n == t * d
             f == bh_i * n
  <2>4. q \in Int /\ 0 <= q /\ q < n /\ n \in Int
    BY <2>2, <2>3, RowBound
  <2>5. f \in Int /\ p[1] = f + q
    BY <2>2, <2>3
  <2> HIDE DEF q, n, f
  <2>6. p[1] \in Int /\ f <= p[1] /\ p[1] < f + n
    BY <2>4, <2>5
  <2> QED  BY <2>6 DEF f, n
<1> QED  BY <1>3 DEF Within

LEMMA RopeIRowWithin ==
  ASSUME NEW bh_i \in Nat, NEW h, NEW t \in Nat, NEW d \in Nat, d % 2 = 0, NEW pos, NEW batched
  PROVE  Within(RopeIRow(bh_i, h, t, d, pos, batched), bh_i * (t * d), t * d)
<1> DEFINE n == t * d
           first == bh_i * t * d
<1>1. n \in Nat /\ n % 2 = 0
  <2>1. d \div 2 \in Nat /\ d = 2 * (d \div 2)
    OBVIOUS
  <2> DEFINE half == d \div 2
  <2> HIDE DEF half
  <2>2. t * d = 2 * (t * half) /\ t * half \in Nat
    BY <2>1 DEF half
  <2> DEFINE k == t * half
  <2> HIDE DEF k
  <2>3. n = 2 * k /\ k \in Nat
    BY <2>2 DEF k
  <2> QED  BY <2>3
<1>2. ASSUME NEW p \in RopeIRow(bh_i, h, t, d, pos, batched)
      PROVE  \E i \in Below(n \div 2) : p[1] = first + 2 * i \/ p[1] = first + 2 * i + 1
  <2>1. PICK i \in Below((t * d) \div 2) :
          \E Y : p \in {bh_i * t * d + 2 * i, bh_i * t * d + 2 * i + 1} \X Y
    BY <1>2 DEF RopeIRow
  <2> QED  BY <2>1
<1>3. first = bh_i * n /\ first \in Int
  OBVIOUS
<1> HIDE DEF n, first
<1>4. ASSUME NEW p \in RopeIRow(bh_i, h, t, d, pos, batched)
      PROVE  p[1] \in Int /\ first <= p[1] /\ p[1] < first + n
  <2>1. PICK i \in Below(n \div 2) : p[1] = first + 2 * i \/ p[1] = first + 2 * i + 1
    BY <1>2, <1>4
  <2> QED  BY <1>1, <1>3, <2>1 DEF Below
<1> QED  BY <1>3, <1>4 DEF Within, n

LEMMA RopeSafe ==
  ASSUME NEW b, NEW h, NEW t \in Nat \ {0}, NEW d \in Nat \ {0}, b * h * t * d \in Int,
         NEW pos, NEW batched, NEW max_pos,
         rope(b, h, t, d, pos, batched, max_pos) \/ rope_i(b, h, t, d, pos, batched, max_pos)
  PROVE  SafeStages(stages')
<1> DEFINE n == b * h * t * d
           size == t * d
           m == DivCeil(n, size)
           s1 == [c \in 1 .. m |-> RopeRow(c - 1, h, t, d, pos, batched)]
           s2 == [c \in 1 .. m |-> RopeIRow(c - 1, h, t, d, pos, batched)]
<1>1. size \in Nat \ {0} /\ d % 2 = 0 /\ n \in Int
  BY ProductPositive DEF rope, rope_i, RopeAllowed
<1>2. stages' = WithPieces(<<s1>>) \/ stages' = WithPieces(<<s2>>)
  BY DEF rope, rope_i, Call, Chunks
<1>3. /\ List(s1, m) /\ List(s2, m)
      /\ \A c \in 1 .. m : /\ s1[c] = RopeRow(c - 1, h, t, d, pos, batched)
                           /\ s2[c] = RopeIRow(c - 1, h, t, d, pos, batched)
  BY DEF List
<1> HIDE DEF s1, s2, n
<1>4. ASSUME NEW c \in Nat, c + 1 \in 1 .. m
      PROVE  Within(s1[c + 1], c * size, size) /\ Within(s2[c + 1], c * size, size)
  <2>1. c + 1 - 1 = c
    OBVIOUS
  <2> QED  BY <1>1, <1>3, <1>4, <2>1, RopeRowWithin, RopeIRowWithin
<1>5. SafeStage(s1) /\ SafeStage(s2)
  <2> HIDE DEF size
  <2> QED  BY <1>1, <1>3, <1>4, ChunkedCall
<1> QED  BY <1>2, <1>5, StageSafe

-----------------------------------------------------------------------------
(* Products of matrices                                                    *)

LEMMA StripesApart ==
  ASSUME NEW n \in Nat, NEW stripes \in Nat \ {0}
  PROVE  /\ \A s \in Nat : Stripe(n, stripes, s) \subseteq Below(n)
         /\ \A s, r \in Nat : s # r => Stripe(n, stripes, s) \cap Stripe(n, stripes, r) = {}
<1> DEFINE per == DivCeil(n, stripes)
<1>1. per \in Nat
  BY SMTT(20) DEF DivCeil
<1>2. \A s : Stripe(n, stripes, s) = Least(s * per, n) .. Least(s * per + per, n) - 1
  BY DEF Stripe
<1> HIDE DEF per
<1>3. ASSUME NEW s \in Nat PROVE Stripe(n, stripes, s) \subseteq Below(n)
  <2>1. s * per \in Nat /\ s * per + per \in Nat
    BY <1>1
  <2> QED  BY <1>2, <2>1 DEF Least, Below
<1>4. ASSUME NEW s \in Nat, NEW r \in Nat, s < r
      PROVE  Stripe(n, stripes, s) \cap Stripe(n, stripes, r) = {}
  <2>1. (s + 1) * per <= r * per /\ (s + 1) * per = s * per + per
    BY <1>1, <1>4, SMTT(20)
  <2>2. s * per \in Nat /\ r * per \in Nat
    BY <1>1
  <2> DEFINE a == s * per
             b == r * per
  <2>3. a \in Nat /\ b \in Nat /\ a + per <= b
    BY <2>1, <2>2
  <2>4. /\ Stripe(n, stripes, s) = Least(a, n) .. Least(a + per, n) - 1
        /\ Stripe(n, stripes, r) = Least(b, n) .. Least(b + per, n) - 1
    BY <1>2
  <2> HIDE DEF a, b
  <2> QED  BY <1>1, <2>3, <2>4 DEF Least
<1>5. ASSUME NEW s \in Nat, NEW r \in Nat, s # r
      PROVE  Stripe(n, stripes, s) \cap Stripe(n, stripes, r) = {}
  <2>1. s < r \/ r < s
    BY <1>5
  <2> QED  BY <1>4, <2>1
<1> QED  BY <1>3, <1>5

(* A product whose rows of g.n places follow each other.                   *)
RowMajorProduct(g) ==
  g.batch \in Nat /\ g.m \in Nat /\ g.n \in Nat /\ g.dst_cs = 1 /\ g.dst_rs = g.n

LEMMA BlocksApart ==
  ASSUME NEW g, RowMajorProduct(g), NEW b \in Nat,
         NEW R \in SUBSET Below(g.m), NEW C \in SUBSET Below(g.n),
         NEW Q \in SUBSET Below(g.m), NEW E \in SUBSET Below(g.n), R \cap Q = {} \/ C \cap E = {}
  PROVE  Places(gemm_block(g, b, R, C)) \cap Places(gemm_block(g, b, Q, E)) = {}
<1> SUFFICES ASSUME NEW x \in gemm_block(g, b, R, C), NEW y \in gemm_block(g, b, Q, E), x[1] = y[1]
             PROVE  FALSE
  BY DEF Places
<1>1. \E i \in R, j \in C : x[1] = b * g.m * g.n + i * g.dst_rs + j * g.dst_cs
  BY DEF gemm_block
<1>2. \E i \in Q, j \in E : y[1] = b * g.m * g.n + i * g.dst_rs + j * g.dst_cs
  BY DEF gemm_block
<1>3. PICK i \in R, j \in C : x[1] = b * g.m * g.n + i * g.dst_rs + j * g.dst_cs
  BY <1>1
<1>4. PICK k \in Q, l \in E : y[1] = b * g.m * g.n + k * g.dst_rs + l * g.dst_cs
  BY <1>2
<1>5. /\ g.m \in Nat /\ g.n \in Nat /\ g.dst_cs = 1 /\ g.dst_rs = g.n
      /\ i \in Int /\ j \in Int /\ 0 <= j /\ j < g.n /\ k \in Int /\ l \in Int /\ 0 <= l /\ l < g.n
  BY DEF RowMajorProduct, Below
<1>6. i * g.n + j = k * g.n + l
  <2> DEFINE first == b * g.m * g.n
             p == i * g.n
             q == k * g.n
  <2>1. first \in Int /\ p \in Int /\ q \in Int /\ j * 1 = j /\ l * 1 = l
    BY <1>5
  <2>2. first + p + j = first + q + l
    BY <1>3, <1>4, <1>5, <2>1
  <2> HIDE DEF first, p, q
  <2>3. p + j = q + l
    BY <1>5, <2>1, <2>2
  <2> QED  BY <2>3 DEF p, q
<1>7. i = k /\ j = l
  BY <1>5, <1>6, RowsDiffer
<1> QED  BY <1>7

LEMMA GemmSafe ==
  ASSUME NEW g, RowMajorProduct(g), NEW worth
  PROVE  SafeStages(gemm_(g, worth))
<1> DEFINE n == Stripes(g, worth)
           stripe(b, s) ==
             IF by_rows(g, worth)
             THEN gemm_block(g, b, Stripe(g.m, n, s), Below(g.n))
             ELSE gemm_block(g, b, Below(g.m), Stripe(g.n, n, s))
           stage(b) == [s \in 1 .. n |-> stripe(b - 1, s - 1)]
           ss == [b \in 1 .. g.batch |-> stage(b)]
<1>1. gemm_(g, worth) = ss
  BY DEF gemm_
<1>2. n \in Nat \ {0} /\ g.batch \in Nat /\ g.m \in Nat /\ g.n \in Nat
  BY Constants DEF Stripes, RowMajorProduct
<1> HIDE DEF n
<1>3. ASSUME NEW b \in 1 .. g.batch PROVE SafeStage(stage(b))
  <2>1. List(stage(b), n) /\ \A s \in 1 .. n : stage(b)[s] = stripe(b - 1, s - 1)
    BY DEF List
  <2>2. b - 1 \in Nat /\ \A s \in 1 .. n : s - 1 \in Nat
    BY <1>2
  <2>3. ASSUME NEW r \in Nat, NEW s \in Nat, r # s
        PROVE  Places(stripe(b - 1, r)) \cap Places(stripe(b - 1, s)) = {}
    <3>1. /\ Stripe(g.m, n, r) \subseteq Below(g.m) /\ Stripe(g.m, n, s) \subseteq Below(g.m)
          /\ Stripe(g.n, n, r) \subseteq Below(g.n) /\ Stripe(g.n, n, s) \subseteq Below(g.n)
          /\ Stripe(g.m, n, r) \cap Stripe(g.m, n, s) = {}
          /\ Stripe(g.n, n, r) \cap Stripe(g.n, n, s) = {}
      BY <1>2, <2>3, StripesApart
    <3>2. CASE by_rows(g, worth)
      BY <2>2, <3>1, <3>2, BlocksApart
    <3>3. CASE ~by_rows(g, worth)
      BY <2>2, <3>1, <3>3, BlocksApart
    <3> QED  BY <3>2, <3>3
  <2> HIDE DEF stripe, stage
  <2>4. ASSUME NEW r \in 1 .. n, NEW s \in 1 .. n, r # s
        PROVE  Places(stage(b)[r]) \cap Places(stage(b)[s]) = {}
    <3>1. r - 1 # s - 1
      BY <1>2, <2>4
    <3> QED  BY <2>1, <2>2, <2>3, <3>1
  <2> QED  BY <1>2, <2>1, <2>4, ListSafe
<1>4. List(ss, g.batch) /\ \A b \in 1 .. g.batch : ss[b] = stage(b)
  BY DEF List
<1> HIDE DEF ss, stage
<1> QED  BY <1>1, <1>2, <1>3, <1>4, ManyStagesSafe

LEMMA PlainRowMajor ==
  ASSUME NEW batch \in Nat, NEW m \in Nat, NEW n \in Nat, NEW k
  PROVE  RowMajorProduct(Plain(batch, m, n, k))
BY DEF RowMajorProduct, Plain

LEMMA ProductSafe ==
  ASSUME NEW batch \in Nat, NEW m \in Nat, NEW n \in Nat, NEW k, NEW worth,
         gemm(batch, m, n, k, worth)
  PROVE  SafeStages(stages')
<1>1. stages' = WithPieces(gemm_(Plain(batch, m, n, k), worth))
  BY DEF gemm, Call
<1> QED  BY <1>1, PlainRowMajor, GemmSafe, WithPiecesSafe

(* Pieces that write no more places than others did.                       *)
LEMMA SamePlacesSafe ==
  ASSUME NEW ss, SafeStages(ss), NEW tt, tt = [i \in DOMAIN ss |-> tt[i]],
         \A i \in DOMAIN ss :
           /\ tt[i] = [j \in DOMAIN ss[i] |-> tt[i][j]]
           /\ \A j \in DOMAIN ss[i] : Places(tt[i][j]) \subseteq Places(ss[i][j])
  PROVE  SafeStages(tt)
<1>1. PICK U : ss \in Seq(U) /\ \A u \in U : SafeStage(u)
  BY DEF SafeStages
<1>2. Len(ss) \in Nat /\ DOMAIN ss = 1 .. Len(ss) /\ \A i \in 1 .. Len(ss) : SafeStage(ss[i])
  BY <1>1
<1>3. List(tt, Len(ss))
  BY <1>2 DEF List
<1>4. ASSUME NEW i \in 1 .. Len(ss) PROVE SafeStage(tt[i])
  <2>1. PICK T : ss[i] \in Seq(T)
    BY <1>2, <1>4 DEF SafeStage
  <2>2. Len(ss[i]) \in Nat /\ DOMAIN ss[i] = 1 .. Len(ss[i])
    BY <2>1
  <2>3. List(tt[i], Len(ss[i]))
    BY <1>2, <2>2 DEF List
  <2>4. \A j, k \in 1 .. Len(ss[i]) : j # k => Places(ss[i][j]) \cap Places(ss[i][k]) = {}
    BY <1>2, <2>2 DEF SafeStage, Apart
  <2>5. \A j, k \in 1 .. Len(ss[i]) : j # k => Places(tt[i][j]) \cap Places(tt[i][k]) = {}
    BY <1>2, <2>2, <2>4
  <2>6. Len(ss[i]) \in Int
    BY <2>2
  <2> QED  BY <2>3, <2>5, <2>6, ListSafe
<1>5. Len(ss) \in Int
  BY <1>2
<1> QED  BY <1>3, <1>4, <1>5, ManyStagesSafe

-----------------------------------------------------------------------------
(* Reductions                                                              *)

LEMMA WithinRow ==
  ASSUME NEW piece, NEW c \in Nat, NEW size \in Nat,
         \A p \in piece : \E j \in Below(size) : p[1] = c * size + j
  PROVE  Within(piece, c * size, size)
<1> SUFFICES ASSUME NEW p \in piece
             PROVE  p[1] \in Int /\ c * size <= p[1] /\ p[1] < c * size + size
  BY DEF Within
<1>1. PICK j \in Below(size) : p[1] = c * size + j
  OBVIOUS
<1>2. c * size \in Int /\ j \in Int /\ 0 <= j /\ j < size
  BY DEF Below
<1> QED  BY <1>1, <1>2

LEMMA ReduceCombineSafe ==
  ASSUME NEW dim_size \in Nat, NEW outer_size \in Nat, NEW inner_size \in Nat \ {0},
         reduce_combine(dim_size, outer_size, inner_size)
  PROVE  SafeStages(stages')
<1> DEFINE zeros == {<<k, Zero>> : k \in Below(outer_size * inner_size)}
           rows(c) == {c * RowsPerPiece + j : j \in Below(RowsPerPiece)} \cap Below(outer_size)
           piece(c) == UNION {reduce_row(r, dim_size) : r \in rows(c)}
           s1 == [c \in 1 .. DivCeil(outer_size, RowsPerPiece) |-> piece(c - 1)]
           s2 == [c \in 1 .. DivCeil(outer_size * inner_size, inner_size) |->
                    reduce_block(c - 1, dim_size, inner_size)]
<1>1. \/ stages' = WithPieces(<< <<zeros>> >>)
      \/ stages' = WithPieces(<<s1>>)
      \/ stages' = WithPieces(<<s2>>)
  BY DEF reduce_combine, Call, Reduced, Chunks
<1>2. RowsPerPiece \in Nat \ {0} /\ outer_size * inner_size \in Int
  BY ComputeAssumption
<1>3. ASSUME NEW c \in Nat PROVE Within(piece(c), c * RowsPerPiece, RowsPerPiece)
  <2>1. ASSUME NEW p \in piece(c)
        PROVE  \E j \in Below(RowsPerPiece) : p[1] = c * RowsPerPiece + j
    <3>1. PICK r \in rows(c) : p \in reduce_row(r, dim_size)
      BY <2>1
    <3>2. p[1] = r
      BY <3>1 DEF reduce_row
    <3> QED  BY <3>2
  <2> HIDE DEF piece
  <2> QED  BY <1>2, <2>1, WithinRow
<1>4. ASSUME NEW c \in Nat PROVE Within(reduce_block(c, dim_size, inner_size), c * inner_size, inner_size)
  <2>1. ASSUME NEW p \in reduce_block(c, dim_size, inner_size)
        PROVE  \E j \in Below(inner_size) : p[1] = c * inner_size + j
    BY <2>1 DEF reduce_block
  <2> QED  BY <2>1, WithinRow
<1> HIDE DEF piece, zeros
<1>5. SafeStage(s1)
  <2>1. /\ List(s1, DivCeil(outer_size, RowsPerPiece))
        /\ \A c \in Nat : c + 1 \in 1 .. DivCeil(outer_size, RowsPerPiece) => s1[c + 1] = piece(c + 1 - 1)
    BY DEF List
  <2>2. \A c \in Nat : c + 1 - 1 = c
    OBVIOUS
  <2> HIDE DEF s1
  <2>3. \A c \in Nat : c + 1 \in 1 .. DivCeil(outer_size, RowsPerPiece) =>
          Within(s1[c + 1], c * RowsPerPiece, RowsPerPiece)
    BY <1>3, <2>1, <2>2
  <2> QED  BY <1>2, <2>1, <2>3, ChunkedCall
<1>6. SafeStage(s2)
  <2> DEFINE m == DivCeil(outer_size * inner_size, inner_size)
  <2>1. /\ List(s2, m)
        /\ \A c \in Nat : c + 1 \in 1 .. m => s2[c + 1] = reduce_block(c + 1 - 1, dim_size, inner_size)
    BY DEF List
  <2>2. \A c \in Nat : c + 1 - 1 = c
    OBVIOUS
  <2> HIDE DEF s2
  <2>3. \A c \in Nat : c + 1 \in 1 .. m => Within(s2[c + 1], c * inner_size, inner_size)
    BY <1>4, <2>1, <2>2
  <2> QED  BY <1>2, <2>1, <2>3, ChunkedCall
<1> HIDE DEF s1, s2
<1> QED  BY <1>1, <1>5, <1>6, StageSafe, PieceSafe

LEMMA ReduceArgSafe ==
  ASSUME NEW src, NEW infinity, NEW dim_size \in Nat, NEW outer_size \in Nat,
         NEW inner_size \in Nat \ {0}, reduce_arg(src, infinity, dim_size, outer_size, inner_size)
  PROVE  SafeStages(stages')
<1> DEFINE elem(o, d, i) == src[1 + RowMajor(<<o, d, i>>, <<outer_size, dim_size, inner_size>>)]
           values(o, i) == [d \in 1 .. dim_size |-> elem(o, d - 1, i)]
           row(r) == {<<r, <<Scan(values(r, 0), infinity, 0)>>>>}
           found(o, i) == <<Scan(values(o, i), values(o, i)[1], 1)>>
           block(o) == {<<o * inner_size + i, found(o, i)>> : i \in Below(inner_size)}
           rows(c) == {c * RowsPerPiece + j : j \in Below(RowsPerPiece)} \cap Below(outer_size)
           piece(c) == UNION {row(r) : r \in rows(c)}
           s1 == [c \in 1 .. DivCeil(outer_size, RowsPerPiece) |-> piece(c - 1)]
           s2 == [c \in 1 .. DivCeil(outer_size * inner_size, inner_size) |-> block(c - 1)]
<1>1. stages' = WithPieces(<<s1>>) \/ stages' = WithPieces(<<s2>>)
  BY DEF reduce_arg, Call, Reduced, Chunks
<1>2. RowsPerPiece \in Nat \ {0} /\ outer_size * inner_size \in Int
  BY ComputeAssumption
<1>3. ASSUME NEW c \in Nat PROVE Within(piece(c), c * RowsPerPiece, RowsPerPiece)
  <2>1. ASSUME NEW p \in piece(c)
        PROVE  \E j \in Below(RowsPerPiece) : p[1] = c * RowsPerPiece + j
    <3>1. PICK r \in rows(c) : p \in row(r)
      BY <2>1
    <3>2. p[1] = r
      BY <3>1
    <3> QED  BY <3>2
  <2> HIDE DEF piece
  <2> QED  BY <1>2, <2>1, WithinRow
<1>4. ASSUME NEW c \in Nat PROVE Within(block(c), c * inner_size, inner_size)
  <2>1. ASSUME NEW p \in block(c)
        PROVE  \E j \in Below(inner_size) : p[1] = c * inner_size + j
    <3> HIDE DEF found
    <3> QED  BY <2>1
  <2> HIDE DEF block
  <2> QED  BY <2>1, WithinRow
<1> HIDE DEF piece, block
<1>5. SafeStage(s1)
  <2>1. /\ List(s1, DivCeil(outer_size, RowsPerPiece))
        /\ \A c \in Nat : c + 1 \in 1 .. DivCeil(outer_size, RowsPerPiece) => s1[c + 1] = piece(c + 1 - 1)
    BY DEF List
  <2>2. \A c \in Nat : c + 1 - 1 = c
    OBVIOUS
  <2> HIDE DEF s1
  <2>3. \A c \in Nat : c + 1 \in 1 .. DivCeil(outer_size, RowsPerPiece) =>
          Within(s1[c + 1], c * RowsPerPiece, RowsPerPiece)
    BY <1>3, <2>1, <2>2
  <2> QED  BY <1>2, <2>1, <2>3, ChunkedCall
<1>6. SafeStage(s2)
  <2> DEFINE m == DivCeil(outer_size * inner_size, inner_size)
  <2>1. List(s2, m) /\ \A c \in Nat : c + 1 \in 1 .. m => s2[c + 1] = block(c + 1 - 1)
    BY DEF List
  <2>2. \A c \in Nat : c + 1 - 1 = c
    OBVIOUS
  <2> HIDE DEF s2
  <2>3. \A c \in Nat : c + 1 \in 1 .. m => Within(s2[c + 1], c * inner_size, inner_size)
    BY <1>4, <2>1, <2>2
  <2> QED  BY <1>2, <2>1, <2>3, ChunkedCall
<1> HIDE DEF s1, s2
<1> QED  BY <1>1, <1>5, <1>6, StageSafe

-----------------------------------------------------------------------------
(* Convolutions                                                            *)

ConvShape(c) ==
  /\ {c.batch, c.out_channels} \subseteq Nat \ {0}
  /\ {c.length, c.out_length, c.kernel_size, c.stride, c.padding, c.in_channels} \subseteq Nat

(* The taps of a channel write the rows of that channel only.              *)
OfChannel(piece, o, oc, ol) ==
  \A p \in piece : \E b \in Nat, l \in Below(ol) : p[1] = (b * oc + o) * ol + l

LEMMA ChannelsApart ==
  ASSUME NEW oc \in Nat, NEW ol \in Nat, NEW o \in Below(oc), NEW r \in Below(oc), o # r,
         NEW P, OfChannel(P, o, oc, ol), NEW Q, OfChannel(Q, r, oc, ol)
  PROVE  Places(P) \cap Places(Q) = {}
<1> SUFFICES ASSUME NEW p \in P, NEW q \in Q, p[1] = q[1] PROVE FALSE
  BY DEF Places
<1>1. PICK b \in Nat, l \in Below(ol) : p[1] = (b * oc + o) * ol + l
  BY DEF OfChannel
<1>2. PICK e \in Nat, k \in Below(ol) : q[1] = (e * oc + r) * ol + k
  BY DEF OfChannel
<1> DEFINE x == b * oc + o
           y == e * oc + r
<1>3. /\ x \in Int /\ y \in Int /\ l \in Int /\ 0 <= l /\ l < ol /\ k \in Int /\ 0 <= k /\ k < ol
      /\ x * ol + l = y * ol + k
  <2>1. b * oc \in Int /\ e * oc \in Int /\ o \in Int /\ r \in Int
    BY DEF Below
  <2>2. x \in Int /\ y \in Int
    BY <2>1
  <2>3. /\ l \in Int /\ 0 <= l /\ l < ol /\ k \in Int /\ 0 <= k /\ k < ol
    BY DEF Below
  <2>4. x * ol + l = y * ol + k
    BY <1>1, <1>2, Zenon
  <2> QED  BY <2>2, <2>3, <2>4
<1> HIDE DEF x, y
<1>4. x = y
  BY <1>3, RowsDiffer
<1>5. b * oc + o = e * oc + r
  BY <1>4 DEF x, y
<1>6. /\ b \in Int /\ e \in Int /\ o \in Int /\ 0 <= o /\ o < oc /\ r \in Int /\ 0 <= r /\ r < oc
  BY DEF Below
<1>7. o = r
  BY <1>5, <1>6, RowsDiffer
<1> QED  BY <1>7

LEMMA Conv1dDirectSafe ==
  ASSUME NEW c, ConvShape(c)
  PROVE  SafeStages(conv1d_direct(c))
<1> DEFINE per == c.in_channels \div c.groups
           inside(k) == {x \in Below(c.batch) \X Below(c.out_length) \X Below(per) :
                           LET src_l == x[2] * c.stride + k * c.dilation
                           IN src_l >= c.padding /\ src_l < c.padding + c.length}
           g(o) == o \div (c.out_channels \div c.groups)
           term(k, o, x) == <<(x[1] * c.in_channels + g(o) * per + x[3]) * c.length
                                + (x[2] * c.stride + k * c.dilation - c.padding),
                              (o * per + x[3]) * c.kernel_size + k>>
           tap(k, o) == {<<(x[1] * c.out_channels + o) * c.out_length + x[2], term(k, o, x)>> :
                           x \in inside(k)}
           stage(k) == [o \in 1 .. c.out_channels |-> tap(k - 1, o - 1)]
           taps == [k \in 1 .. c.kernel_size |-> stage(k)]
           zeros == {<<i, Zero>> : i \in Below(c.batch * c.out_channels * c.out_length)}
<1>1. conv1d_direct(c) = << <<zeros>> >> \o taps
  BY DEF conv1d_direct
<1>2. c.batch \in Nat /\ c.out_channels \in Nat /\ c.out_length \in Nat /\ c.kernel_size \in Nat
  BY DEF ConvShape
<1>3. ASSUME NEW k, NEW o
      PROVE  OfChannel(tap(k, o), o, c.out_channels, c.out_length)
  <2> SUFFICES ASSUME NEW p \in tap(k, o)
               PROVE  \E b \in Nat, l \in Below(c.out_length) :
                        p[1] = (b * c.out_channels + o) * c.out_length + l
    BY DEF OfChannel
  <2>1. \A x \in inside(k) : x[1] \in Below(c.batch) /\ x[2] \in Below(c.out_length)
    OBVIOUS
  <2> HIDE DEF term, inside
  <2>2. PICK x \in inside(k) : p[1] = (x[1] * c.out_channels + o) * c.out_length + x[2]
    OBVIOUS
  <2>3. x[1] \in Nat /\ x[2] \in Below(c.out_length)
    BY <1>2, <2>1 DEF Below
  <2> QED  BY <2>2, <2>3
<1> HIDE DEF tap, zeros
<1>4. ASSUME NEW k \in 1 .. c.kernel_size PROVE SafeStage(stage(k))
  <2>1. List(stage(k), c.out_channels) /\ \A o \in 1 .. c.out_channels : stage(k)[o] = tap(k - 1, o - 1)
    BY DEF List
  <2> HIDE DEF stage
  <2>2. ASSUME NEW o \in 1 .. c.out_channels, NEW r \in 1 .. c.out_channels, o # r
        PROVE  Places(stage(k)[o]) \cap Places(stage(k)[r]) = {}
    <3>1. o - 1 \in Below(c.out_channels) /\ r - 1 \in Below(c.out_channels) /\ o - 1 # r - 1
      BY <1>2, <2>2 DEF Below
    <3>2. /\ OfChannel(stage(k)[o], o - 1, c.out_channels, c.out_length)
          /\ OfChannel(stage(k)[r], r - 1, c.out_channels, c.out_length)
      BY <1>3, <2>1
    <3> QED  BY <1>2, <3>1, <3>2, ChannelsApart
  <2>3. c.out_channels \in Int
    BY <1>2
  <2> QED  BY <2>1, <2>2, <2>3, ListSafe
<1>5. List(taps, c.kernel_size) /\ \A k \in 1 .. c.kernel_size : taps[k] = stage(k)
  BY DEF List
<1> HIDE DEF taps, stage
<1>6. SafeStages(taps)
  <2>1. c.kernel_size \in Int
    BY <1>2
  <2> QED  BY <1>4, <1>5, <2>1, ManyStagesSafe
<1>7. SafeStages(<< <<zeros>> >>)
  BY OnePieceSafe, OneStageSafe
<1> QED  BY <1>1, <1>6, <1>7, ConcatSafe

LEMMA Conv1dSafe ==
  ASSUME NEW c, ConvShape(c), NEW worth, conv1d(c, worth)
  PROVE  SafeStages(stages')
<1> DEFINE ss == gemm_(ConvGemm(c), worth)
           swapped == [i \in DOMAIN ss |-> [j \in DOMAIN ss[i] |->
                         {<<p[1], <<p[2][2], p[2][1]>>>> : p \in ss[i][j]}]]
           through == ThroughColumns(c, im2col1d(c), ss)
<1>1. \/ stages' = WithPieces(conv1d_direct(c))
      \/ stages' = WithPieces(swapped)
      \/ stages' = WithPieces(through)
  BY DEF conv1d, Call
<1>2. SafeStages(ss)
  <2>1. RowMajorProduct(ConvGemm(c))
    <3>1. /\ c.batch \in Nat /\ c.out_channels \in Nat /\ c.out_length \in Nat
      BY DEF ConvShape
    <3> DEFINE k == c.in_channels * c.kernel_size
               g == Plain(c.batch, c.out_channels, c.out_length, k)
    <3>2. RowMajorProduct(g)
      BY <3>1, PlainRowMajor
    <3>3. ConvGemm(c) = [g EXCEPT !.lhs_b = 0]
      BY DEF ConvGemm
    <3>4. ConvGemm(c).batch = g.batch /\ ConvGemm(c).m = g.m /\ ConvGemm(c).n = g.n
          /\ ConvGemm(c).dst_cs = g.dst_cs /\ ConvGemm(c).dst_rs = g.dst_rs
      BY <3>3 DEF Plain
    <3> QED  BY <3>2, <3>4 DEF RowMajorProduct
  <2> QED  BY <2>1, GemmSafe
<1> HIDE DEF ss
<1>3. SafeStages(swapped)
  <2>1. /\ swapped = [i \in DOMAIN ss |-> swapped[i]]
        /\ \A i \in DOMAIN ss :
             /\ swapped[i] = [j \in DOMAIN ss[i] |-> swapped[i][j]]
             /\ \A j \in DOMAIN ss[i] :
                  swapped[i][j] = {<<p[1], <<p[2][2], p[2][1]>>>> : p \in ss[i][j]}
    OBVIOUS
  <2> HIDE DEF swapped
  <2>2. \A i \in DOMAIN ss : \A j \in DOMAIN ss[i] : Places(swapped[i][j]) \subseteq Places(ss[i][j])
    BY <2>1 DEF Places
  <2>3. \A i \in DOMAIN ss :
          /\ swapped[i] = [j \in DOMAIN ss[i] |-> swapped[i][j]]
          /\ \A j \in DOMAIN ss[i] : Places(swapped[i][j]) \subseteq Places(ss[i][j])
    BY <2>1, <2>2
  <2>4. swapped = [i \in DOMAIN ss |-> swapped[i]]
    BY <2>1
  <2> QED  BY <1>2, <2>3, <2>4, SamePlacesSafe
<1>4. SafeStages(through)
  <2> DEFINE col == im2col1d(c)
             term(t) ==
               LET idx == Index(<<c.batch, c.in_channels, c.kernel_size, c.out_length>>, t[2])
                   place == col[idx[1], idx[2], idx[3], idx[4]]
               IN IF place = Outside THEN Zero ELSE <<place, t[1]>>
  <2>0. through = [i \in DOMAIN ss |-> [j \in DOMAIN ss[i] |-> {<<p[1], term(p[2])>> : p \in ss[i][j]}]]
    BY DEF ThroughColumns
  <2> HIDE DEF term, through
  <2>1. /\ through = [i \in DOMAIN ss |-> through[i]]
        /\ \A i \in DOMAIN ss :
             /\ through[i] = [j \in DOMAIN ss[i] |-> through[i][j]]
             /\ \A j \in DOMAIN ss[i] :
                  through[i][j] = {<<p[1], term(p[2])>> : p \in ss[i][j]}
    BY <2>0
  <2>2. \A i \in DOMAIN ss : \A j \in DOMAIN ss[i] : Places(through[i][j]) \subseteq Places(ss[i][j])
    BY <2>1 DEF Places
  <2>3. \A i \in DOMAIN ss :
          /\ through[i] = [j \in DOMAIN ss[i] |-> through[i][j]]
          /\ \A j \in DOMAIN ss[i] : Places(through[i][j]) \subseteq Places(ss[i][j])
    BY <2>1, <2>2
  <2>4. through = [i \in DOMAIN ss |-> through[i]]
    BY <2>1
  <2> QED  BY <1>2, <2>3, <2>4, SamePlacesSafe
<1>5. SafeStages(conv1d_direct(c))
  BY Conv1dDirectSafe
<1> QED  BY <1>1, <1>3, <1>4, <1>5, WithPiecesSafe

LEMMA TapsInside ==
  ASSUME NEW c, ConvShape(c), NEW start \in Int, NEW k \in Taps(start, c)
  PROVE  start + k \in Below(c.out_length)
<1>1. c.out_length \in Nat /\ c.kernel_size \in Nat
  BY DEF ConvShape
<1> DEFINE ol == c.out_length
           n == c.kernel_size
           k0 == Least(IF start < 0 THEN 0 - start ELSE 0, n)
           rest == IF ol - start < k0 THEN k0 ELSE ol - start
<1>2. k \in k0 .. Least(rest, n) - 1 /\ ol \in Nat /\ n \in Nat
  BY <1>1 DEF Taps
<1> HIDE DEF ol, n
<1>3. k0 \in Int /\ rest \in Int /\ (start < 0 => k0 = 0 - start \/ k0 = n) /\ (~(start < 0) => k0 = 0)
  BY <1>2 DEF Least
<1>4. k \in Int /\ k0 <= k /\ k < rest /\ k < n
  BY <1>2, <1>3 DEF Least
<1>5. k < ol - start
  BY <1>2, <1>3, <1>4
<1>6. 0 <= start + k
  BY <1>2, <1>3, <1>4
<1> QED  BY <1>2, <1>4, <1>5, <1>6 DEF Below, ol

LEMMA AccumulateRows ==
  ASSUME NEW c, ConvShape(c), NEW r0, NEW rows, NEW a \in accumulate(c, r0, rows)
  PROVE  \E r \in r0 .. r0 + rows - 1, l \in Below(c.out_length) : a[1] = r * c.out_length + l
<1> DEFINE R == {x \in r0 .. r0 + rows - 1 : x < c.batch * c.out_channels}
           first(r) == BlockStart(c, r0, r)
           base(r, l) == (((first(r) \div c.out_channels) * c.length + l) * c.out_channels
                         + (first(r) % c.out_channels)) * c.kernel_size
           from(r, l, k) == base(r, l) + (r - first(r)) * c.kernel_size + k
           start(l) == l * c.stride - c.padding
           row(r, l) == {<<r * c.out_length + start(l) + k, from(r, l, k)>> : k \in Taps(start(l), c)}
           rowsOf(r) == UNION {row(r, l) : l \in Below(c.length)}
<1>1. accumulate(c, r0, rows) = UNION {rowsOf(r) : r \in R}
  BY DEF accumulate
<1> HIDE DEF rowsOf
<1>2. PICK r \in R : a \in rowsOf(r)
  BY <1>1
<1> HIDE DEF row
<1>3. PICK l \in Below(c.length) : a \in row(r, l)
  BY <1>2 DEF rowsOf
<1>4. r \in r0 .. r0 + rows - 1
  BY <1>2
<1> HIDE DEF from, R
<1>5. PICK k \in Taps(start(l), c) : a[1] = r * c.out_length + start(l) + k
  BY <1>3 DEF row
<1>6. start(l) \in Int
  BY DEF ConvShape, Below
<1> HIDE DEF start
<1>7. start(l) + k \in Below(c.out_length)
  BY <1>6, TapsInside
<1>8. a[1] = r * c.out_length + (start(l) + k)
  <2>1. k \in Int /\ r \in Int /\ c.out_length \in Int
    BY <1>4, <1>6 DEF ConvShape, Taps, Least
  <2> QED  BY <1>5, <1>6, <2>1
<1> QED  BY <1>4, <1>7, <1>8

LEMMA Col2ImSafe ==
  ASSUME NEW c, ConvShape(c), NEW col, NEW parallel
  PROVE  SafeStages(col2im1d(c, col, parallel))
<1> DEFINE rows == c.batch * c.out_channels
           per == IF parallel THEN DivCeil(rows, PoolSize) ELSE rows
           ol == c.out_length
           zeros(i) == {<<r * ol + l, Zero>> : r \in {x \in i * per .. i * per + per - 1 : x < rows},
                                               l \in Below(ol)}
           sums(i) == UNION {{<<a[1], p[2]>> : p \in {q \in col : q[1] = a[2]}} :
                               a \in accumulate(c, i * per, per)}
           piece(i) == zeros(i) \cup sums(i)
           m == DivCeil(rows, per)
           stage == [k \in 1 .. m |-> piece(k - 1)]
<1>1. col2im1d(c, col, parallel) = <<stage>>
  BY DEF col2im1d, Chunks
<1>2. ol \in Nat /\ rows \in Nat \ {0}
  BY ProductPositive DEF ConvShape
<1>3. per \in Nat \ {0}
  <2> HIDE DEF rows
  <2>1. DivCeil(rows, PoolSize) \in Nat \ {0}
    BY <1>2, Constants, SMTT(30) DEF DivCeil
  <2> QED  BY <1>2, <2>1
<1>4. m \in Int
  BY <1>2, <1>3, DivCeilType
<1> HIDE DEF per, rows, m, ol
<1>5. ASSUME NEW i \in Nat, NEW p \in piece(i)
      PROVE  \E r \in i * per .. i * per + per - 1, l \in Below(ol) : p[1] = r * ol + l
  <2>1. CASE p \in zeros(i)
    BY <2>1
  <2>2. CASE p \in sums(i)
    <3>1. PICK a \in accumulate(c, i * per, per) : p[1] = a[1]
      BY <2>2
    <3> QED  BY <3>1, AccumulateRows DEF ol
  <2> QED  BY <2>1, <2>2
<1> HIDE DEF piece
<1>6. ASSUME NEW i \in Nat
      PROVE  Within(piece(i), i * (per * ol), per * ol)
  <2> SUFFICES ASSUME NEW p \in piece(i)
               PROVE  \E j \in Below(per * ol) : p[1] = i * (per * ol) + j
    <3> DEFINE n == per * ol
    <3>1. n \in Nat
      BY <1>2, <1>3
    <3> HIDE DEF n
    <3> SUFFICES ASSUME \A p \in piece(i) : \E j \in Below(n) : p[1] = i * n + j
                 PROVE  Within(piece(i), i * n, n)
      BY DEF n
    <3> QED  BY <3>1, WithinRow
  <2>1. PICK r \in i * per .. i * per + per - 1, l \in Below(ol) : p[1] = r * ol + l
    BY <1>5
  <2> DEFINE x == r - i * per
             j == x * ol + l
  <2>2. /\ r \in Int /\ i * per \in Int /\ l \in Int /\ 0 <= l /\ l < ol
        /\ x \in Int /\ 0 <= x /\ x < per
    BY <1>2, <1>3 DEF Below
  <2>3. p[1] = i * (per * ol) + j
    <3>1. r = i * per + x
      BY <2>2
    <3> HIDE DEF x
    <3>2. (i * per + x) * ol = i * (per * ol) + x * ol
      BY <1>2, <1>3, <2>2
    <3> DEFINE u == i * (per * ol)
               v == x * ol
    <3>3. u \in Int /\ v \in Int /\ p[1] = u + v + l
      BY <1>2, <1>3, <2>1, <2>2, <3>1, <3>2
    <3> QED  BY <2>2, <3>3
  <2> HIDE DEF x
  <2>4. j \in Int /\ 0 <= j /\ j < per * ol
    BY <1>2, <1>3, <2>2, RowBound
  <2>5. j \in Below(per * ol)
    <3> DEFINE n == per * ol
    <3>1. n \in Int /\ j < n
      BY <1>2, <1>3, <2>4
    <3> HIDE DEF n, j
    <3>2. j \in Below(n)
      BY <2>4, <3>1 DEF Below
    <3> QED  BY <3>2 DEF n
  <2> QED  BY <2>3, <2>5
<1>7. List(stage, m) /\ \A k \in 1 .. m : stage[k] = piece(k - 1)
  BY DEF List
<1> HIDE DEF stage
<1>8. Chunked(stage, m, 0, per * ol)
  <2> DEFINE n == per * ol
  <2>1. n \in Nat
    BY <1>2, <1>3
  <2>2. \A i \in Nat : Within(piece(i), i * n, n)
    BY <1>6
  <2> HIDE DEF n
  <2>3. ASSUME NEW k \in 1 .. m PROVE Within(stage[k], 0 + (k - 1) * n, n)
    <3>1. k - 1 \in Nat /\ 0 + (k - 1) * n = (k - 1) * n
      BY <1>4, <2>1
    <3> QED  BY <1>7, <2>2, <3>1
  <2>4. Chunked(stage, m, 0, n)
    BY <1>7, <2>3 DEF Chunked
  <2> QED  BY <2>4 DEF n
<1>9. per * ol \in Nat
  BY <1>2, <1>3
<1> QED  BY <1>1, <1>4, <1>8, <1>9, ChunksSafe, OneStageSafe

LEMMA TransposeDirectSafe ==
  ASSUME NEW c, ConvShape(c)
  PROVE  SafeStages(conv_transpose1d_direct(c))
<1> DEFINE per == c.in_channels \div c.groups
           out_per == c.out_channels \div c.groups
           ol == c.out_length
           b(bc) == bc \div c.out_channels
           out_c(bc) == bc % c.out_channels
           in_start(bc) == (out_c(bc) \div out_per) * per
           k_base(bc) == (in_start(bc) * out_per + (out_c(bc) % out_per)) * c.kernel_size
           t1(bc, il, k) == <<(b(bc) * c.in_channels + in_start(bc)) * c.length + il, k_base(bc) + k>>
           start(il) == il * c.stride - c.padding
           row(bc, il) == {<<bc * ol + il * c.stride - c.padding + k, t1(bc, il, k)>> :
                             k \in Taps(start(il), c)}
           depthwise(bc) == UNION {row(bc, il) : il \in Below(c.length)}
           reached == {x \in Below(c.length) \X Below(c.kernel_size) :
                         x[1] * c.stride + x[2] \in c.padding .. ol + c.padding - 1}
           t2(bc, x, ic) == <<(b(bc) * c.in_channels + in_start(bc) + ic) * c.length + x[1],
                              k_base(bc) + ic * out_per * c.kernel_size + x[2]>>
           general(bc) == {<<bc * ol + x[1] * c.stride + x[2] - c.padding, t2(bc, x, ic)>> :
                             x \in reached, ic \in Below(per)}
           piece(bc) == IF per = 1 THEN depthwise(bc) ELSE general(bc)
           n == c.batch * c.out_channels
           m == DivCeil(n, 1)
           stage == [k \in 1 .. m |-> piece(k - 1)]
           zeros == {<<i, Zero>> : i \in Below(c.batch * c.out_channels * c.out_length)}
<1>1. conv_transpose1d_direct(c) = << <<zeros>>, stage >>
  BY DEF conv_transpose1d_direct, Chunks
<1>2. ol \in Nat /\ c.stride \in Nat /\ c.padding \in Nat /\ n \in Int
  <2>1. c.batch \in Nat /\ c.out_channels \in Nat
    BY DEF ConvShape
  <2> QED  BY <2>1 DEF ConvShape
<1> HIDE DEF t1, t2, zeros, n
<1>3. ASSUME NEW bc \in Nat, NEW p \in depthwise(bc)
      PROVE  \E j \in Below(ol) : p[1] = bc * ol + j
  <2>1. PICK il \in Below(c.length) : p \in row(bc, il)
    BY <1>3
  <2>2. PICK k \in Taps(start(il), c) : p[1] = bc * ol + il * c.stride - c.padding + k
    BY <2>1
  <2>3. il \in Int /\ il * c.stride \in Int /\ start(il) \in Int
    BY <1>2 DEF Below
  <2>4. start(il) + k \in Below(ol)
    <3> HIDE DEF start
    <3> QED  BY <2>3, TapsInside
  <2>5. k \in Int
    BY <2>3 DEF Taps, Least, ConvShape
  <2> DEFINE f == bc * ol
             e == il * c.stride
  <2>6. f \in Int /\ e \in Int /\ p[1] = f + e - c.padding + k
    BY <1>2, <2>2, <2>3
  <2>7. start(il) + k = e - c.padding + k
    OBVIOUS
  <2> HIDE DEF f, e, start
  <2>8. p[1] = f + (e - c.padding + k)
    BY <1>2, <2>5, <2>6
  <2> QED  BY <2>4, <2>7, <2>8 DEF f
<1>4. ASSUME NEW bc \in Nat, NEW p \in general(bc)
      PROVE  \E j \in Below(ol) : p[1] = bc * ol + j
  <2>1. PICK x \in reached : p[1] = bc * ol + x[1] * c.stride + x[2] - c.padding
    BY <1>4
  <2>2. x[1] \in Below(c.length) /\ x[2] \in Below(c.kernel_size)
    OBVIOUS
  <2>3. x[1] * c.stride + x[2] \in c.padding .. ol + c.padding - 1
    OBVIOUS
  <2> HIDE DEF reached
  <2> DEFINE f == bc * ol
             e == x[1] * c.stride
             k == x[2]
  <2>4. f \in Int /\ e \in Int /\ k \in Int
    BY <1>2, <2>2 DEF Below
  <2>5. p[1] = f + e + k - c.padding /\ e + k \in c.padding .. ol + c.padding - 1
    BY <2>1, <2>3
  <2> HIDE DEF f, e, k, ol
  <2>6. e + k - c.padding \in Below(ol) /\ p[1] = f + (e + k - c.padding)
    BY <1>2, <2>4, <2>5 DEF Below
  <2> QED  BY <2>6 DEF f
<1> HIDE DEF depthwise, general
<1>5. ASSUME NEW bc \in Nat PROVE Within(piece(bc), bc * ol, ol)
  <2>1. \A p \in piece(bc) : \E j \in Below(ol) : p[1] = bc * ol + j
    BY <1>3, <1>4
  <2> HIDE DEF piece, ol
  <2> QED  BY <1>2, <2>1, WithinRow
<1>6. List(stage, m) /\ \A k \in 1 .. m : stage[k] = piece(k - 1)
  BY DEF List
<1>7. m \in Int
  BY <1>2, DivCeilType
<1> HIDE DEF stage, m, piece, ol
<1>8. Chunked(stage, m, 0, ol)
  <2>1. ASSUME NEW k \in 1 .. m PROVE Within(stage[k], 0 + (k - 1) * ol, ol)
    <3>1. k - 1 \in Nat /\ 0 + (k - 1) * ol = (k - 1) * ol
      BY <1>2, <1>7
    <3> QED  BY <1>5, <1>6, <3>1
  <2> QED  BY <1>6, <2>1 DEF Chunked
<1>9. SafeStage(stage)
  BY <1>2, <1>7, <1>8, ChunksSafe
<1> QED  BY <1>1, <1>9, OnePieceSafe, TwoStagesSafe

LEMMA ConvTransposeSafe ==
  ASSUME NEW c, ConvShape(c), NEW parallel, conv_transpose1d(c, parallel)
  PROVE  SafeStages(stages')
<1>1. \/ stages' = WithPieces(conv_transpose1d_direct(c))
      \/ \E col : stages' = WithPieces(col2im1d(c, col, parallel))
  BY DEF conv_transpose1d, Call
<1> QED  BY <1>1, TransposeDirectSafe, Col2ImSafe, WithPiecesSafe

-----------------------------------------------------------------------------
(* Attention                                                               *)

LEMMA DecodeSafe ==
  ASSUME NEW b \in Nat, NEW h \in Nat, NEW d \in Nat \ {0}, NEW kv, NEW rows,
         NEW scores, NEW masks, NEW m_bs, sdpa_decode(b, h, d, kv, rows, scores, masks, m_bs)
  PROVE  SafeStages(stages')
<1> DEFINE hd == h * d
           score(bi, hh, j) == IF m_bs * bi + j \in masks THEN Masked ELSE (scores[j] + hh) % 3
           line(bi, hh) == [j \in 1 .. kv |-> score(bi, hh, j)]
           seen(idx) == {i \in 1 .. kv : score(idx \div h, idx % h, i) # Masked}
           term(idx, e, j) ==
             <<(idx \div h) * rows * hd + (idx % h) * d + (j - 1) * hd + e,
               Online(line(idx \div h, idx % h)).weights[j], Online(line(idx \div h, idx % h)).denom>>
           head(idx) == {<<idx * d + e, term(idx, e, j)>> : e \in Below(d), j \in seen(idx)}
           m == DivCeil(b * hd, d)
           stage == [c \in 1 .. m |-> head(c - 1)]
<1>1. stages' = WithPieces(<<stage>>)
  BY DEF sdpa_decode, Call, Chunks
<1> HIDE DEF term, seen
<1>2. ASSUME NEW idx \in Nat PROVE Within(head(idx), idx * d, d)
  <2>1. \A p \in head(idx) : \E e \in Below(d) : p[1] = idx * d + e
    OBVIOUS
  <2> HIDE DEF head
  <2> QED  BY <2>1, WithinRow
<1> HIDE DEF head
<1>3. List(stage, m) /\ \A c \in Nat : c + 1 \in 1 .. m => stage[c + 1] = head(c + 1 - 1)
  BY DEF List
<1> HIDE DEF stage
<1>4. \A c \in Nat : c + 1 \in 1 .. m => Within(stage[c + 1], c * d, d)
  <2>1. \A c \in Nat : c + 1 - 1 = c
    OBVIOUS
  <2> QED  BY <1>2, <1>3, <2>1
<1>5. SafeStage(stage)
  <2>1. b * hd \in Int
    OBVIOUS
  <2> QED  BY <1>3, <1>4, <2>1, ChunkedCall
<1> QED  BY <1>1, <1>5, StageSafe

-----------------------------------------------------------------------------
(* Every call leaves stages of pieces that write apart, and they stay so   *)
(* while pieces run.                                                       *)
LEMMA CopyCallSafe == CopyCall => SafeStages(stages')
<1> SUFFICES ASSUME CopyCall PROVE SafeStages(stages')
  OBVIOUS
<1>1. PICK d \in Shapes :
        \/ \E dim1, dim2 \in DOMAIN d : transpose(d, dim1, dim2)
        \/ \E s \in [DOMAIN d -> Strides], parallel \in BOOLEAN : copy_strided(5, d, s, parallel)
  BY DEF CopyCall
<1> QED  BY <1>1, TransposeSafe, CopyStridedSafe

LEMMA SliceCallSafe == SliceCall => SafeStages(stages')
<1> SUFFICES ASSUME SliceCall PROVE SafeStages(stages')
  OBVIOUS
<1>0. PICK d \in Shapes : \E dim \in DOMAIN d :
        \/ \E sizes \in {<<d[dim]>>, <<1, d[dim]>>, <<2, 0, 1>>} : cat(d, dim, sizes)
        \/ \E left_by, right_by \in {0, 2} :
             pad_with_zeros(d, dim, left_by, right_by) \/ pad_with_same(d, dim, left_by, right_by)
        \/ \E offset : slice_set(d, dim, d[dim] + 2, offset)
        \/ \E ids : index_select(d, dim, ids)
        \/ \E ids : scatter_set(d, dim, 3, ids)
  BY Zenon DEF SliceCall
<1>1. PICK dim \in DOMAIN d :
        \/ \E sizes \in {<<d[dim]>>, <<1, d[dim]>>, <<2, 0, 1>>} : cat(d, dim, sizes)
        \/ \E left_by, right_by \in {0, 2} :
             pad_with_zeros(d, dim, left_by, right_by) \/ pad_with_same(d, dim, left_by, right_by)
        \/ \E offset : slice_set(d, dim, d[dim] + 2, offset)
        \/ \E ids : index_select(d, dim, ids)
        \/ \E ids : scatter_set(d, dim, 3, ids)
  BY <1>0
<1>2. CASE \E sizes \in {<<d[dim]>>, <<1, d[dim]>>, <<2, 0, 1>>} : cat(d, dim, sizes)
  <2>1. d[dim] \in Nat
    BY RowsOf
  <2>2. {<<d[dim]>>, <<1, d[dim]>>, <<2, 0, 1>>} \subseteq Seq(Nat)
    BY <2>1
  <2> QED  BY <1>2, <2>2, CatSafe
<1>3. CASE \E left_by, right_by \in {0, 2} :
             pad_with_zeros(d, dim, left_by, right_by) \/ pad_with_same(d, dim, left_by, right_by)
  <2>1. {0, 2} \subseteq Nat
    OBVIOUS
  <2> QED  BY <1>3, <2>1, OnePieceKernels, PadWithSameSafe
<1>4. CASE \/ \E offset : slice_set(d, dim, d[dim] + 2, offset)
           \/ \E ids : index_select(d, dim, ids)
           \/ \E ids : scatter_set(d, dim, 3, ids)
  BY <1>4, OnePieceKernels
<1> QED  BY <1>1, <1>2, <1>3, <1>4

LEMMA RopeCallSafe == RopeCall => SafeStages(stages')
<1> SUFFICES ASSUME NEW b \in {1, 2}, NEW h \in {1, 2}, NEW t \in {1, 3}, NEW max_pos \in {1, 3},
                    NEW d \in {2, 4}, NEW pos \in 0 .. 1, NEW batched \in BOOLEAN,
                    \/ rope(b, h, t, d, pos, batched, max_pos)
                    \/ rope_i(b, h, t, d, pos, batched, max_pos)
             PROVE  SafeStages(stages')
  BY DEF RopeCall
<1>1. t \in Nat \ {0} /\ d \in Nat \ {0} /\ b * h * t * d \in Int
  OBVIOUS
<1> QED  BY <1>1, RopeSafe

LEMMA ProductCallSafe == ProductCall => SafeStages(stages')
<1> SUFFICES ASSUME ProductCall PROVE SafeStages(stages')
  OBVIOUS
<1>1. CASE \E m, n \in {1, 4, 7}, worth \in BOOLEAN : gemm(2, m, n, 2, worth)
  <2>1. PICK m \in {1, 4, 7}, n \in {1, 4, 7}, worth \in BOOLEAN : gemm(2, m, n, 2, worth)
    BY <1>1
  <2>2. m \in Nat /\ n \in Nat /\ 2 \in Nat
    OBVIOUS
  <2> QED  BY <2>1, <2>2, ProductSafe
<1>2. CASE \E kv, scores, masks, m_bs : sdpa_decode(2, 2, 2, kv, 3, scores, masks, m_bs)
  <2>1. PICK kv, scores, masks, m_bs : sdpa_decode(2, 2, 2, kv, 3, scores, masks, m_bs)
    BY <1>2
  <2>2. 2 \in Nat /\ 2 \in Nat \ {0}
    OBVIOUS
  <2> QED  BY <2>1, <2>2, DecodeSafe
<1> QED  BY <1>1, <1>2, Zenon DEF ProductCall

LEMMA ReduceCallSafe == ReduceCall => SafeStages(stages')
<1> SUFFICES ASSUME ReduceCall PROVE SafeStages(stages')
  OBVIOUS
<1>1. PICK dim_size \in 0 .. 2 * Lanes + 1, outer_size \in {1, 3}, inner_size \in 1 .. 2 :
        \/ reduce_combine(dim_size, outer_size, inner_size)
        \/ \E src : reduce_arg(src, 2, dim_size, outer_size, inner_size)
  BY Zenon DEF ReduceCall
<1>2. dim_size \in Nat /\ outer_size \in Nat /\ inner_size \in Nat \ {0}
  BY ComputeAssumption
<1> QED  BY <1>1, <1>2, ReduceCombineSafe, ReduceArgSafe

LEMMA ConvCallSafe == ConvCall => SafeStages(stages')
<1> SUFFICES ASSUME ConvCall PROVE SafeStages(stages')
  OBVIOUS
<1> DEFINE C == {<<2, 2, 1>>, <<2, 1, 2>>, <<1, 2, 2>>}
           S == {<<4, 3>>, <<1, 3>>, <<4, 1>>}
<1>1. PICK ch \in C, si \in S, st \in {1, 2}, pa \in 0 .. 1, ex \in 0 .. 1, parallel \in BOOLEAN :
        \/ /\ conv_reach(si, pa, ex) >= 0
           /\ conv1d(ConvOf(ch, si, st, pa, ex, conv_reach(si, pa, ex) \div st + 1), parallel)
        \/ /\ transpose_length(si, st, pa, ex) > 0
           /\ conv_transpose1d(ConvOf(ch, si, st, pa, ex, transpose_length(si, st, pa, ex)), parallel)
  BY DEF ConvCall
<1>2. /\ ch[1] \in 1 .. 2 /\ ch[2] \in 1 .. 2 /\ ch[3] \in 1 .. 2
      /\ si[1] \in 1 .. 4 /\ si[2] \in 1 .. 3
  OBVIOUS
<1> HIDE DEF C, S
<1>3. /\ ch[1] * ch[3] \in Nat /\ ch[2] * ch[3] \in Nat \ {0} /\ si[1] \in Nat /\ si[2] \in Nat
      /\ st \in Nat /\ pa \in Nat /\ 2 \in Nat \ {0}
  <2>1. ch[1] \in Nat \ {0} /\ ch[2] \in Nat \ {0} /\ ch[3] \in Nat \ {0}
    BY <1>2
  <2>2. ch[1] * ch[3] \in Nat \ {0} /\ ch[2] * ch[3] \in Nat \ {0}
    BY <2>1, ProductPositive
  <2>3. /\ si[1] \in Nat /\ si[2] \in Nat /\ st \in Nat /\ pa \in Nat /\ 2 \in Nat \ {0}
    BY <1>2
  <2> QED  BY <2>2, <2>3
<1>4. ASSUME NEW to \in Nat PROVE ConvShape(ConvOf(ch, si, st, pa, ex, to))
  BY <1>3 DEF ConvShape, ConvOf
<1>5. conv_reach(si, pa, ex) \in Int /\ transpose_length(si, st, pa, ex) \in Int
  <2>1. \A x, y \in Int : x * y \in Int
    OBVIOUS
  <2>2. (1 + ex) * (si[2] - 1) \in Int /\ (si[1] - 1) * st \in Int
    BY <1>2, <2>1
  <2> QED  BY <1>2, <2>2 DEF conv_reach, transpose_length
<1>6. conv_reach(si, pa, ex) >= 0 => conv_reach(si, pa, ex) \div st + 1 \in Nat
  BY <1>5
<1>7. transpose_length(si, st, pa, ex) > 0 => transpose_length(si, st, pa, ex) \in Nat
  BY <1>5
<1> QED  BY <1>1, <1>4, <1>6, <1>7, Conv1dSafe, ConvTransposeSafe

LEMMA BroadcastCallSafe == BroadcastCall => SafeStages(stages')
BY OnePieceKernels DEF BroadcastCall

KernelInv == SafeStages(stages)

LEMMA SafeInitially == KernelInit => KernelInv
<1> SUFFICES ASSUME KernelInit PROVE SafeStages(stages)
  BY DEF KernelInv
<1>1. stages = <<>>
  BY DEF KernelInit
<1>2. PICK U : U = {}
  OBVIOUS
<1>3. <<>> \in Seq(U)
  OBVIOUS
<1>4. \A u \in U : SafeStage(u)
  BY <1>2
<1>5. \E V : <<>> \in Seq(V) /\ \A u \in V : SafeStage(u)
  BY <1>3, <1>4
<1>6. SafeStages(<<>>)
  BY <1>5 DEF SafeStages
<1> QED  BY <1>1, <1>6

LEMMA SafeStays == KernelInv /\ [ComputeNext]_kernel_vars => KernelInv'
<1> SUFFICES ASSUME SafeStages(stages), [ComputeNext]_kernel_vars PROVE SafeStages(stages')
  BY DEF KernelInv
<1>1. CASE CopyCall \/ SliceCall \/ RopeCall \/ ProductCall \/ ReduceCall \/ BroadcastCall \/ ConvCall
  BY <1>1, CopyCallSafe, SliceCallSafe, RopeCallSafe, ProductCallSafe, ReduceCallSafe,
     BroadcastCallSafe, ConvCallSafe
<1>2. CASE RunSome
  BY <1>2, RunPieceSafe DEF RunSome
<1>3. CASE UNCHANGED kernel_vars
  BY <1>3 DEF kernel_vars
<1> QED  BY <1>1, <1>2, <1>3 DEF ComputeNext

LEMMA SafeApart == KernelInv => PiecesApart
<1> SUFFICES ASSUME SafeStages(stages), stages # <<>>
             PROVE  \A i, j \in DOMAIN Head(stages) :
                      i # j => Places(Head(stages)[i]) \cap Places(Head(stages)[j]) = {}
  BY DEF PiecesApart, KernelInv
<1>1. PICK U : stages \in Seq(U) /\ \A u \in U : SafeStage(u)
  BY DEF SafeStages
<1>2. Head(stages) \in U
  BY <1>1
<1> QED  BY <1>1, <1>2 DEF SafeStage, Apart

(* For tensors of any shapes and strides, any number of participants and   *)
(* any sizes of tiles, lanes and stripes: no two pieces that participants  *)
(* run at the same time write the same place of an output.                 *)
THEOREM KernelsWriteApart == ComputeSpec => []PiecesApart
<1>1. ComputeSpec => []KernelInv
  BY SafeInitially, SafeStays, PTL DEF ComputeSpec
<1> QED  BY <1>1, SafeApart, PTL

=============================================================================
