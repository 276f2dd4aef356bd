------------------------------ MODULE ParUnits ------------------------------
(***************************************************************************)
(* par_chunks_mut_by over par_units (xn-core/src/threadpool.rs): one call  *)
(* that cuts a slice of Length elements into pieces of Chunk and hands the *)
(* pieces out to the participants of a dispatch through a shared counter.  *)
(*                                                                         *)
(* The dispatch is used through what ForkJoin promises: the team is every  *)
(* participant or participant 0 alone, every member runs the closure once, *)
(* and the call returns when all of them have left it.                     *)
(***************************************************************************)
EXTENDS Naturals, Shape

CONSTANTS
  Length,     (* dst.len()                                                 *)
  Chunk,      (* elements of one piece                                     *)
  Nth         (* size(): participants of the pool                          *)

ASSUME ParAssumption == Length \in Nat /\ Chunk \in Nat \ {0} /\ Nth \in Nat \ {0}

Participants == 0 .. Nth - 1
Elements == 0 .. Length - 1

(* The number of pieces, and how many consecutive ones a fetch hands out.  *)
NChunks == DivCeil(Length, Chunk)
Batch == IF NChunks = 0 THEN 1 ELSE DivCeil(NChunks, Least(Nth * 8, NChunks))

(* The elements of piece c, a slice of dst that f(c, piece) may write.     *)
Piece(c) == {e \in Elements : c * Chunk <= e /\ e < (c + 1) * Chunk}

VARIABLES
  phase,      (* "idle", "open" while the team runs, "returned"            *)
  team,       (* the participants of the dispatch                          *)
  next,       (* the shared counter: the first piece not handed out        *)
  at, end,    (* the run of pieces [at, end) each participant still holds  *)
  left,       (* the participants that have left the closure               *)
  panic,      (* some f(c, piece) panicked                                 *)
  writes      (* history: how often each element was handed out            *)

vars == <<phase, team, next, at, end, left, panic, writes>>

TypeOK ==
  /\ phase \in {"idle", "open", "returned"}
  /\ team \subseteq Participants
  /\ next \in Nat
  /\ at \in [Participants -> 0 .. NChunks] /\ end \in [Participants -> 0 .. NChunks]
  /\ left \subseteq Participants
  /\ panic \in BOOLEAN
  /\ writes \in [Elements -> Nat]

Init ==
  /\ phase = "idle"
  /\ team = {} /\ left = {}
  /\ next = 0
  /\ at = [p \in Participants |-> 0] /\ end = [p \in Participants |-> 0]
  /\ panic = FALSE
  /\ writes = [e \in Elements |-> 0]

(* One piece, one thread, or work under the threshold (threads_for): the   *)
(* caller walks all the pieces itself and no counter is involved.          *)
StartInline ==
  /\ phase = "idle"
  /\ phase' = "open"
  /\ team' = {0}
  /\ next' = NChunks
  /\ end' = [end EXCEPT ![0] = NChunks]
  /\ UNCHANGED <<at, left, panic, writes>>

StartDispatch ==
  /\ phase = "idle"
  /\ NChunks > 1 /\ Nth > 1
  /\ phase' = "open"
  /\ team' \in {Participants, {0}}
  /\ UNCHANGED <<next, at, end, left, panic, writes>>

Inside(p) == phase = "open" /\ p \in team \ left

(* The counter is read, and bumped by a separate store.                    *)
FetchTorn(p) ==
  /\ Inside(p)
  /\ at[p] = end[p]
  /\ next < NChunks
  /\ at' = [at EXCEPT ![p] = next]
  /\ end' = [end EXCEPT ![p] = Least(next + Batch, NChunks)]
  /\ next' \in {next, next + Batch}
  /\ UNCHANGED <<phase, team, left, panic, writes>>

(* next.fetch_add(batch), and the run of pieces it hands out.              *)
Fetch(p) ==
  /\ Inside(p)
  /\ at[p] = end[p]
  /\ next < NChunks
  /\ at' = [at EXCEPT ![p] = next]
  /\ end' = [end EXCEPT ![p] = Least(next + Batch, NChunks)]
  /\ next' = next + Batch
  /\ UNCHANGED <<phase, team, left, panic, writes>>

(* The fetch that finds nothing left ends the participant's loop, though   *)
(* it has bumped the counter too.                                          *)
Finish(p) ==
  /\ Inside(p)
  /\ at[p] = end[p]
  /\ next >= NChunks
  /\ next' = next + Batch
  /\ left' = left \cup {p}
  /\ UNCHANGED <<phase, team, at, end, panic, writes>>

(* f(c, piece) for the next piece of the run; a panic ends the share and   *)
(* the rest of the run stays undone.                                       *)
DoPiece(p, panics) ==
  /\ Inside(p)
  /\ at[p] < end[p]
  /\ writes' = [e \in Elements |-> IF e \in Piece(at[p]) THEN writes[e] + 1 ELSE writes[e]]
  /\ at' = [at EXCEPT ![p] = @ + 1]
  /\ panic' = (panic \/ panics)
  /\ left' = IF panics THEN left \cup {p} ELSE left
  /\ UNCHANGED <<phase, team, next, end>>

(* The barrier of dispatch.                                                *)
ReturnEarly ==
  /\ phase = "open"
  /\ 0 \in left
  /\ phase' = "returned"
  /\ UNCHANGED <<team, next, at, end, left, panic, writes>>

Return ==
  /\ phase = "open"
  /\ left = team
  /\ phase' = "returned"
  /\ UNCHANGED <<team, next, at, end, left, panic, writes>>

Next ==
  \/ StartInline \/ StartDispatch \/ Return
  \/ \E p \in Participants :
       Fetch(p) \/ Finish(p) \/ \E panics \in BOOLEAN : DoPiece(p, panics)

Spec == Init /\ [][Next]_vars

-----------------------------------------------------------------------------
(* "Each index is handed to exactly one worker, so the pieces do not       *)
(* overlap": the slices two participants hold at the same time, or hold    *)
(* and have already written, share no element.                             *)
PiecesDisjoint ==
  /\ \A e \in Elements : writes[e] <= 1
  /\ \A p, q \in team : \A c \in at[p] .. end[p] - 1, d \in at[q] .. end[q] - 1 :
       p # q => Piece(c) \cap Piece(d) = {}

(* A call that returns without panicking has covered the whole slice, once *)
(* each, whatever the number of threads and however fast each one is.      *)
SliceCovered ==
  phase = "returned" /\ ~panic => \A e \in Elements : writes[e] = 1

=============================================================================
