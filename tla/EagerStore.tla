----------------------------- MODULE EagerStore -----------------------------
(***************************************************************************)
(* What a caller of the Backend trait (xn-core/src/backend.rs) may assume  *)
(* of tensor storage, whatever a backend batches or reuses behind it:      *)
(* every operation takes effect when it is called, and a readback returns  *)
(* the contents at the time it was asked for, or those of a write that was *)
(* then under way. The batching backends carry these variables along and   *)
(* are compared with them.                                                 *)
(***************************************************************************)
EXTENDS GpuCommands

CONSTANTS
  Tensors,    (* storages                                                  *)
  Threads,    (* callers, each with at most one operation under way        *)
  None        (* a storage that does not exist                             *)

VARIABLES
  val,        (* the contents each storage has, as its owner sees it       *)
  read        (* what the readback each thread waits for may return        *)

eager == <<val, read>>

EagerTypeOK ==
  /\ val \in [Tensors -> Contents \cup {None}]
  /\ read \in [Threads -> SUBSET Contents]

EagerInit ==
  /\ val = [t \in Tensors |-> None]
  /\ read = [th \in Threads |-> {}]

Live(t) == val[t] # None

(* alloc_uninit leaves the contents arbitrary, from_vec gives a vector's.  *)
Create(t, v) ==
  /\ val[t] = None
  /\ val' = [val EXCEPT ![t] = v]
  /\ UNCHANGED read

Put(t, v) ==
  /\ Live(t)
  /\ val' = [val EXCEPT ![t] = v]
  /\ UNCHANGED read

(* A kernel over storages takes effect on the contents they have now.      *)
Kernel(c) ==
  /\ Live(c.dst) /\ Live(c.src)
  /\ Put(c.dst, Result(val, c))

Discard(t) ==
  /\ Live(t)
  /\ val' = [val EXCEPT ![t] = None]
  /\ UNCHANGED read

Ask(th, t, overlapping) ==
  /\ Live(t) /\ read[th] = {}
  /\ read' = [read EXCEPT ![th] = {val[t]} \cup overlapping]
  /\ UNCHANGED val

Answered(th) ==
  /\ read' = [read EXCEPT ![th] = {}]
  /\ UNCHANGED val

(* A kernel that runs on the host stores what it makes of what it read     *)
(* back and, for one that does not overwrite its output, of that.          *)
PutRead(th, t, own) ==
  /\ Live(t)
  /\ \E v \in read[th] : val' = [val EXCEPT ![t] = Combine(own, v)]
  /\ read' = [read EXCEPT ![th] = {}]

=============================================================================
