----------------------------- MODULE TensorLocks -----------------------------
(***************************************************************************)
(* How operations on tensors share storage between threads                 *)
(* (xn-core/src/tensor.rs, inplace_ops.rs): a tensor is an Arc of a        *)
(* RwLock of its storage, clones and reshapes share it, and an operation   *)
(* takes the locks of its operands one after the other, computes, and lets *)
(* go of all of them. A kernel that panics while it writes poisons the     *)
(* lock of its output; taking a poisoned lock is an error.                 *)
(*                                                                         *)
(* Two tensors that share storage are the same here. The result of an      *)
(* out-of-place operation is a new storage, which nobody else can lock.    *)
(* The RwLock is that of the standard library: a reader waits while a      *)
(* writer holds the lock, and also while one is parked waiting for it.     *)
(***************************************************************************)
EXTENDS Naturals, FiniteSets, Sequences

CONSTANTS
  Threads,
  Storages,
  Ops           (* the locks of each operation that threads do             *)

Tensor == INSTANCE TensorOps
Read(s) == Tensor!Read(s)
Write(s) == Tensor!Write(s)
Drop == Tensor!Drop

Locks == [mode : {"read", "write"}, on : Storages]
Steps == Locks \cup {Drop}

ASSUME LocksAssumption == Storages \subseteq Nat /\ \A o \in Ops : o \in Seq(Steps)

(* Nothing in the code makes operations take the locks they hold together  *)
(* in one order. Those that happen to: what follows without a Drop between *)
(* is lower.                                                               *)
Together(o, i, j) == i < j /\ \A n \in i .. j : o[n] # Drop
Descends(o) == \A i, j \in DOMAIN o : Together(o, i, j) => o[j].on < o[i].on

-----------------------------------------------------------------------------
VARIABLES
  todo,         (* what each thread's operation still has to take and drop *)
  held,         (* guards each thread has                                  *)
  unordered,    (* history: threads whose operation does not descend       *)
  computing,    (* threads in a kernel                                     *)
  parked,       (* threads parked in a lock                                *)
  poisoned,     (* storages with a poisoned lock                           *)
  torn          (* storages that a kernel left half written                *)

lock_vars == <<todo, held, unordered, computing, parked, poisoned, torn>>

LocksTypeOK ==
  /\ todo \in [Threads -> Seq(Steps)]
  /\ held \in [Threads -> Seq(Locks)]
  /\ unordered \subseteq Threads
  /\ computing \subseteq Threads /\ parked \subseteq Threads \ computing
  /\ \A th \in parked : todo[th] # <<>>
  /\ poisoned \subseteq Storages /\ torn \subseteq Storages

LocksInit ==
  /\ todo = [th \in Threads |-> <<>>] /\ held = [th \in Threads |-> <<>>]
  /\ unordered = {} /\ computing = {} /\ parked = {}
  /\ poisoned = {} /\ torn = {}

Holds(th, lock) == \E i \in DOMAIN held[th] : held[th][i] = lock
Wants(th) == Head(todo[th])
Waiting(th) == th \in parked

(* Who keeps th from the lock it wants.                                    *)
Blockers(th) ==
  LET s == Wants(th).on
  IN {u \in Threads :
        \/ Holds(u, Write(s))
        \/ Wants(th).mode = "write" /\ Holds(u, Read(s))
        \/ Wants(th).mode = "read" /\ Waiting(u) /\ u # th /\ Wants(u) = Write(s)}

Asking(th) == todo[th] # <<>> /\ Wants(th) # Drop
Granted(th) == Asking(th) /\ Blockers(th) = {}
Idle(th) == todo[th] = <<>> /\ held[th] = <<>> /\ th \notin computing
Outputs(th) == {s \in Storages : Holds(th, Write(s))}

Release(th) ==
  /\ held' = [held EXCEPT ![th] = <<>>]
  /\ todo' = [todo EXCEPT ![th] = <<>>]
  /\ computing' = computing \ {th}
  /\ parked' = parked \ {th}
  /\ unordered' = unordered \ {th}

Start(th, o) ==
  /\ Idle(th)
  /\ o # <<>>
  /\ todo' = [todo EXCEPT ![th] = o]
  /\ unordered' = IF Descends(o) THEN unordered ELSE unordered \cup {th}
  /\ UNCHANGED <<held, computing, parked, poisoned, torn>>

Park(th) ==
  /\ Asking(th) /\ ~Waiting(th) /\ Blockers(th) # {}
  /\ parked' = parked \cup {th}
  /\ UNCHANGED <<todo, held, unordered, computing, poisoned, torn>>

(* The lock as PoisonError::into_inner would give it.                      *)
AcquireAnyway(th) ==
  /\ Granted(th)
  /\ held' = [held EXCEPT ![th] = Append(@, Wants(th))]
  /\ todo' = [todo EXCEPT ![th] = Tail(@)]
  /\ computing' = IF Len(todo[th]) = 1 THEN computing \cup {th} ELSE computing
  /\ parked' = parked \ {th}
  /\ UNCHANGED <<unordered, poisoned, torn>>

(* storage, storage_mut; with its last lock the operation computes.        *)
Acquire(th) ==
  /\ Granted(th) /\ Wants(th).on \notin poisoned
  /\ held' = [held EXCEPT ![th] = Append(@, Wants(th))]
  /\ todo' = [todo EXCEPT ![th] = Tail(@)]
  /\ computing' = IF Len(todo[th]) = 1 THEN computing \cup {th} ELSE computing
  /\ parked' = parked \ {th}
  /\ UNCHANGED <<unordered, poisoned, torn>>

(* "failed to borrow tensor storage": the operation returns the error.     *)
Refused(th) ==
  /\ Granted(th) /\ Wants(th).on \in poisoned
  /\ Release(th)
  /\ UNCHANGED <<poisoned, torn>>

LetGo(th) ==
  /\ th \in computing
  /\ Release(th)
  /\ UNCHANGED <<poisoned, torn>>

(* A kernel panics with part of its output written.                        *)
Panic(th) ==
  /\ th \in computing
  /\ Release(th)
  /\ poisoned' = poisoned \cup Outputs(th)
  /\ torn' = torn \cup Outputs(th)

(* Guards that live to the end of the function.                            *)
DropGuardsAtEnd(th) ==
  /\ todo[th] # <<>> /\ Wants(th) = Drop
  /\ held' = [held EXCEPT ![th] = IF Len(todo[th]) = 1 THEN <<>> ELSE @]
  /\ todo' = [todo EXCEPT ![th] = Tail(@)]
  /\ unordered' = IF Len(todo[th]) = 1 THEN unordered \ {th} ELSE unordered
  /\ UNCHANGED <<computing, parked, poisoned, torn>>

(* The guards taken so far go; the operation is over if nothing follows.   *)
DropGuards(th) ==
  /\ todo[th] # <<>> /\ Wants(th) = Drop
  /\ held' = [held EXCEPT ![th] = <<>>]
  /\ todo' = [todo EXCEPT ![th] = Tail(@)]
  /\ unordered' = IF Len(todo[th]) = 1 THEN unordered \ {th} ELSE unordered
  /\ UNCHANGED <<computing, parked, poisoned, torn>>

Step(th) == Park(th) \/ DropGuards(th) \/ Acquire(th) \/ Refused(th) \/ LetGo(th)

LocksNext == \E th \in Threads : Step(th) \/ Panic(th) \/ \E o \in Ops : Start(th, o)

LocksSpec == LocksInit /\ [][LocksNext]_lock_vars

-----------------------------------------------------------------------------
(* Properties                                                              *)

(* Threads each of which is kept waiting by another of them, or by itself. *)
Circle(S) == S # {} /\ \A th \in S : Blockers(th) \cap S # {}

(* Nobody waits for ever: "Returns an error if the storage is currently    *)
(* mutably borrowed" leaves nobody waiting in a circle.                    *)
NoCircularWait == \A S \in SUBSET parked : ~Circle(S)

(* What does hold: in every circle some operation takes a lock that is not *)
(* below all those it holds then - because its operands are in another     *)
(* order than someone else's, or share their storage. Threads whose        *)
(* operations descend never wait for each other in a circle, whatever the  *)
(* others do.                                                              *)
CirclesCrossOrder == \A S \in SUBSET parked : Circle(S) => S \cap unordered # {}

(* What a kernel left half written is not an operand of any later one.     *)
HalfWrittenNotUsed ==
  \A th \in computing, s \in torn : ~Holds(th, Read(s)) /\ ~Holds(th, Write(s))

=============================================================================
