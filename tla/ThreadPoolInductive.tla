------------------------- MODULE ThreadPoolInductive -------------------------
(***************************************************************************)
(* The inductive invariant of ThreadPool, in named parts. It says what the *)
(* slot, the counter, the flag and the history are worth at every point    *)
(* of the publisher's progress and of each worker's.                       *)
(***************************************************************************)
EXTENDS ThreadPool

Before   == {"idle", "claim", "write", "resetdone", "resetflag", "bump"}
Finished == {"clear", "report", "release"}
Alone    == {"serial", "leave"}

(* Workers that have no part left to play in the current job.              *)
Acked == {w \in Workers : wpc[w] \in Asleep /\ last[w] = seq}

Quiet == Acked = Workers

Types ==
  /\ seq \in Nat /\ done \in Nat
  /\ job \in Calls \cup {None}
  /\ panicked \in BOOLEAN /\ publish \in BOOLEAN
  /\ lock \in Workers \cup {None}
  /\ wpc \in [Workers -> WorkerLabels]
  /\ last \in [Workers -> Nat]
  /\ latched \in [Workers -> Calls \cup {None}]
  /\ inJob \in [Workers -> BOOLEAN]
  /\ pc \in [Calls -> CallLabels]
  /\ parent \in [Calls -> Shares \cup {None}]
  /\ thread \in [Calls -> Workers \cup {None}]
  /\ own \in [Calls -> BOOLEAN]
  /\ outcome \in [Calls -> {"none", "ok", "panic"}]
  /\ ran \in [Calls -> [Participants -> Nat]]
  /\ failed \in [Calls -> SUBSET Participants]

(* The park mutex is held from the recheck to the sleep.                   *)
LockHeld == \A w \in Workers : wpc[w] \in {"recheck", "sleep"} <=> lock = w

(* Until a call has bumped seq and once its join is over, every worker has *)
(* acknowledged; in between, the slot holds that call.                     *)
SlotStable ==
  /\ (\E c \in Calls : pc[c] \in Published) \/ Quiet
  /\ \A c \in Calls :
       /\ pc[c] \in {"resetdone", "resetflag", "bump"} \cup Published => job = c
       /\ pc[c] \in {"resetflag", "bump"} => done = 0
  /\ \A w \in Workers :
       /\ wpc[w] \in {"read", "run", "flag", "ack"} => last[w] = seq
       /\ wpc[w] \in {"run", "flag", "ack"} => latched[w] = job

(* done counts the workers that are through with the current job.          *)
DoneCounts ==
  /\ done <= Cardinality(Workers)
  /\ \A c \in Calls : pc[c] \in Published => done = Cardinality(Acked)

(* What each participant of c has run, by how far the call has come.       *)
RanOf(c) ==
  /\ pc[c] \in Before => \A p \in Participants : ran[c][p] = 0
  /\ pc[c] \in Alone => \A w \in Workers : ran[c][w] = 0
  /\ pc[c] \in {"serial", "notify", "own"} => ran[c][Zero] = 0
  /\ pc[c] \in {"leave", "join", "returned"} \cup Finished => ran[c][Zero] = 1
  /\ pc[c] \in Published =>
       \A w \in Workers :
         ran[c][w] = IF wpc[w] \in {"flag", "ack"} \/ w \in Acked THEN 1 ELSE 0
  /\ pc[c] \in Finished => \A w \in Workers : ran[c][w] = 1
  /\ pc[c] = "returned" => \/ \A w \in Workers : ran[c][w] = 1
                           \/ \A w \in Workers : ran[c][w] = 0

RanSoFar == \A c \in Calls : RanOf(c)

(* Where the record of a panic in c is, on its way from share to caller.   *)
PanicsOf(c) ==
  /\ \A p \in failed[c] : ran[c][p] = 1
  /\ pc[c] = "bump" => ~panicked
  /\ pc[c] \in {"leave", "join"} \cup Finished => (own[c] <=> Zero \in failed[c])
  /\ pc[c] \in Published =>
       (panicked <=> \E w \in Workers : w \in failed[c] /\ wpc[w] # "flag")
  /\ pc[c] \in {"clear", "report"} =>
       (panicked <=> \E w \in Workers : w \in failed[c])
  /\ pc[c] \in {"release", "returned"} =>
       (outcome[c] = "panic" <=> failed[c] # {})

PanicsSoFar ==
  /\ \A w \in Workers : wpc[w] = "flag" => w \in failed[latched[w]]
  /\ \A c \in Calls : PanicsOf(c)

IInv ==
  /\ Types
  /\ OnePublisher
  /\ WorkersSurvive
  /\ LockHeld
  /\ SlotStable
  /\ DoneCounts
  /\ RanSoFar
  /\ PanicsSoFar
  /\ NoLostWakeup
  /\ BorrowOutlivesUse

=============================================================================
