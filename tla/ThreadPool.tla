----------------------------- MODULE ThreadPool -----------------------------
(***************************************************************************)
(* The resident worker pool of xn-core/src/threadpool.rs: the publication  *)
(* protocol of `dispatch` and the loop of `worker`, one action per atomic  *)
(* operation on the state the threads share.                               *)
(*                                                                         *)
(* A call of `dispatch` is a member of Calls and is made at most once, so  *)
(* a call also names its closure and its stack frame. A call is made from  *)
(* a thread of its own (parent None) or from inside a share of another     *)
(* call: parent <<x, i>> is share i of call x, which stays suspended until *)
(* the nested call has returned.                                           *)
(*                                                                         *)
(* Left out: `quit`, which no code sets, and the length of the two spin    *)
(* loops: a worker may give up spinning at any moment, which covers every  *)
(* spin budget.                                                            *)
(***************************************************************************)
EXTENDS Naturals, FiniteSets

CONSTANTS
  Calls,      (* the calls of dispatch                                     *)
  Workers,    (* the resident threads, participants 1 .. nth-1             *)
  Zero,       (* participant 0: the calling thread                         *)
  None        (* an empty job slot, a call made at top level, a free lock  *)

Participants == Workers \cup {Zero}
Shares == Calls \X Participants

ASSUME PoolAssumption ==
  /\ IsFiniteSet(Workers)
  /\ Workers # {}
  /\ Zero \notin Workers
  /\ None \notin Calls \cup Workers \cup Shares

VARIABLES
  seq,        (* Shared::seq                                               *)
  job,        (* Shared::job, None or the call whose closure it points to  *)
  done,       (* Shared::done                                              *)
  panicked,   (* Shared::panicked                                          *)
  publish,    (* Pool::publish                                             *)
  lock,       (* Shared::lock: None or the worker holding it               *)
  wpc,        (* where each worker is in its loop                          *)
  last,       (* worker's local `last`                                     *)
  latched,    (* worker's local `job`                                      *)
  inJob,      (* the thread-local IN_JOB of each worker                    *)
  pc,         (* where each call is in `dispatch`                          *)
  parent,     (* the share a call was made from, or None                   *)
  thread,     (* the worker whose thread a call runs on, or None           *)
  own,        (* dispatch's local `own`, the result of the caller's share  *)
  outcome,    (* how a call returned                                       *)
  ran,        (* history: how often a participant ended its share          *)
  failed      (* history: the participants whose share panicked            *)

shared  == <<seq, job, done, panicked, publish>>
workers == <<wpc, last, latched, inJob>>
frames  == <<pc, parent, thread, own, outcome>>
history == <<ran, failed>>
vars    == <<shared, lock, workers, frames, history>>

WorkerLabels ==
  {"loop", "lock", "recheck", "sleep", "wait", "woken",
   "read", "run", "flag", "ack", "dead"}
CallLabels ==
  {"idle", "claim", "serial", "leave", "write", "resetdone", "resetflag", "bump",
   "notify", "own", "join", "clear", "report", "release", "returned"}

(* The states in which a call holds the pool, and those in which workers   *)
(* may be using its closure.                                               *)
Publishing ==
  {"write", "resetdone", "resetflag", "bump", "notify", "own", "join",
   "clear", "report", "release"}
Published == {"notify", "own", "join"}
Asleep == {"loop", "lock", "recheck", "sleep", "wait", "woken"}

TypeOK ==
  /\ seq \in Nat /\ done \in 0 .. Cardinality(Workers)
  /\ job \in Calls \cup {None}
  /\ panicked \in BOOLEAN /\ publish \in BOOLEAN
  /\ lock \in Workers \cup {None}
  /\ wpc \in [Workers -> WorkerLabels]
  /\ last \in [Workers -> Nat]
  /\ latched \in [Workers -> Calls \cup {None}]
  /\ inJob \in [Workers -> BOOLEAN]
  /\ pc \in [Calls -> CallLabels]
  /\ parent \in [Calls -> Shares \cup {None}]
  /\ thread \in [Calls -> Workers \cup {None}]
  /\ own \in [Calls -> BOOLEAN]
  /\ outcome \in [Calls -> {"none", "ok", "panic"}]
  /\ ran \in [Calls -> [Participants -> Nat]]
  /\ failed \in [Calls -> SUBSET Participants]

Init ==
  /\ seq = 0 /\ done = 0 /\ job = None
  /\ panicked = FALSE /\ publish = FALSE /\ lock = None
  /\ wpc = [w \in Workers |-> "loop"]
  /\ last = [w \in Workers |-> 0]
  /\ latched = [w \in Workers |-> None]
  /\ inJob = [w \in Workers |-> FALSE]
  /\ pc = [c \in Calls |-> "idle"]
  /\ parent = [c \in Calls |-> None]
  /\ thread = [c \in Calls |-> None]
  /\ own = [c \in Calls |-> FALSE]
  /\ outcome = [c \in Calls |-> "none"]
  /\ ran = [c \in Calls |-> [p \in Participants |-> 0]]
  /\ failed = [c \in Calls |-> {}]

-----------------------------------------------------------------------------
(* Shares. Ending one records it; it cannot end while a call it made is    *)
(* still on the stack, and a panic of such a call unwinds it.              *)

Active(s) ==
  IF s[2] = Zero THEN pc[s[1]] \in {"own", "serial"}
                 ELSE wpc[s[2]] = "run" /\ latched[s[2]] = s[1]

Unwinding(s) == \E d \in Calls : parent[d] = s /\ outcome[d] = "panic"

(* The top frame of its thread: nothing it called is unfinished.           *)
OnTop(s) == \A d \in Calls : parent[d] = s => pc[d] = "returned"

EndShare(c, p, panics) ==
  /\ Active(<<c, p>>)
  /\ OnTop(<<c, p>>)
  /\ Unwinding(<<c, p>>) => panics
  /\ ran' = [ran EXCEPT ![c][p] = @ + 1]
  /\ failed' = [failed EXCEPT ![c] = IF panics THEN @ \cup {p} ELSE @]

-----------------------------------------------------------------------------
(* dispatch                                                                *)

Goto(c, from, to) ==
  /\ pc[c] = from
  /\ pc' = [pc EXCEPT ![c] = to]

(* The IN_JOB of the thread a share runs on: set on a worker that is inside *)
(* a job, never on a thread of the caller's.                                *)
ThreadOf(s) ==
  IF s = None THEN None
  ELSE IF s[2] = Zero THEN thread[s[1]] ELSE s[2]
InJob(t) == t # None /\ inJob[t]

(* Entry up to the claim, from thread s: a nested call on a worker runs its *)
(* closure as (0, 1).                                                       *)
Enter(c, s) ==
  /\ s # None => Active(s) /\ OnTop(s)
  /\ parent' = [parent EXCEPT ![c] = s]
  /\ thread' = [thread EXCEPT ![c] = ThreadOf(s)]
  /\ Goto(c, "idle", IF InJob(ThreadOf(s)) THEN "serial" ELSE "claim")
  /\ UNCHANGED <<shared, lock, workers, own, outcome, history>>

(* PublishGuard::claim, the compare_exchange that succeeds.                *)
Claim(c) ==
  /\ publish = FALSE
  /\ Goto(c, "claim", "write")
  /\ publish' = TRUE
  /\ UNCHANGED <<seq, job, done, panicked, lock, workers,
                 parent, thread, own, outcome, history>>

(* The bug the comment on `then_some` warns of: the failed claim builds a  *)
(* guard all the same, and dropping it releases the token.                 *)
ContendedReleases(c) ==
  /\ publish = TRUE
  /\ Goto(c, "claim", "serial")
  /\ publish' = FALSE
  /\ UNCHANGED <<seq, job, done, panicked, lock, workers,
                 parent, thread, own, outcome, history>>

(* The claim that fails: another call owns the pool, so run as (0, 1).     *)
Contended(c) ==
  /\ publish = TRUE
  /\ Goto(c, "claim", "serial")
  /\ UNCHANGED <<shared, lock, workers, parent, thread, own, outcome, history>>

(* f(0, 1) on the calling thread, with no catch_unwind around it.          *)
Serial(c, panics) ==
  /\ Goto(c, "serial", "leave")
  /\ EndShare(c, Zero, panics)
  /\ own' = [own EXCEPT ![c] = panics]
  /\ UNCHANGED <<shared, lock, workers, parent, thread, outcome>>

Leave(c) ==
  /\ Goto(c, "leave", "returned")
  /\ outcome' = [outcome EXCEPT ![c] = IF own[c] THEN "panic" ELSE "ok"]
  /\ UNCHANGED <<shared, lock, workers, parent, thread, own, history>>

WriteJob(c) ==
  /\ Goto(c, "write", "resetdone")
  /\ job' = c
  /\ UNCHANGED <<seq, done, panicked, publish, lock, workers,
                 parent, thread, own, outcome, history>>

ResetDoneSkipped(c) ==
  /\ Goto(c, "resetdone", "resetflag")
  /\ UNCHANGED <<shared, lock, workers, parent, thread, own, outcome, history>>

ResetDone(c) ==
  /\ Goto(c, "resetdone", "resetflag")
  /\ done' = 0
  /\ UNCHANGED <<seq, job, panicked, publish, lock, workers,
                 parent, thread, own, outcome, history>>

ResetFlagSkipped(c) ==
  /\ Goto(c, "resetflag", "bump")
  /\ UNCHANGED <<shared, lock, workers, parent, thread, own, outcome, history>>

ResetFlag(c) ==
  /\ Goto(c, "resetflag", "bump")
  /\ panicked' = FALSE
  /\ UNCHANGED <<seq, job, done, publish, lock, workers,
                 parent, thread, own, outcome, history>>

Bump(c) ==
  /\ Goto(c, "bump", "notify")
  /\ seq' = seq + 1
  /\ UNCHANGED <<job, done, panicked, publish, lock, workers,
                 parent, thread, own, outcome, history>>

(* lock, notify_all, unlock.                                               *)
Notify(c) ==
  /\ lock = None
  /\ Goto(c, "notify", "own")
  /\ wpc' = [w \in Workers |-> IF wpc[w] = "wait" THEN "woken" ELSE wpc[w]]
  /\ UNCHANGED <<shared, lock, last, latched, inJob,
                 parent, thread, own, outcome, history>>

(* f(0, nth) under catch_unwind.                                           *)
OwnShare(c, panics) ==
  /\ Goto(c, "own", "join")
  /\ EndShare(c, Zero, panics)
  /\ own' = [own EXCEPT ![c] = panics]
  /\ UNCHANGED <<shared, lock, workers, parent, thread, outcome>>

(* One worker too few: want = nth - 2.                                     *)
JoinEarly(c) ==
  /\ done + 1 >= Cardinality(Workers)
  /\ Goto(c, "join", "clear")
  /\ UNCHANGED <<shared, lock, workers, parent, thread, own, outcome, history>>

(* A caller whose own share panicked unwinds without waiting.              *)
JoinUnlessPanicking(c) ==
  /\ own[c] \/ done >= Cardinality(Workers)
  /\ Goto(c, "join", "clear")
  /\ UNCHANGED <<shared, lock, workers, parent, thread, own, outcome, history>>

Join(c) ==
  /\ done >= Cardinality(Workers)
  /\ Goto(c, "join", "clear")
  /\ UNCHANGED <<shared, lock, workers, parent, thread, own, outcome, history>>

Clear(c) ==
  /\ Goto(c, "clear", "report")
  /\ job' = None
  /\ UNCHANGED <<seq, done, panicked, publish, lock, workers,
                 parent, thread, own, outcome, history>>

(* Forgets the workers' flag.                                              *)
ReportOwnOnly(c) ==
  /\ Goto(c, "report", "release")
  /\ outcome' = [outcome EXCEPT ![c] = IF own[c] THEN "panic" ELSE "ok"]
  /\ UNCHANGED <<shared, lock, workers, parent, thread, own, history>>

(* Re-raise the caller's own panic, else report a worker's.                *)
Report(c) ==
  /\ Goto(c, "report", "release")
  /\ outcome' = [outcome EXCEPT ![c] = IF own[c] \/ panicked THEN "panic" ELSE "ok"]
  /\ UNCHANGED <<shared, lock, workers, parent, thread, own, history>>

(* PublishGuard::drop, on return and on unwinding; then the frame is gone. *)
Release(c) ==
  /\ Goto(c, "release", "returned")
  /\ publish' = FALSE
  /\ UNCHANGED <<seq, job, done, panicked, lock, workers,
                 parent, thread, own, outcome, history>>

-----------------------------------------------------------------------------
(* worker                                                                  *)

Wgoto(w, from, to) ==
  /\ wpc[w] = from
  /\ wpc' = [wpc EXCEPT ![w] = to]

(* The load of seq sees a new job; latch its number.                       *)
Latch(w) ==
  /\ seq # last[w]
  /\ Wgoto(w, "loop", "read")
  /\ last' = [last EXCEPT ![w] = seq]
  /\ UNCHANGED <<shared, lock, latched, inJob, frames, history>>

(* The load sees no new job and the spin budget is spent.                  *)
GiveUp(w) ==
  /\ seq = last[w]
  /\ Wgoto(w, "loop", "lock")
  /\ UNCHANGED <<shared, lock, last, latched, inJob, frames, history>>

Acquire(w) ==
  /\ lock = None
  /\ lock' = w
  /\ Wgoto(w, "lock", "recheck")
  /\ UNCHANGED <<shared, last, latched, inJob, frames, history>>

(* Sleeps without looking at seq again under the lock.                     *)
RecheckSkipped(w) ==
  /\ Wgoto(w, "recheck", "sleep")
  /\ UNCHANGED <<shared, lock, last, latched, inJob, frames, history>>

(* seq is loaded again under the lock; a new job means no sleep.           *)
Recheck(w) ==
  /\ Wgoto(w, "recheck", IF seq = last[w] THEN "sleep" ELSE "loop")
  /\ lock' = IF seq = last[w] THEN lock ELSE None
  /\ UNCHANGED <<shared, last, latched, inJob, frames, history>>

(* Condvar::wait releases the lock and joins the waiters atomically.       *)
Sleep(w) ==
  /\ Wgoto(w, "sleep", "wait")
  /\ lock' = None
  /\ UNCHANGED <<shared, last, latched, inJob, frames, history>>

(* Condvar::wait may return without a notification.                        *)
SpuriousWakeup(w) ==
  /\ Wgoto(w, "wait", "woken")
  /\ UNCHANGED <<shared, lock, last, latched, inJob, frames, history>>

(* wait takes the lock again, and its guard is dropped at once.            *)
Reacquire(w) ==
  /\ lock = None
  /\ Wgoto(w, "woken", "loop")
  /\ UNCHANGED <<shared, lock, last, latched, inJob, frames, history>>

(* Read the slot. `expect` on an empty one would end the thread, since it  *)
(* is outside catch_unwind.                                                *)
ReadJob(w) ==
  /\ Wgoto(w, "read", IF job = None THEN "dead" ELSE "run")
  /\ latched' = [latched EXCEPT ![w] = job]
  /\ inJob' = [inJob EXCEPT ![w] = job # None]
  /\ UNCHANGED <<shared, lock, last, frames, history>>

(* job(ith, nth) under catch_unwind; IN_JOB is cleared either way.         *)
RunShare(w, panics) ==
  /\ Wgoto(w, "run", IF panics THEN "flag" ELSE "ack")
  /\ EndShare(latched[w], w, panics)
  /\ inJob' = [inJob EXCEPT ![w] = FALSE]
  /\ UNCHANGED <<shared, lock, last, latched, frames>>

Flag(w) ==
  /\ Wgoto(w, "flag", "ack")
  /\ panicked' = TRUE
  /\ UNCHANGED <<seq, job, done, publish, lock, last, latched, inJob,
                 frames, history>>

Ack(w) ==
  /\ Wgoto(w, "ack", "loop")
  /\ done' = done + 1
  /\ UNCHANGED <<seq, job, panicked, publish, lock, last, latched, inJob,
                 frames, history>>

-----------------------------------------------------------------------------
CallStep(c) ==
  \/ Claim(c) \/ Contended(c)
  \/ \E panics \in BOOLEAN : Serial(c, panics)
  \/ Leave(c)
  \/ WriteJob(c) \/ ResetDone(c) \/ ResetFlag(c) \/ Bump(c) \/ Notify(c)
  \/ \E panics \in BOOLEAN : OwnShare(c, panics)
  \/ Join(c) \/ Clear(c) \/ Report(c) \/ Release(c)

WorkerStep(w) ==
  \/ Latch(w) \/ GiveUp(w) \/ Acquire(w) \/ Recheck(w) \/ Sleep(w)
  \/ Reacquire(w) \/ ReadJob(w)
  \/ \E panics \in BOOLEAN : RunShare(w, panics)
  \/ Flag(w) \/ Ack(w)

Next ==
  \/ \E c \in Calls, s \in Shares \cup {None} : Enter(c, s)
  \/ \E c \in Calls : CallStep(c)
  \/ \E w \in Workers : WorkerStep(w) \/ SpuriousWakeup(w)

Spec == Init /\ [][Next]_vars

(* Every thread keeps running and every share ends; a mutex that is free   *)
(* again and again is eventually handed to each thread that wants it.      *)
Fairness ==
  /\ \A c \in Calls : WF_vars(CallStep(c)) /\ SF_vars(Notify(c))
  /\ \A w \in Workers :
       WF_vars(WorkerStep(w)) /\ SF_vars(Acquire(w) \/ Reacquire(w))

FairSpec == Spec /\ Fairness

-----------------------------------------------------------------------------
(* Properties                                                              *)

(* There is one job slot, so one call at a time drives the pool, and the   *)
(* publish token says so (Pool::publish).                                  *)
OnePublisher ==
  /\ \A c, d \in Calls : pc[c] \in Publishing /\ pc[d] \in Publishing => c = d
  /\ publish <=> \E c \in Calls : pc[c] \in Publishing

(* Whoever is running a closure, or has latched a job and is about to read *)
(* the slot, finds the call that owns it still waiting.                    *)
ClosureAlive ==
  \A w \in Workers :
    /\ wpc[w] = "run" => latched[w] \in Calls /\ pc[latched[w]] \in Published
    /\ wpc[w] = "read" => job \in Calls /\ pc[job] \in Published

(* A call made from inside a share keeps that share on the stack.          *)
FramesNested ==
  \A c \in Calls :
    pc[c] \notin {"idle", "returned"} /\ parent[c] # None => Active(parent[c])

(* dispatch erases the lifetime of its closure ("the reference cannot      *)
(* outlive the caller's frame"): no worker uses a closure whose frame, or  *)
(* a frame that one is nested in, is gone.                                 *)
BorrowOutlivesUse == ClosureAlive /\ FramesNested

(* "a latched sequence number always has a job behind it": the `expect` of *)
(* worker never fires, so the pool keeps its threads for good.             *)
WorkersSurvive == \A w \in Workers : wpc[w] # "dead"

(* No participant runs a share of a call twice, and when a call returns    *)
(* its whole team has run: all of the pool if it published, else itself.   *)
ExactlyOnce ==
  \A c \in Calls :
    /\ \A p \in Participants : ran[c][p] <= 1
    /\ pc[c] = "returned" =>
         /\ ran[c][Zero] = 1
         /\ \/ \A w \in Workers : ran[c][w] = 1
            \/ \A w \in Workers : ran[c][w] = 0

(* A call panics exactly when one of its own shares did: no panic is       *)
(* swallowed, and none is reported again by a later call.                  *)
PanicReachesItsCaller ==
  \A c \in Calls :
    pc[c] \in {"release", "returned"} => (outcome[c] = "panic" <=> failed[c] # {})

(* A worker about to sleep or asleep has missed no job, unless a call is   *)
(* still on its way to notify_all.                                         *)
NoLostWakeup ==
  \A w \in Workers :
    wpc[w] \in {"sleep", "wait"} /\ seq # last[w] => \E c \in Calls : pc[c] = "notify"

(* The job slot and the counter the workers acknowledge on are written by  *)
(* a publisher only while no worker is between its latch and its ack.      *)
SlotWrittenWhenIdle ==
  [][job' # job \/ done' < done => \A w \in Workers : wpc[w] \in Asleep]_vars

(* Every call of dispatch returns: the barrier completes whatever the      *)
(* interleaving of parking, waking, nesting and panics.                    *)
EveryCallReturns == \A c \in Calls : pc[c] # "idle" ~> pc[c] = "returned"

(* The contract's view of a call: it begins when it gets its team and      *)
(* returns when its outcome is settled.                                    *)
PhaseOf == [c \in Calls |->
  IF pc[c] \in {"idle", "claim"} THEN "idle"
  ELSE IF pc[c] \in {"release", "returned"} THEN "returned" ELSE "open"]
TeamOf == [c \in Calls |->
  IF pc[c] \in {"idle", "claim"} THEN {}
  ELSE IF pc[c] \in Publishing \/ \E w \in Workers : ran[c][w] > 0
       THEN Participants ELSE {Zero}]
EndedIn == [c \in Calls |-> {p \in Participants : ran[c][p] > 0}]

FJ == INSTANCE ForkJoin WITH phase <- PhaseOf, team <- TeamOf, ran <- EndedIn

(* The pool implements the contract of dispatch (ForkJoin).                *)
ForkJoinSpec == FJ!Spec

=============================================================================
