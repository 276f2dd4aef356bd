-------------------------- MODULE WebGpuInductive --------------------------
(***************************************************************************)
(* The inductive invariant behind the safety of the WebGPU backend's       *)
(* batches (WebGpuBatch): what each step of an operation leaves behind for *)
(* the next one to rely on.                                                *)
(***************************************************************************)
EXTENDS WebGpuBatch, GpuCommandsProofs

-----------------------------------------------------------------------------
(* Data                                                                    *)

(* Commands over storages, as the steps of operations name them.           *)
StorageCommands ==
  [op : {"fill", "accum", "copy"}, dst : Tensors, src : Tensors, aux : {0}, val : Contents]

HostWrites == {Fill(b, v) : b \in Buffers, v \in Contents}

(* Recorded commands: kernels over buffers (a fill's val is the slot that  *)
(* holds its parameters), and copies, some to readback buffers.            *)
Recorded ==
  {c \in [op : {"fill", "accum", "copy"}, dst : Locations, src : Buffers, aux : {0}, val : Nat] :
     /\ c.op # "copy" => c.dst \in Buffers
     /\ c.op # "fill" => c.val \in Contents}

SlotsIn(cs, ps) == \A i \in DOMAIN cs : cs[i].op = "fill" => cs[i].val \in 1 .. Len(ps)

Submissions ==
  {s \in [writes : Seq(HostWrites), params : Seq(Contents), cmds : Seq(Recorded)] :
     SlotsIn(s.cmds, s.params)}

Operations ==
  [kind : Kinds, dst : Tensors \cup {None}, src : Tensors \cup {None},
   val : Contents \cup StorageCommands]

Places == {"idle", "write", "submit", "drain", "await"}

StoreTyped == EagerTypeOK /\ mem \in [Locations -> Contents]
QueueTyped ==
  /\ inflight \in Seq(Submissions) /\ Len(inflight) <= MaxInFlight
  /\ staged \in Seq(HostWrites)
  /\ cmds \in Seq(Recorded) /\ params \in Seq(Contents) /\ SlotsIn(cmds, params)
  /\ open = (cmds # <<>>) /\ (params # <<>> => open)
  /\ Len(params) <= RingSlots
BuffersTyped ==
  /\ free_bufs \subseteq Buffers /\ pool \subseteq Buffers /\ fresh \subseteq Buffers
  /\ buffer \in [Tensors -> Buffers \cup {None}]
  /\ freed \in [Threads -> SUBSET Buffers]
ThreadsTyped ==
  /\ ctx \in Threads \cup {None}
  /\ pc \in [Threads -> Places] /\ op \in [Threads -> Operations]
  /\ ahead \in [Threads -> Nat] /\ \A th \in Threads : ahead[th] <= Len(inflight)
  /\ target \in Targets

-----------------------------------------------------------------------------
(* Control                                                                 *)

(* An operation is at one of the steps its kind goes through.              *)
StepFits(th) ==
  LET o == op[th]
  IN /\ pc[th] = "idle" => o = NoOp
     /\ pc[th] = "write" => o.kind \in {"create", "hostfill", "hostcopy"}
     /\ pc[th] = "drain" => o.kind \in {"kernel", "flush", "hostfill", "hostcopy", "read"}
     /\ pc[th] = "submit" => o.kind = "asyncread"
     /\ pc[th] = "await" => o.kind \in {"asyncread", "asyncflush"}
     /\ o.kind = "kernel" => o.val \in StorageCommands /\ o.dst = o.val.dst /\ o.src = o.val.src
     /\ o.kind \in {"create", "hostfill", "hostcopy"} => o.dst \in Tensors /\ o.val \in Contents
     /\ o.kind \in {"hostcopy", "read"} => Native
     /\ o.kind = "asyncread" => o.dst = None /\ o.src \in Tensors
     /\ o.kind = "hostcopy" /\ pc[th] = "write" => ahead[th] = 0
Steps == \A th \in Threads : StepFits(th)

(* What an operation holds stays, and no one else's output.                *)
HeldBy(o) ==
  /\ o.dst # None => buffer[o.dst] # None /\ (Live(o.dst) <=> o.kind # "create")
  /\ o.src # None => Live(o.src)
LiveStored == \A t \in Tensors : Live(t) => buffer[t] # None
Held == LiveStored /\ \A th \in Threads : HeldBy(op[th])
Exclusive ==
  \A th, u \in Threads :
    th # u /\ op[th].dst # None =>
      /\ op[u].dst # op[th].dst
      /\ op[u].src = op[th].dst => op[u].kind = "asyncread"

(* The mutex is held across a wait by the thread that waits, which has     *)
(* submitted everything.                                                   *)
Mutex ==
  /\ \A th \in Threads : pc[th] = "drain" <=> ctx = th
  /\ ctx # None => cmds = <<>> /\ ahead[ctx] = Len(inflight)

-----------------------------------------------------------------------------
(* Buffers                                                                 *)

(* Freed buffers are never those that no one has created yet.              *)
Owners == OneOwner /\ free_bufs \cap fresh = {}

(* The open batch uses what a storage owns or the next flush will free.    *)
BatchOwned ==
  Touched(cmds) \subseteq Threads \cup free_bufs \cup {buffer[t] : t \in Tensors}

(* A future's buffers are in no submission after the one it waits for.     *)
FreedWaits ==
  \A th \in Threads :
    /\ freed[th] # {} => pc[th] = "await"
    /\ \A i \in DOMAIN inflight : i > ahead[th] => Touched(inflight[i].cmds) \cap freed[th] = {}

PoolUnsubmitted ==
  \A i \in DOMAIN inflight : Touched(inflight[i].cmds) \cap (pool \cup fresh) = {}

-----------------------------------------------------------------------------
(* Contents                                                                *)

(* A copy to a readback buffer in the open batch is the one its thread is  *)
(* about to submit.                                                        *)
CopiesOwn ==
  \A i \in DOMAIN cmds :
    cmds[i].dst \in Threads =>
      pc[cmds[i].dst] = "submit" /\ cmds[i].src = buffer[op[cmds[i].dst].src]

(* What a thread in "write" is about to store.                             *)
Pending(th) ==
  IF op[th].kind = "hostcopy" THEN {Combine(op[th].val, v) : v \in read[th]} ELSE {op[th].val}

(* The open batch does not use the buffer of a host write to come, except  *)
(* to read it back for someone who expects either contents.                *)
WriteClear(th, c) ==
  /\ c.dst # buffer[op[th].dst]
  /\ c.src = buffer[op[th].dst] => c.dst \in Threads /\ Pending(th) \subseteq read[c.dst]
WritesClear ==
  \A th \in Threads, i \in DOMAIN cmds : pc[th] = "write" => WriteClear(th, cmds[i])

Settles == \A t \in Tensors : Live(t) => Settled[buffer[t]] = val[t]

ReadDue(th) ==
  read[th] # {} =>
    /\ op[th].kind \in {"read", "hostcopy", "asyncread"}
    /\ op[th].kind # "asyncread" => \E v \in Contents : read[th] = {v}
    /\ Settled[th] \in read[th]
    /\ pc[th] # "submit" =>
         \A i \in DOMAIN inflight : i > ahead[th] => Spares(inflight[i].cmds, th)
ReadsDue == \A th \in Threads : ReadDue(th)

Ownership ==
  /\ StoreTyped /\ QueueTyped /\ BuffersTyped /\ ThreadsTyped
  /\ Steps /\ Held /\ Exclusive /\ Mutex
  /\ Owners /\ BatchOwned /\ FreedWaits /\ PoolUnsubmitted
IInv == Ownership /\ CopiesOwn /\ WritesClear /\ Settles /\ ReadsDue
=============================================================================
