----------------------------- MODULE DeviceOps -----------------------------
(***************************************************************************)
(* What the backends over host-visible memory share (vulkan_backend,       *)
(* metal_backend): every buffer is mapped, so the host reads and writes    *)
(* device memory directly while commands wait in a batch. An operation of  *)
(* the Backend trait is the sequence of steps its code makes; steps of     *)
(* different threads interleave. An operation that fails releases what it  *)
(* had allocated and leaves its output alone.                              *)
(*                                                                         *)
(* Left out: size classes, pipelines and the kernels' arithmetic. A buffer *)
(* not created yet counts as pooled: alloc_buffer finds one or creates it, *)
(* with anything in it, so what a pooled buffer holds is not kept. An      *)
(* operation names the storage it writes and one of those it reads.        *)
(***************************************************************************)
EXTENDS EagerStore, FiniteSets

CONSTANTS
  Inputs,       (* contents that uploads and fills bring in                *)
  Buffers,      (* device buffers, created or still to be created          *)
  X, Y,         (* names of the temporaries inside an operation            *)
  Profiling,    (* subset of BOOLEAN: whether each command is timed        *)
  Workers       (* bound: the threads that compute (storages come and go   *)
                (* on any); the others synchronise                         *)

VARIABLES
  mem,        (* what the mapped buffers hold                              *)
  cmds,       (* the open batch                                            *)
  free_bufs,  (* OpCtx::free_bufs                                          *)
  ctx,        (* the thread holding the OpCtx mutex across a wait          *)
  pool,       (* BufferPool::free; at first, the buffers still to be created *)
  buffer,     (* Storage::buffer                                           *)
  op,         (* the operation each thread runs: its output, an input, and *)
              (* the contents the output must get                          *)
  todo,       (* the steps of it that remain                               *)
  temp,       (* the buffers of its temporaries                            *)
  profiled    (* profile_enabled; profile_mode = 1                         *)

bufs == <<free_bufs, pool, buffer>>
threads == <<op, todo, temp>>
shared == <<eager, mem, cmds, ctx, bufs, threads, profiled>>

Temps == {X, Y}
ASSUME DeviceAssumption ==
  /\ Inputs \subseteq Contents /\ 1 \in Contents
  /\ X # Y /\ Tensors \cap (Temps \cup Threads \X Temps) = {}
  /\ None \notin Contents \cup Tensors \cup Temps \cup Buffers \cup Threads

NoOp == [dst |-> None, src |-> None, result |-> 0]

SharedTypeOK ==
  /\ EagerTypeOK
  /\ mem \in [Buffers -> Contents]
  /\ Touched(cmds) \subseteq Buffers
  /\ free_bufs \subseteq Buffers /\ pool \subseteq Buffers
  /\ ctx \in Threads \cup {None}
  /\ buffer \in [Tensors -> Buffers \cup {None}]
  /\ temp \in [Threads -> [Temps -> Buffers \cup {None}]]
  /\ profiled \in Profiling
  /\ \A th \in Threads : todo[th] = <<>> => op[th] = NoOp /\ temp[th] = [x \in Temps |-> None]

SharedInit ==
  /\ EagerInit
  /\ mem = [b \in Buffers |-> 0] /\ cmds = <<>>
  /\ free_bufs = {} /\ pool = Buffers
  /\ ctx = None
  /\ buffer = [t \in Tensors |-> None]
  /\ op = [th \in Threads |-> NoOp] /\ todo = [th \in Threads |-> <<>>]
  /\ temp = [th \in Threads |-> [x \in Temps |-> None]]
  /\ profiled \in Profiling

-----------------------------------------------------------------------------
(* The steps an operation is made of.                                      *)

Step(do, c) == [do |-> do, cmd |-> c]
Alloc(x)      == Step("alloc", Fill(x, 0))      (* a temporary, uninitialised *)
Scratch(x, v) == Step("scratch", Fill(x, v))    (* one the host has written   *)
Dispatch(c)   == Step("dispatch", c)
Record(c)     == Step("record", c)              (* a buffer copy or fill      *)
Flush         == Step("flush", Fill(None, 0))
FlushIfUsed(t) == Step("flushused", Fill(t, 0))
Host(c)       == Step("host", c)
Data(s)       == Step("data", Fill(s, 0))
Defer(x)      == Step("defer", Fill(x, 0))      (* drop of a temporary        *)

Allocates(s) == s.do \in {"alloc", "scratch"}
Records(s)   == s.do \in {"dispatch", "record"}

(* How many steps of these kinds there are, in a sequence and still to do. *)
Counted(steps, kinds) == {i \in DOMAIN steps : steps[i].do \in kinds}
Ahead(kinds) == Cardinality(UNION {{u} \X Counted(todo[u], kinds) : u \in Threads})

(* What the steps make of contents, in order.                              *)
Effect(m, s) == IF Records(s) \/ s.do \in {"host", "scratch"} THEN Exec(m, s.cmd) ELSE m
Run(m, steps) ==
  LET after[i \in 0 .. Len(steps)] == IF i = 0 THEN m ELSE Effect(after[i - 1], steps[i])
  IN after[Len(steps)]

(* The contents the storages have now.                                     *)
Values == [x \in Tensors \cup Temps |-> IF x \in Tensors /\ Live(x) THEN val[x] ELSE 0]

-----------------------------------------------------------------------------
(* Operations, under the locks ops.rs takes on the tensors they name.      *)

Readable(t) == Live(t) /\ \A u \in Threads : op[u].dst # t
Unused(t) == Readable(t) /\ \A u \in Threads : op[u].src # t

Begin(th, d, s, steps) ==
  /\ todo[th] = <<>> /\ steps # <<>>
  /\ d # None => Unused(d)
  /\ s # None => Readable(s)
  /\ Cardinality(Counted(steps, {"alloc", "scratch"})) + Ahead({"alloc", "scratch"}) <= Cardinality(pool)
  /\ todo' = [todo EXCEPT ![th] = steps]
  /\ op' = [op EXCEPT ![th] = [dst |-> d, src |-> s,
                               result |-> IF d = None THEN 0 ELSE Run(Values, steps)[d]]]
  /\ UNCHANGED <<eager, mem, cmds, ctx, bufs, temp>>

Next1(th, do) == todo[th] # <<>> /\ Head(todo[th]).do = do

(* The remaining steps; with none the operation returns.                   *)
Continue(th, steps, result, temps) ==
  /\ todo' = [todo EXCEPT ![th] = steps]
  /\ IF steps # <<>>
     THEN /\ op' = [op EXCEPT ![th].result = result]
          /\ temp' = [temp EXCEPT ![th] = temps]
          /\ UNCHANGED eager
     ELSE /\ op' = [op EXCEPT ![th] = NoOp]
          /\ temp' = [temp EXCEPT ![th] = [x \in Temps |-> None]]
          /\ IF op[th].dst = None THEN UNCHANGED eager ELSE Put(op[th].dst, result)

Advance(th) == Continue(th, Tail(todo[th]), op[th].result, temp[th])

(* The frees of the temporaries that have a buffer.                        *)
DefersKept(steps, temps) ==
  LET kept[i \in 0 .. Len(steps)] ==
        IF i = 0 THEN <<>>
        ELSE IF steps[i].do = "defer" /\ temps[steps[i].cmd.dst] # None
             THEN Append(kept[i - 1], steps[i]) ELSE kept[i - 1]
  IN kept[Len(steps)]

(* An error: temporaries are dropped, the output keeps its contents.       *)
Abort(th) ==
  Continue(th, DefersKept(todo[th], temp[th]),
           IF op[th].dst = None THEN 0 ELSE val[op[th].dst], temp[th])

(* Operands of a command are buffers of storages or of temporaries.        *)
BufferOf(th, x) == IF x \in Temps THEN temp[th][x] ELSE buffer[x]
OnBuffers(th, c) ==
  [c EXCEPT !.dst = BufferOf(th, @), !.src = BufferOf(th, @),
            !.aux = IF c.op = "merge" THEN BufferOf(th, @) ELSE @]
NextCommand(th) == OnBuffers(th, Head(todo[th]).cmd)

-----------------------------------------------------------------------------
(* Storage. The pool has a mutex of its own.                               *)

Recycled(m, bs) == [b \in Buffers |-> IF b \in bs THEN 0 ELSE m[b]]

Take(b) ==
  /\ b \in pool
  /\ pool' = pool \ {b}
  /\ UNCHANGED free_bufs

NewStorage(t, b, v) ==
  /\ Take(b)
  /\ Create(t, v)
  /\ buffer' = [buffer EXCEPT ![t] = b]
  /\ mem' = [mem EXCEPT ![b] = v]
  /\ UNCHANGED <<cmds, ctx, threads>>

AllocUninit(t, b) == \E v \in Contents : NewStorage(t, b, v)
FromVec(t, b, v)  == NewStorage(t, b, v)

DropStorage(t) ==
  /\ ctx = None
  /\ Unused(t)
  /\ Discard(t)
  /\ free_bufs' = free_bufs \cup {buffer[t]}
  /\ buffer' = [buffer EXCEPT ![t] = None]
  /\ UNCHANGED <<mem, cmds, ctx, pool, threads>>

AllocTemp(th, b) ==
  /\ todo[th] # <<>> /\ Allocates(Head(todo[th]))
  /\ Take(b)
  /\ Continue(th, Tail(todo[th]), op[th].result,
              [temp[th] EXCEPT ![Head(todo[th]).cmd.dst] = b])
  /\ \E v \in Contents :
       /\ Head(todo[th]).do = "scratch" => v = Head(todo[th]).cmd.val
       /\ mem' = [mem EXCEPT ![b] = v]
  /\ UNCHANGED <<cmds, ctx, buffer>>

AllocFails(th) ==
  /\ todo[th] # <<>> /\ Allocates(Head(todo[th]))
  /\ Abort(th)
  /\ UNCHANGED <<mem, cmds, ctx, bufs>>

DeferFree(th) ==
  /\ Next1(th, "defer")
  /\ ctx = None
  /\ free_bufs' = free_bufs \cup {temp[th][Head(todo[th]).cmd.dst]}
  /\ Advance(th)
  /\ UNCHANGED <<mem, cmds, ctx, pool, buffer>>

(* A loop or a memcpy over the mapped memory.                              *)
HostAccess(th) ==
  /\ Next1(th, "host") \/ Next1(th, "data")
  /\ mem' = IF Next1(th, "host") THEN Exec(mem, NextCommand(th)) ELSE mem
  /\ Advance(th)
  /\ UNCHANGED <<cmds, ctx, bufs>>

(* What both machines are to keep, given the buffers that a command not    *)
(* yet executed touches and what memory holds once all of them have run.   *)

Settles(settled) ==
  \A t \in Tensors :
    Live(t) /\ (\A th \in Threads : op[th].dst # t) => settled[buffer[t]] = val[t]

ReadsRight ==
  \A th \in Threads :
    Next1(th, "data") => mem[buffer[op[th].src]] = val[op[th].src]

=============================================================================
