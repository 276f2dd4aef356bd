--------------------------- MODULE CudaInductive ---------------------------
(***************************************************************************)
(* The inductive invariant behind the safety of graph capture in the CUDA  *)
(* backend (CudaCapture).                                                  *)
(***************************************************************************)
EXTENDS CudaCapture, GpuCommandsProofs

Names == Tensors \cup Temps

-----------------------------------------------------------------------------
(* Operations                                                              *)

(* A step of an operation from s into d; what is uploaded are temporaries. *)
StepsOf(d, s) ==
  {st \in [do : {"launch", "upload", "hostcopy"}, cmd : CommandsOver(Names)] :
     /\ st.cmd.dst \in {d} \cup Temps
     /\ Reads(st.cmd) \subseteq {d, s} \cup Temps
     /\ st.do # "launch" => \E x \in Temps, v \in Inputs \cup {0} : st.cmd = Fill(x, v)
     /\ st.do = "upload" => st.cmd.val \in Inputs}

(* Uploads come first.                                                     *)
Effective(d, s) ==
  {p \in Seq(StepsOf(d, s)) : \A i \in DOMAIN p : i # 1 => p[i].do = "launch"}

Waiting(p) == p = <<Head(p)>> /\ Head(p).do = "wait"

Cmds(steps) == [i \in DOMAIN steps |-> steps[i].cmd]

(* What an operation does to the storages does not depend on what its      *)
(* temporaries held before.                                                *)
Pure(cs) ==
  \A m \in [Names -> Contents], n \in [Names -> Contents] :
    SameOn(m, n, Tensors) => SameOn(ExecAll(m, cs), ExecAll(n, cs), Tensors)

Program(d, s, p) ==
  \/ Waiting(p) /\ d = None
  \/ d \in Tensors /\ p \in Effective(d, s) /\ Pure(Cmds(p))

(* What is left is a part of the operation: all of it, if uploads are left.*)
Remains(th) ==
  LET o == op[th]
  IN IF Idle(th) THEN o = NoOp /\ seen[th] = None
     ELSE /\ Program(o.dst, o.src, o.steps) /\ o.steps # <<>>
          /\ o.dst = None => todo[th] = o.steps /\ seen[th] = None
          /\ o.dst # None =>
               /\ todo[th] \in Effective(o.dst, o.src)
               /\ Head(todo[th]).do # "launch" => todo[th] = o.steps
               /\ seen[th] # None => Head(todo[th]).do = "upload"

-----------------------------------------------------------------------------
StoreTyped ==
  /\ val \in [Tensors -> Contents] /\ read \in [Threads -> SUBSET Contents]
  /\ mem \in [Cells -> Contents]
CacheTyped ==
  /\ htod_mode \in Modes
  /\ htod_cache \in [Inputs -> Staged \cup {None}]
  /\ \A v, w \in Inputs :
       htod_cache[v] = htod_cache[w] /\ htod_cache[v] # None => v = w
WorkTyped == capture \in Work \cup {None} /\ graph \in Work \cup {None}
CallsTyped ==
  /\ seen \in [Threads -> Modes \cup {None}]
  /\ DOMAIN op = Threads /\ DOMAIN todo = Threads
  /\ \A th \in Threads :
       /\ DOMAIN op[th] = {"dst", "src", "steps"}
       /\ op[th].dst \in Tensors \cup {None} /\ op[th].src \in Tensors \cup {None}
  /\ \A th \in Threads : Remains(th)

Locked ==
  \A th, u \in Threads :
    th # u /\ op[th].dst # None => op[u].dst # op[th].dst /\ op[u].src # op[th].dst

(* Nobody but the driver uses the device during a capture.                 *)
Quiet ==
  /\ Capturing => \A th \in Threads : (th # Driver => Idle(th)) /\ seen[th] \in {None, "REPLAY"}
  /\ ~Capturing => \A th \in Threads : seen[th] # "REPLAY"

Alone ==
  /\ disturbed \in BOOLEAN
  /\ Capturing <=> htod_mode = "REPLAY"
  /\ ~disturbed => Quiet

Discipline == StoreTyped /\ CacheTyped /\ WorkTyped /\ CallsTyped /\ Locked /\ Alone

-----------------------------------------------------------------------------
(* Contents                                                                *)

Holds(m) == \A v \in Inputs : htod_cache[v] # None => m[htod_cache[v]] = v

(* Captured commands read staged buffers that are in the cache, and write  *)
(* none.                                                                   *)
Reading(cs, cache) ==
  \A i \in DOMAIN cs :
    /\ cs[i].dst \notin Staged
    /\ cs[i].src \in Staged => \E v \in Inputs : cache[v] = cs[i].src

StagedKept == Holds(mem) /\ \A w \in {capture, graph} \ {None} : Reading(w.cmds, htod_cache)

SeenBy(th, m) == [x \in Names |-> m[Cell(th, x)]]
Values == [x \in Names |-> IF x \in Tensors THEN val[x] ELSE 0]

Unwritten(t) == \A th \in Threads : op[th].dst # t
Current == \A t \in Tensors : Capturing \/ Unwritten(t) => mem[t] = val[t]
Cleared ==
  \A th \in Threads, x \in Temps : Capturing \/ Idle(th) => mem[<<th, x>>] = 0

(* The rest of an operation makes of memory what all of it makes of the    *)
(* storages' values.                                                       *)
Due(th) ==
  op[th].dst # None /\ ~Capturing =>
    ExecAll(SeenBy(th, mem), Cmds(todo[th]))[op[th].dst]
      = ExecAll(Values, Cmds(op[th].steps))[op[th].dst]

(* The commands cs do to storages, whatever is in them and given what is   *)
(* staged, what the operations' own commands ms do, once rest is done too. *)
Replays(cs, rest, ms) ==
  \A m \in [Cells -> Contents], n \in [Names -> Contents] :
    Holds(m) /\ SameOn(m, n, Tensors) =>
      SameOn(ExecAll(SeenBy(Driver, ExecAll(m, cs)), rest), ExecAll(n, ms), Tensors)

Own(cs) == \A i \in DOMAIN cs : cs[i].dst \in Tensors \cup ({Driver} \X Temps)
Covers(cs, rest, ms) == Touched(ms) \cap Tensors \subseteq Touched(cs) \cup Touched(rest)

Faithful(w) == Own(w.cmds) /\ Covers(w.cmds, <<>>, w.meant) /\ Replays(w.cmds, <<>>, w.meant)

Recorded ==
  Capturing =>
    /\ Own(capture.cmds)
    /\ Idle(Driver) \/ Head(todo[Driver]).do # "launch" => Faithful(capture)
    /\ op[Driver].dst # None =>
         LET rest == Cmds(todo[Driver])
             ms == capture.meant \o Cmds(op[Driver].steps)
         IN Covers(capture.cmds, rest, ms) /\ Replays(capture.cmds, rest, ms)

Agreement ==
  /\ Holds(mem) /\ Current /\ Cleared
  /\ \A th \in Threads : Due(th)
  /\ Recorded
  /\ graph # None => Faithful(graph)

(* The state while no capture has been disturbed.                          *)
Settled == Discipline /\ Agreement /\ ~disturbed

IInv == Discipline /\ StagedKept /\ (~disturbed => Agreement)

=============================================================================
