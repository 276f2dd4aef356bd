---------------------------- MODULE CudaCapture ----------------------------
(***************************************************************************)
(* Graph capture in the CUDA backend (cuda_backend/mod.rs). All work goes  *)
(* to one stream, in order; between capture_begin and capture_end it is    *)
(* recorded instead, and the graph can be launched any number of times.    *)
(* What the host uploads must then come from buffers on the device, which  *)
(* a record pass over the same work has staged, by content.                *)
(*                                                                         *)
(* The stream's asynchrony is left out: the host sees what memory holds    *)
(* only where it waits for all that is enqueued. As documented, tensors    *)
(* outlive the graphs that use them and a launch does not race operations  *)
(* on them. Nothing keeps other threads from the device while the stream   *)
(* captures: their work is recorded with the driver's. What is illegal     *)
(* inside a capture - waiting for the stream, a pageable copy from the     *)
(* host - fails there. A refused mode change has no effect and is no step. *)
(***************************************************************************)
EXTENDS CudaOps, FiniteSets

CONSTANTS
  Staged,       (* the buffers cached uploads may be kept in               *)
  Driver,       (* the thread that records, captures and launches          *)
  MaxCaptured   (* bound: steps captured, those of an operation that       *)
                (* begins included, but for one that copies from the host  *)

VARIABLES
  mem,        (* what storages, temporaries and staged buffers hold once   *)
              (* the stream has caught up                                  *)
  op,         (* the operation each thread runs: output, input, its steps  *)
  todo,       (* the steps that remain                                     *)
  seen,       (* the mode an upload under way has read                     *)
  htod_mode,  (* DeviceInner::htod_mode                                    *)
  htod_cache, (* DeviceInner::htod_cache                                   *)
  capture,    (* the workload captured so far, None outside of a capture:  *)
              (* its commands, and the operations they stand for           *)
  graph,      (* the CaptureGraph the driver holds                         *)
  disturbed   (* history: another thread used the device during a capture  *)

calls == <<op, todo, seen>>
vars == <<eager, mem, calls, htod_mode, htod_cache, capture, graph, disturbed>>

Modes == {"PASSTHROUGH", "RECORD", "REPLAY"}
Temps == {X, Y}
Cells == Tensors \cup Staged \cup (Threads \X Temps)
NoOp  == [dst |-> None, src |-> None, steps |-> <<>>]
Work   == [cmds : Seq(CommandsOver(Cells)), meant : Seq(CommandsOver(Tensors \cup Temps))]
NoWork == [cmds |-> <<>>, meant |-> <<>>]
Capturing == capture # None

(* Names of different kinds are different, and what is uploaded is         *)
(* contents.                                                               *)
ASSUME CaptureAssumption ==
  /\ Driver \in Threads /\ Inputs \subseteq Contents
  /\ Tensors \cap (Temps \cup Staged) = {}
  /\ (Tensors \cup Staged) \cap (Threads \X Temps) = {}
  /\ None \notin Cells \cup Modes \cup Work

TypeOK ==
  /\ EagerTypeOK
  /\ mem \in [Cells -> Contents]
  /\ seen \in [Threads -> Modes \cup {None}]
  /\ htod_mode \in Modes /\ disturbed \in BOOLEAN
  /\ htod_cache \in [Inputs -> Staged \cup {None}]
  /\ \A v, w \in Inputs :
       htod_cache[v] = htod_cache[w] /\ htod_cache[v] # None => v = w
  /\ \A w \in {capture, graph} \ {None} :
       Touched(w.cmds) \subseteq Cells /\ Touched(w.meant) \subseteq Tensors \cup Temps
  /\ \A th \in Threads : todo[th] = <<>> => op[th] = NoOp /\ seen[th] = None

Init ==
  /\ val = [t \in Tensors |-> 0] /\ read = [th \in Threads |-> {}]
  /\ mem = [c \in Cells |-> 0]
  /\ op = [th \in Threads |-> NoOp] /\ todo = [th \in Threads |-> <<>>]
  /\ seen = [th \in Threads |-> None]
  /\ htod_mode = "PASSTHROUGH"
  /\ htod_cache = [v \in Inputs |-> None]
  /\ capture = None /\ graph = None /\ disturbed = FALSE

-----------------------------------------------------------------------------
(* What a list of commands makes of the contents of the storages.          *)
Rerun(cs) ==
  LET after == ExecAll([x \in Tensors \cup Temps |-> IF x \in Tensors THEN val[x] ELSE 0], cs)
  IN [t \in Tensors |-> after[t]]

(* What an operation does to storages. One that waits does nothing else.   *)
Meaning(steps) ==
  IF Head(steps).do = "wait" THEN <<>> ELSE [i \in DOMAIN steps |-> steps[i].cmd]

Cell(th, x) == IF x \in Temps THEN <<th, x>> ELSE x
InCells(th, c) ==
  [c EXCEPT !.dst = Cell(th, @), !.src = Cell(th, @),
            !.aux = IF c.op = "merge" THEN Cell(th, @) ELSE @]

(* Freed: temporaries when the operation is over, staged buffers.          *)
Recycled(m, cells) == [c \in Cells |-> IF c \in cells THEN 0 ELSE m[c]]

(* The stream executes a command, or the capture records it.               *)
Enqueued(m, c) == IF Capturing THEN m ELSE Exec(m, c)
Captured(c) == IF Capturing THEN [capture EXCEPT !.cmds = Append(@, c)] ELSE capture

-----------------------------------------------------------------------------
(* Operations, under the locks of the tensors they name.                   *)
(* Bound: threads other than the driver only bring in new contents.        *)

Idle(th) == todo[th] = <<>>
Apart(u, ts) == {op[u].dst, op[u].src} \cap ts = {}

Begin(th, d, s, steps) ==
  /\ Idle(th) /\ steps # <<>>
  /\ th # Driver => s = None /\ Head(steps).do = "upload"
  /\ Capturing => \/ Head(steps).do = "hostcopy"
                  \/ Len(capture.meant) + Len(steps) <= MaxCaptured
  /\ \A u \in Threads : Apart(u, {d} \ {None}) /\ op[u].dst \notin {s} \ {None}
  /\ op' = [op EXCEPT ![th] = [dst |-> d, src |-> s, steps |-> steps]]
  /\ todo' = [todo EXCEPT ![th] = steps]
  /\ disturbed' = (disturbed \/ (Capturing /\ th # Driver))
  /\ UNCHANGED <<eager, mem, seen, htod_mode, htod_cache, capture, graph>>

Next1(th, do) == ~Idle(th) /\ Head(todo[th]).do = do
NextCmd(th) == InCells(th, Head(todo[th]).cmd)

(* A step is over: memory is m and the capture c. The last one returns.    *)
Advance(th, m, c) ==
  LET last == Len(todo[th]) = 1
      cs == Meaning(op[th].steps)
  IN /\ todo' = [todo EXCEPT ![th] = Tail(@)]
     /\ seen' = [seen EXCEPT ![th] = None]
     /\ mem' = IF last THEN Recycled(m, {th} \X Temps) ELSE m
     /\ op' = IF last THEN [op EXCEPT ![th] = NoOp] ELSE op
     /\ capture' = IF last /\ Capturing THEN [c EXCEPT !.meant = @ \o cs] ELSE c
     /\ val' = IF last /\ ~Capturing THEN Rerun(cs) ELSE val
     /\ UNCHANGED <<read, htod_mode, graph, disturbed>>

LaunchKernel(th) ==
  /\ Next1(th, "launch")
  /\ Advance(th, Enqueued(mem, NextCmd(th)), Captured(NextCmd(th)))
  /\ UNCHANGED htod_cache

(* The operation returns an error before it has launched anything.         *)
Fail(th) ==
  /\ todo' = [todo EXCEPT ![th] = <<>>]
  /\ op' = [op EXCEPT ![th] = NoOp]
  /\ seen' = [seen EXCEPT ![th] = None]
  /\ UNCHANGED <<eager, mem, htod_mode, htod_cache, capture, graph, disturbed>>

(* CUDA refuses a pageable host copy while the stream captures, and there  *)
(* may be no graph then.                                                   *)
HostToDevice(th) ==
  IF Capturing THEN Fail(th)
  ELSE Advance(th, Exec(mem, NextCmd(th)), capture) /\ UNCHANGED htod_cache

CopyFromHost(th) ==
  /\ Next1(th, "hostcopy")
  /\ HostToDevice(th)

(* It refuses to wait for a stream that captures.                          *)
HostWait(th) ==
  /\ Next1(th, "wait")
  /\ IF Capturing THEN Fail(th) ELSE Advance(th, mem, capture) /\ UNCHANGED htod_cache

(* cached_htod: the mode is read first, without the cache's mutex.         *)
LoadMode(th) ==
  /\ Next1(th, "upload") /\ seen[th] = None
  /\ seen' = [seen EXCEPT ![th] = htod_mode]
  /\ UNCHANGED <<eager, mem, op, todo, htod_mode, htod_cache, capture, graph, disturbed>>

UploadPlain(th) ==
  /\ seen[th] = "PASSTHROUGH"
  /\ HostToDevice(th)

Unused == Staged \ {htod_cache[v] : v \in Inputs}

(* Two ways to get cached_htod wrong: staging content again, which frees   *)
(* the buffer that was staged before, and serving whatever is staged.      *)
UploadRestages(th) ==
  /\ seen[th] \in {"RECORD", "REPLAY"}
  /\ LET v == Head(todo[th]).cmd.val IN
       \E b \in IF seen[th] = "RECORD" THEN Unused ELSE {htod_cache[v]} \ {None} :
         LET staged == IF seen[th] = "RECORD"
                       THEN Exec(Recycled(mem, {htod_cache[v]}), Fill(b, v)) ELSE mem
             copied == Copy(NextCmd(th).dst, b)
         IN /\ htod_cache' = [htod_cache EXCEPT ![v] = b]
            /\ Advance(th, Enqueued(staged, copied), Captured(copied))

UploadAnyContent(th) ==
  \/ UploadRestages(th)
  \/ /\ seen[th] = "RECORD"
     /\ \E b \in Staged \ Unused :
          LET copied == Copy(NextCmd(th).dst, b)
          IN /\ htod_cache' = [htod_cache EXCEPT ![Head(todo[th]).cmd.val] = b]
             /\ Advance(th, Enqueued(mem, copied), Captured(copied))

(* The content is staged already, or is staged now; a copy from there. The *)
(* cache's mutex is held.                                                  *)
UploadCached(th) ==
  /\ seen[th] \in {"RECORD", "REPLAY"}
  /\ LET v == Head(todo[th]).cmd.val IN
       \E b \in IF htod_cache[v] # None THEN {htod_cache[v]}
                ELSE IF seen[th] = "RECORD" /\ ~Capturing THEN Unused ELSE {} :
         LET staged == IF htod_cache[v] # None THEN mem ELSE Exec(mem, Fill(b, v))
             copied == Copy(NextCmd(th).dst, b)
         IN /\ htod_cache' = [htod_cache EXCEPT ![v] = b]
            /\ Advance(th, Enqueued(staged, copied), Captured(copied))

(* Content nobody recorded, or that cannot be staged any more because the  *)
(* stream captures by now: the operation returns the error.                *)
UploadUnrecorded(th) ==
  /\ seen[th] = "REPLAY" \/ (seen[th] = "RECORD" /\ Capturing)
  /\ htod_cache[Head(todo[th]).cmd.val] = None
  /\ Fail(th)

-----------------------------------------------------------------------------
(* Recording and capturing, between the driver's operations.               *)

set_htod_mode(from, to) ==
  /\ htod_mode = from
  /\ htod_mode' = to

capture_record_begin ==
  /\ set_htod_mode("PASSTHROUGH", "RECORD")
  /\ UNCHANGED <<eager, mem, calls, htod_cache, capture, graph, disturbed>>
capture_record_end ==
  /\ set_htod_mode("RECORD", "PASSTHROUGH")
  /\ UNCHANGED <<eager, mem, calls, htod_cache, capture, graph, disturbed>>

(* begin_capture failing, which puts the mode back, changes nothing.       *)
capture_begin ==
  /\ set_htod_mode("PASSTHROUGH", "REPLAY")
  /\ capture' = NoWork
  /\ disturbed' = (disturbed \/ \E th \in Threads : ~Idle(th))
  /\ UNCHANGED <<eager, mem, calls, htod_cache, graph>>

(* Sets the mode whatever it is. The driver may get no graph, if the       *)
(* stream was not capturing or the instantiation fails, and keeps its old. *)
capture_end ==
  /\ htod_mode' = "PASSTHROUGH"
  /\ graph' \in {graph, IF Capturing THEN capture ELSE graph}
  /\ capture' = None
  /\ UNCHANGED <<eager, mem, calls, htod_cache, disturbed>>

capture_abort ==
  /\ htod_mode' = "PASSTHROUGH"
  /\ capture' = None
  /\ UNCHANGED <<eager, mem, calls, htod_cache, graph, disturbed>>

Launchable ==
  /\ graph # None /\ ~Capturing
  /\ \A u \in Threads : Apart(u, Touched(graph.cmds))

(* CaptureGraph::launch                                                    *)
launch ==
  /\ Launchable
  /\ mem' = Recycled(ExecAll(mem, graph.cmds), {Driver} \X Temps)
  /\ val' = Rerun(graph.meant)
  /\ UNCHANGED <<read, calls, htod_mode, htod_cache, capture, graph, disturbed>>

DropGraph ==
  /\ graph # None
  /\ graph' = None
  /\ UNCHANGED <<eager, mem, calls, htod_mode, htod_cache, capture, disturbed>>

(* Documented: not while a graph may still be launched.                    *)
capture_cache_clear ==
  /\ graph = None /\ ~Capturing
  /\ htod_cache' = [v \in Inputs |-> None]
  /\ mem' = Recycled(mem, {htod_cache[v] : v \in Inputs})
  /\ UNCHANGED <<eager, calls, htod_mode, capture, graph, disturbed>>

-----------------------------------------------------------------------------
Start(th) ==
  /\ Idle(th)
  /\ \/ \E p \in synchronize : Begin(th, None, None, p)
     \/ \E t \in Tensors :
          \/ \E p \in data(t) : Begin(th, None, t, p)
          \/ \E p \in AlonePrograms[t] : Begin(th, t, None, p)
          \/ \E s \in Tensors \ {t} :
               \E p \in PairPrograms[t][s] \cup quantize_fp8(t, s) : Begin(th, t, s, p)

Proceed(th) ==
  \/ LaunchKernel(th) \/ CopyFromHost(th) \/ HostWait(th)
  \/ LoadMode(th) \/ UploadPlain(th) \/ UploadCached(th) \/ UploadUnrecorded(th)

Control ==
  /\ Idle(Driver)
  /\ \/ capture_record_begin \/ capture_record_end
     \/ capture_begin \/ capture_end \/ capture_abort
     \/ launch \/ DropGraph \/ capture_cache_clear

Next == Control \/ \E th \in Threads : Start(th) \/ Proceed(th)

Spec == Init /\ [][Next]_vars

-----------------------------------------------------------------------------
(* Properties                                                              *)

(* As long as only the driver used the device during captures: storages no *)
(* operation is writing hold what eager execution gave them, uploads       *)
(* cached or not, and launching the graph the driver holds would give what *)
(* running the captured operations again would.                            *)
AsIfEager ==
  ~disturbed =>
    /\ \A t \in Tensors : (\A th \in Threads : op[th].dst # t) => mem[t] = val[t]
    /\ Launchable =>
         \A t \in Tensors :
           (\A th \in Threads : op[th].dst # t) =>
             ExecAll(mem, graph.cmds)[t] = Rerun(graph.meant)[t]

(* Whoever uploads during a capture, and whatever mode it has seen: what   *)
(* is captured reads from the host's side only buffers that are in the     *)
(* cache, each with the content it was staged for.                         *)
GraphReadsStaged ==
  \A w \in {capture, graph} \ {None} : \A i \in DOMAIN w.cmds :
    LET b == w.cmds[i].src
    IN b \in Staged => \E v \in Inputs : htod_cache[v] = b /\ mem[b] = v

=============================================================================
