------------------------- MODULE WebGpuBatchProofs -------------------------
(***************************************************************************)
(* The safety of the WebGPU backend's batches, and that deferring is       *)
(* invisible, for every number of threads, storages and buffers.           *)
(***************************************************************************)
EXTENDS WebGpuInductive

-----------------------------------------------------------------------------
(* The steps of operations                                                 *)

StepTypes ==
  [do : {"new", "drop", "read", "flush", "copy", "dispatch", "upload", "compute"},
   cmd : StorageCommands]

LEMMA StorageCommandTypes ==
  ASSUME NEW d \in Tensors, NEW s \in Tensors
  PROVE  /\ Accum(d, s) \in StorageCommands /\ Copy(d, s) \in StorageCommands
         /\ \A v \in Contents : Fill(d, v) \in StorageCommands
         /\ 0 \in Contents
BY NValAssumption DEF Contents, Fill, Accum, Copy, StorageCommands

LEMMA StepsTyped ==
  ASSUME NEW d \in Tensors, NEW s \in Tensors
  PROVE  /\ New(d) \in StepTypes /\ Drop(d) \in StepTypes /\ ToHost(s) \in StepTypes
         /\ RunKernel(d, s) \in StepTypes /\ CopyTo(d, s) \in StepTypes
         /\ Compute(Copy(d, s)) \in StepTypes /\ Compute(Accum(d, s)) \in StepTypes
         /\ \A v \in Inputs : Upload(d, v) \in StepTypes /\ Do("dispatch", Fill(d, v)) \in StepTypes
<1>1. \A do \in {"new", "drop", "read", "flush", "copy", "dispatch", "upload", "compute"},
         c \in StorageCommands : Do(do, c) \in StepTypes
  BY DEF Do, StepTypes
<1>2. Fill(s, 0) \in StorageCommands
  BY StorageCommandTypes
<1> QED
  BY <1>1, <1>2, StorageCommandTypes, BatchAssumption
     DEF New, Drop, RunKernel, CopyTo, Upload, Compute, ToHost

Programs == Seq(StepTypes)

LEMMA AloneTyped ==
  ASSUME NEW d \in Tensors
  PROVE  AlonePrograms(d) \subseteq Programs
<1>1. ASSUME NEW v \in Inputs
      PROVE  fill(d, v) \cup rand_uniform(d, v) \cup randn(d, v) \subseteq Programs
  BY StepsTyped DEF fill, rand_uniform, randn, Programs
<1>2. inplace_unary(d) \subseteq Programs /\ apply_causality_mask(d) \subseteq Programs
  BY StepsTyped DEF inplace_unary, apply_causality_mask, OnGpu, Programs
<1> QED  BY <1>1, <1>2 DEF AlonePrograms

LEMMA PairTyped ==
  ASSUME NEW d \in Tensors, NEW s \in Tensors
  PROVE  PairPrograms(d, s) \subseteq Programs
<1>1. /\ Copied(d, s) \subseteq Programs /\ OnGpu(d, s) \subseteq Programs
      /\ OnHost(d, s) \subseteq Programs /\ InPlaceOnHost(d, s) \subseteq Programs
      /\ {<<>>} \subseteq Programs
  <2>1. ToHost(d) \in StepTypes
    BY StepsTyped
  <2> QED  BY <2>1, StepsTyped DEF Copied, OnGpu, OnHost, InPlaceOnHost, Programs
<1>2. Anywhere(d, s) \subseteq Programs
  BY <1>1 DEF Anywhere
<1>3. Described(d) \subseteq Programs
  <2> SUFFICES ASSUME NEW x \in Tensors
               PROVE  <<New(x), RunKernel(d, x), Drop(x)>> \in Programs
    BY DEF Described
  <2> QED  BY StepsTyped DEF Programs
<1>4. conv1d_im2col(d, s) \subseteq Programs
  <2> SUFFICES ASSUME NEW x \in Tensors, NEW y \in Tensors, NEW last \in Transposed(d, y)
               PROVE  <<New(x), RunKernel(x, s), New(y), RunKernel(y, x), last, Drop(y), Drop(x)>>
                        \in Programs
    BY DEF conv1d_im2col
  <2>1. last \in StepTypes
    BY StepsTyped DEF Transposed
  <2>2. /\ New(x) \in StepTypes /\ New(y) \in StepTypes /\ Drop(x) \in StepTypes
        /\ Drop(y) \in StepTypes /\ RunKernel(x, s) \in StepTypes /\ RunKernel(y, x) \in StepTypes
    BY StepsTyped
  <2> QED  BY <2>1, <2>2 DEF Programs
<1>5. conv_transpose1d_col2im(d, s) \subseteq Programs
  <2> SUFFICES ASSUME NEW x \in Tensors, NEW y \in Tensors, NEW first \in Transposed(x, s)
               PROVE  <<New(x), first, New(y), RunKernel(y, x), RunKernel(d, y), Drop(y), Drop(x)>>
                        \in Programs
    BY DEF conv_transpose1d_col2im
  <2>1. first \in StepTypes
    BY StepsTyped DEF Transposed
  <2>2. /\ New(x) \in StepTypes /\ New(y) \in StepTypes /\ Drop(x) \in StepTypes
        /\ Drop(y) \in StepTypes /\ RunKernel(y, x) \in StepTypes /\ RunKernel(d, y) \in StepTypes
    BY StepsTyped
  <2> QED  BY <2>1, <2>2 DEF Programs
<1> HIDE DEF Programs
<1> QED
  BY <1>1, <1>2, <1>3, <1>4, <1>5, Zenon
     DEF PairPrograms, copy, to_dtype, unary, bin_assign, binary, scale_add, transpose, copy2d,
         rope, rope_i, gemm, index_select, softmax, rms_norm, layer_norm, reduce, reduce_arg,
         copy_strided, scatter_set, broadcast_binary, conv1d, conv_transpose1d

LEMMA StepsOnTyped ==
  ASSUME NEW t \in Tensors, NEW c \in StepsOn[t]
  PROVE  c \in StepTypes /\ c.cmd \in StorageCommands /\ c.cmd.dst = t
<1> DEFINE programs == AlonePrograms(t) \cup UNION {PairPrograms(t, s) : s \in Tensors \ {t}}
<1>1. c \in UNION {ToSet(p) : p \in programs} /\ c.cmd.dst = t
  BY DEF StepsOn
<1>2. programs \subseteq Programs
  BY AloneTyped, PairTyped
<1>3. \A p \in Programs : ToSet(p) \subseteq StepTypes
  BY DEF Programs, ToSet
<1>4. c \in StepTypes
  BY <1>1, <1>2, <1>3
<1> QED  BY <1>1, <1>4 DEF StepTypes

LEMMA KernelsTyped ==
  ASSUME NEW t \in Tensors, NEW c \in KernelsOn[t]
  PROVE  c \in StorageCommands /\ c.dst = t
BY StepsOnTyped DEF KernelsOn

-----------------------------------------------------------------------------
(* Submissions                                                             *)

DeviceCommands == CommandsOver(Locations)

LEMMA CommandTypes ==
  /\ HostWrites \subseteq DeviceCommands
  /\ \A c \in Recorded : c.op # "fill" => c \in DeviceCommands
  /\ \A c \in Recorded, v \in Contents : Fill(c.dst, v) \in DeviceCommands
  /\ \A b \in Buffers, th \in Threads : Copy(th, b) \in Recorded
  /\ \A a, b \in Buffers : Copy(a, b) \in Recorded
<1>1. 0 \in Contents
  BY NValAssumption DEF Contents
<1> QED
  BY <1>1 DEF HostWrites, DeviceCommands, CommandsOver, Recorded, Fill, Copy, Locations

LEMMA WritesType == Seq(HostWrites) \subseteq Seq(DeviceCommands)
BY CommandTypes

LEMMA ResolvedType ==
  ASSUME NEW cs \in Seq(Recorded), NEW ps \in Seq(Contents), SlotsIn(cs, ps)
  PROVE  /\ Resolved(cs, ps) \in Seq(DeviceCommands)
         /\ DOMAIN Resolved(cs, ps) = DOMAIN cs
         /\ \A i \in DOMAIN cs : Resolved(cs, ps)[i].dst = cs[i].dst
<1>1. \A i \in DOMAIN cs : /\ Resolved(cs, ps)[i] \in DeviceCommands
                           /\ Resolved(cs, ps)[i].dst = cs[i].dst
  <2> SUFFICES ASSUME NEW i \in DOMAIN cs
               PROVE  /\ Resolved(cs, ps)[i] \in DeviceCommands
                      /\ Resolved(cs, ps)[i].dst = cs[i].dst
    OBVIOUS
  <2>1. cs[i] \in Recorded
    OBVIOUS
  <2>2. CASE cs[i].op = "fill"
    <3>1. ps[cs[i].val] \in Contents
      BY <2>2 DEF SlotsIn
    <3>2. Resolved(cs, ps)[i] = Fill(cs[i].dst, ps[cs[i].val])
      BY <2>2 DEF Resolved
    <3> QED  BY <2>1, <3>1, <3>2, CommandTypes DEF Fill
  <2>3. CASE cs[i].op # "fill"
    <3>1. Resolved(cs, ps)[i] = cs[i]
      BY <2>3 DEF Resolved
    <3> QED  BY <2>1, <2>3, <3>1, CommandTypes
  <2> QED  BY <2>2, <2>3
<1>2. DOMAIN Resolved(cs, ps) = DOMAIN cs /\ DOMAIN cs = 1 .. Len(cs) /\ Len(cs) \in Nat
  BY DEF Resolved
<1>3. Resolved(cs, ps) = [i \in 1 .. Len(cs) |-> Resolved(cs, ps)[i]]
  BY <1>2 DEF Resolved
<1> HIDE DEF Resolved
<1>4. Resolved(cs, ps) \in Seq(DeviceCommands)
  BY <1>1, <1>2, <1>3
<1> QED  BY <1>1, <1>2, <1>4

(* Recording a command: the slots of the ones before it stay theirs.       *)
LEMMA ResolvedExtend ==
  ASSUME NEW cs \in Seq(Recorded), NEW ps \in Seq(Contents), SlotsIn(cs, ps),
         NEW c \in Recorded, NEW qs, \A i \in 1 .. Len(ps) : qs[i] = ps[i],
         NEW e \in DeviceCommands,
         e = IF c.op = "fill" THEN Fill(c.dst, qs[c.val]) ELSE c
  PROVE  Resolved(Append(cs, c), qs) = Append(Resolved(cs, ps), e)
<1> DEFINE n == Len(cs)
           new == Append(cs, c)
           R == Resolved(cs, ps)
           Q == Resolved(new, qs)
<1>1. /\ DOMAIN new = 1 .. n + 1 /\ new[n + 1] = c /\ \A i \in 1 .. n : new[i] = cs[i]
      /\ DOMAIN cs = 1 .. n /\ n \in Nat
  OBVIOUS
<1>2. R \in Seq(DeviceCommands) /\ DOMAIN R = DOMAIN cs
  BY ResolvedType
<1>3. Len(R) = n
  BY <1>1, <1>2
<1> HIDE DEF n, new
<1>4. /\ \A i \in 1 .. n : R[i] = IF cs[i].op = "fill" THEN Fill(cs[i].dst, ps[cs[i].val]) ELSE cs[i]
      /\ Q = [i \in 1 .. n + 1 |->
                IF new[i].op = "fill" THEN Fill(new[i].dst, qs[new[i].val]) ELSE new[i]]
  BY <1>1 DEF Resolved
<1>5. \A i \in 1 .. n : cs[i].op = "fill" => qs[cs[i].val] = ps[cs[i].val]
  BY <1>1 DEF SlotsIn
<1> HIDE DEF R, Q
<1>6. \A i \in 1 .. n + 1 : Q[i] = IF i = n + 1 THEN e ELSE R[i]
  BY <1>1, <1>4, <1>5
<1>7. Append(R, e) = [i \in 1 .. n + 1 |-> IF i = n + 1 THEN e ELSE R[i]]
  BY <1>2, <1>3
<1>8. Q = [i \in 1 .. n + 1 |-> Q[i]]
  BY <1>4
<1>9. Q = Append(R, e)
  BY <1>6, <1>7, <1>8
<1> QED  BY <1>9 DEF Q, R, new

LEMMA ResolvedAppend ==
  ASSUME NEW cs \in Seq(Recorded), NEW ps \in Seq(Contents), SlotsIn(cs, ps),
         NEW c \in Recorded, c.op # "fill", NEW qs \in Seq(Contents),
         qs = ps \/ \E v \in Contents : qs = Append(ps, v)
  PROVE  Resolved(Append(cs, c), qs) = Append(Resolved(cs, ps), c)
<1>1. c \in DeviceCommands
  BY CommandTypes
<1>2. \A i \in 1 .. Len(ps) : qs[i] = ps[i]
  OBVIOUS
<1> QED  BY <1>1, <1>2, ResolvedExtend

LEMMA ResolvedFill ==
  ASSUME NEW cs \in Seq(Recorded), NEW ps \in Seq(Contents), SlotsIn(cs, ps),
         NEW d \in Buffers, NEW v \in Contents
  PROVE  Resolved(Append(cs, Fill(d, Len(ps) + 1)), Append(ps, v))
           = Append(Resolved(cs, ps), Fill(d, v))
<1> DEFINE c == Fill(d, Len(ps) + 1)
           qs == Append(ps, v)
<1>1. c \in Recorded /\ c.op = "fill" /\ c.dst = d /\ c.val = Len(ps) + 1
  BY DEF Fill, Recorded, Locations
<1>2. qs[Len(ps) + 1] = v /\ \A i \in 1 .. Len(ps) : qs[i] = ps[i]
  OBVIOUS
<1>3. Fill(d, v) \in DeviceCommands
  BY <1>1, CommandTypes
<1>4. Fill(d, v) = IF c.op = "fill" THEN Fill(c.dst, qs[c.val]) ELSE c
  BY <1>1, <1>2
<1> HIDE DEF c, qs
<1>5. Resolved(Append(cs, c), qs) = Append(Resolved(cs, ps), Fill(d, v))
  BY <1>1, <1>2, <1>3, <1>4, ResolvedExtend
<1> QED  BY <1>5 DEF c, qs

-----------------------------------------------------------------------------
(* Running submissions, by induction on their number                       *)

Mems == [Locations -> Contents]

(* f is the memory after each of the first n submissions.                  *)
RunTrace(m, subs, n, f) ==
  f = [i \in 0 .. n |-> IF i = 0 THEN m ELSE Run(f[i - 1], subs[i])]

LEMMA RunTraceExists ==
  ASSUME NEW m, NEW subs, NEW n \in Nat
  PROVE  \E f : RunTrace(m, subs, n, f)
<1> DEFINE S == {k \in Nat : \E f : RunTrace(m, subs, k, f)}
<1>1. 0 \in S
  <2>1. RunTrace(m, subs, 0, [i \in 0 .. 0 |-> m])
    BY DEF RunTrace
  <2> QED  BY <2>1
<1>2. ASSUME NEW k \in Nat, k \in S PROVE k + 1 \in S
  <2>1. PICK f : RunTrace(m, subs, k, f)
    BY <1>2
  <2> DEFINE g == [i \in 0 .. k + 1 |-> IF i = k + 1 THEN Run(f[k], subs[k + 1]) ELSE f[i]]
  <2>2. \A i \in 0 .. k : f[i] = IF i = 0 THEN m ELSE Run(f[i - 1], subs[i])
    BY <2>1 DEF RunTrace
  <2>3. \A i \in 0 .. k + 1 : g[i] = IF i = 0 THEN m ELSE Run(g[i - 1], subs[i])
    BY <2>2
  <2>4. RunTrace(m, subs, k + 1, g)
    BY <2>3 DEF RunTrace
  <2> QED  BY <2>4
<1> HIDE DEF S
<1>3. Nat \subseteq S
  BY <1>1, <1>2, Induction
<1> QED  BY <1>3 DEF S

LEMMA RunAllTrace ==
  ASSUME NEW m, NEW subs, Len(subs) \in Nat
  PROVE  \E f : RunTrace(m, subs, Len(subs), f) /\ RunAll(m, subs) = f[Len(subs)]
<1> DEFINE F == CHOOSE f : RunTrace(m, subs, Len(subs), f)
<1>1. RunTrace(m, subs, Len(subs), F)
  BY RunTraceExists
<1>2. RunAll(m, subs) = F[Len(subs)]
  BY DEF RunAll, RunTrace
<1> QED  BY <1>1, <1>2

LEMMA RunAllEmpty == ASSUME NEW m PROVE RunAll(m, <<>>) = m
<1>1. Len(<<>>) = 0
  OBVIOUS
<1>2. PICK f : RunTrace(m, <<>>, 0, f) /\ RunAll(m, <<>>) = f[0]
  BY <1>1, RunAllTrace
<1> QED  BY <1>2 DEF RunTrace

LEMMA RunAllAppend ==
  ASSUME NEW m, NEW subs \in Seq(Submissions), NEW sub \in Submissions
  PROVE  RunAll(m, Append(subs, sub)) = Run(RunAll(m, subs), sub)
<1> DEFINE n == Len(subs)
           more == Append(subs, sub)
<1>1. /\ n \in Nat /\ n + 1 \in Nat /\ n <= n + 1
      /\ Len(more) = n + 1 /\ more[n + 1] = sub /\ \A i \in 1 .. n : subs[i] = more[i]
  OBVIOUS
<1> HIDE DEF n, more
<1>2. PICK f : RunTrace(m, subs, n, f) /\ RunAll(m, subs) = f[n]
  BY <1>1, RunAllTrace DEF n
<1>3. PICK g : RunTrace(m, more, n + 1, g) /\ RunAll(m, more) = g[n + 1]
  BY <1>1, RunAllTrace
<1>4. /\ \A i \in 0 .. n : f[i] = IF i = 0 THEN m ELSE Run(f[i - 1], subs[i])
      /\ \A i \in 0 .. n + 1 : g[i] = IF i = 0 THEN m ELSE Run(g[i - 1], more[i])
  BY <1>2, <1>3 DEF RunTrace
<1>5. f[n] = g[n]
  <2> DEFINE S == {i \in Nat : i <= n => f[i] = g[i]}
  <2>1. 0 \in S
    BY <1>1, <1>4
  <2>2. ASSUME NEW i \in Nat, i \in S PROVE i + 1 \in S
    <3> SUFFICES ASSUME i + 1 <= n PROVE f[i + 1] = g[i + 1]
      OBVIOUS
    <3>1. /\ i + 1 \in 1 .. n /\ i + 1 \in 0 .. n /\ i + 1 \in 0 .. n + 1
          /\ i + 1 # 0 /\ i + 1 - 1 = i /\ i <= n
      BY <1>1
    <3>2. f[i] = g[i]
      BY <2>2, <3>1
    <3>3. f[i + 1] = Run(f[i], subs[i + 1]) /\ g[i + 1] = Run(g[i], more[i + 1])
      BY <1>4, <3>1
    <3> QED  BY <1>1, <3>1, <3>2, <3>3
  <2> HIDE DEF S
  <2>3. Nat \subseteq S
    BY <2>1, <2>2, Induction
  <2> QED  BY <1>1, <2>3 DEF S
<1>6. g[n + 1] = Run(g[n], more[n + 1])
  <2>1. n + 1 \in 0 .. n + 1 /\ n + 1 # 0 /\ n + 1 - 1 = n
    BY <1>1
  <2> QED  BY <1>1, <1>4, <2>1
<1> QED  BY <1>1, <1>2, <1>3, <1>5, <1>6 DEF more

(* The first submission executes, the others are still to run.             *)
LEMMA RunAllFirst ==
  ASSUME NEW m, NEW subs \in Seq(Submissions), subs # <<>>
  PROVE  RunAll(m, subs) = RunAll(Run(m, Head(subs)), Tail(subs))
<1> DEFINE Same(ss) == RunAll(m, ss) = RunAll(Run(m, Head(ss)), Tail(ss))
           S == {n \in Nat : \A ss \in Seq(Submissions) : Len(ss) = n /\ ss # <<>> => Same(ss)}
<1>1. 0 \in S
  BY EmptySeq
<1>2. ASSUME NEW n \in Nat, n \in S PROVE n + 1 \in S
  <2> SUFFICES ASSUME NEW ss \in Seq(Submissions), Len(ss) = n + 1 PROVE Same(ss)
    OBVIOUS
  <2>1. PICK es \in Seq(Submissions), e \in Submissions : ss = Append(es, e) /\ Len(es) = n
    BY ListCases
  <2>2. RunAll(m, ss) = Run(RunAll(m, es), e)
    BY <2>1, RunAllAppend
  <2>3. CASE es = <<>>
    <3>1. Head(ss) = e /\ Tail(ss) = <<>>
      BY <2>1, <2>3
    <3>2. RunAll(m, es) = m
      BY <2>3, RunAllEmpty
    <3> QED  BY <2>2, <3>1, <3>2, RunAllEmpty
  <2>4. CASE es # <<>>
    <3>1. Head(ss) = Head(es) /\ Tail(ss) = Append(Tail(es), e) /\ Tail(es) \in Seq(Submissions)
      BY <2>1, <2>4
    <3>2. Same(es)
      BY <1>2, <2>1, <2>4
    <3>3. RunAll(Run(m, Head(ss)), Tail(ss)) = Run(RunAll(Run(m, Head(es)), Tail(es)), e)
      BY <3>1, RunAllAppend
    <3> QED  BY <2>2, <3>2, <3>3
  <2> QED  BY <2>3, <2>4
<1> HIDE DEF S
<1>3. Nat \subseteq S
  BY <1>1, <1>2, Induction
<1>4. Len(subs) \in S
  BY <1>3
<1> QED  BY <1>4 DEF S

(* What one submission does.                                               *)
Flow(sub) == sub.writes \o Resolved(sub.cmds, sub.params)

LEMMA FlowType ==
  ASSUME NEW sub \in Submissions
  PROVE  /\ sub.writes \in Seq(DeviceCommands)
         /\ Resolved(sub.cmds, sub.params) \in Seq(DeviceCommands)
         /\ Flow(sub) \in Seq(DeviceCommands)
         /\ \A m : Run(m, sub) = ExecAll(m, Flow(sub))
<1>1. /\ sub.writes \in Seq(HostWrites) /\ sub.params \in Seq(Contents)
      /\ sub.cmds \in Seq(Recorded) /\ SlotsIn(sub.cmds, sub.params)
  BY DEF Submissions
<1>2. sub.writes \in Seq(DeviceCommands)
  BY <1>1, WritesType
<1>3. Resolved(sub.cmds, sub.params) \in Seq(DeviceCommands)
  BY <1>1, ResolvedType
<1>4. \A m : Run(m, sub) = ExecAll(m, Flow(sub))
  BY DEF Run, Flow
<1> QED  BY <1>2, <1>3, <1>4 DEF Flow

LEMMA RunType ==
  ASSUME NEW m \in Mems, NEW sub \in Submissions
  PROVE  Run(m, sub) \in Mems
BY FlowType, ExecAllType DEF Mems, DeviceCommands

LEMMA RunAllType ==
  ASSUME NEW m \in Mems, NEW subs \in Seq(Submissions)
  PROVE  RunAll(m, subs) \in Mems
<1> DEFINE S == {n \in Nat : \A ss \in Seq(Submissions) : Len(ss) = n => RunAll(m, ss) \in Mems}
<1>1. 0 \in S
  BY RunAllEmpty, EmptySeq
<1>2. ASSUME NEW n \in Nat, n \in S PROVE n + 1 \in S
  <2> SUFFICES ASSUME NEW ss \in Seq(Submissions), Len(ss) = n + 1
               PROVE  RunAll(m, ss) \in Mems
    OBVIOUS
  <2>1. PICK es \in Seq(Submissions), e \in Submissions : ss = Append(es, e) /\ Len(es) = n
    BY ListCases
  <2> QED  BY <1>2, <2>1, RunAllAppend, RunType
<1> HIDE DEF S
<1>3. Nat \subseteq S
  BY <1>1, <1>2, Induction
<1>4. Len(subs) \in S
  BY <1>3
<1> QED  BY <1>4 DEF S

(* A readback buffer that no command copies to keeps its contents.         *)
LEMMA FlowUnread ==
  ASSUME NEW m \in Mems, NEW th \in Threads, NEW ws \in Seq(HostWrites)
  PROVE  ExecAll(m, ws)[th] = m[th]
<1>1. Spares(ws, th)
  BY BatchAssumption DEF Spares, HostWrites, Fill
<1>2. th \in Locations /\ ws \in Seq(CommandsOver(Locations)) /\ m \in [Locations -> Contents]
  BY WritesType DEF Locations, DeviceCommands, Mems
<1> QED  BY <1>1, <1>2, ExecAllUnwritten

LEMMA ResolvedUnread ==
  ASSUME NEW m \in Mems, NEW th \in Threads, NEW cs \in Seq(Recorded), NEW ps \in Seq(Contents),
         SlotsIn(cs, ps), Spares(cs, th)
  PROVE  ExecAll(m, Resolved(cs, ps))[th] = m[th]
<1>1. Spares(Resolved(cs, ps), th)
  BY ResolvedType DEF Spares
<1>2. /\ th \in Locations /\ m \in [Locations -> Contents]
      /\ Resolved(cs, ps) \in Seq(CommandsOver(Locations))
  BY ResolvedType DEF Locations, DeviceCommands, Mems
<1> QED  BY <1>1, <1>2, ExecAllUnwritten

LEMMA RunUnread ==
  ASSUME NEW m \in Mems, NEW th \in Threads, NEW sub \in Submissions, Spares(sub.cmds, th)
  PROVE  Run(m, sub)[th] = m[th]
<1>1. /\ sub.writes \in Seq(HostWrites) /\ sub.params \in Seq(Contents)
      /\ sub.cmds \in Seq(Recorded) /\ SlotsIn(sub.cmds, sub.params)
  BY DEF Submissions
<1> DEFINE m1 == ExecAll(m, sub.writes)
<1>2. Run(m, sub) = ExecAll(m1, Resolved(sub.cmds, sub.params))
  BY FlowType, ExecAllConcat DEF Flow
<1>3. m1 \in Mems
  BY FlowType, ExecAllType DEF Mems, DeviceCommands
<1>4. m1[th] = m[th]
  BY <1>1, FlowUnread
<1> HIDE DEF m1
<1> QED  BY <1>1, <1>2, <1>3, <1>4, ResolvedUnread

LEMMA RunAllUnread ==
  ASSUME NEW m \in Mems, NEW th \in Threads, NEW subs \in Seq(Submissions),
         \A i \in DOMAIN subs : Spares(subs[i].cmds, th)
  PROVE  RunAll(m, subs)[th] = m[th]
<1> DEFINE Untouched(ss) == \A i \in DOMAIN ss : Spares(ss[i].cmds, th)
           S == {n \in Nat : \A ss \in Seq(Submissions) :
                   Len(ss) = n /\ Untouched(ss) => RunAll(m, ss)[th] = m[th]}
<1>1. 0 \in S
  BY RunAllEmpty, EmptySeq
<1>2. ASSUME NEW n \in Nat, n \in S PROVE n + 1 \in S
  <2> SUFFICES ASSUME NEW ss \in Seq(Submissions), Len(ss) = n + 1, Untouched(ss)
               PROVE  RunAll(m, ss)[th] = m[th]
    OBVIOUS
  <2>1. PICK es \in Seq(Submissions), e \in Submissions : ss = Append(es, e) /\ Len(es) = n
    BY ListCases
  <2>2. Untouched(es) /\ Spares(e.cmds, th)
    BY <2>1, ListParts
  <2>3. RunAll(m, es)[th] = m[th] /\ RunAll(m, es) \in Mems
    BY <1>2, <2>1, <2>2, RunAllType
  <2>4. RunAll(m, ss) = Run(RunAll(m, es), e)
    BY <2>1, RunAllAppend
  <2> QED  BY <2>2, <2>3, <2>4, RunUnread
<1> HIDE DEF S
<1>3. Nat \subseteq S
  BY <1>1, <1>2, Induction
<1>4. Len(subs) \in S
  BY <1>3
<1> QED  BY <1>4 DEF S

(* No command reads a readback buffer: what such a buffer holds matters to *)
(* no other location.                                                      *)
LEMMA ReadsBuffers ==
  ASSUME NEW cs \in Seq(Recorded), NEW ps \in Seq(Contents), SlotsIn(cs, ps),
         NEW i \in DOMAIN cs
  PROVE  Reads(Resolved(cs, ps)[i]) \subseteq Buffers
<1>1. cs[i] \in Recorded
  OBVIOUS
<1>2. CASE cs[i].op = "fill"
  BY <1>2 DEF Resolved, Fill, Reads
<1>3. CASE cs[i].op = "accum"
  BY <1>1, <1>3 DEF Resolved, Recorded, Reads
<1>4. CASE cs[i].op = "copy"
  BY <1>1, <1>4 DEF Resolved, Recorded, Reads
<1> QED  BY <1>1, <1>2, <1>3, <1>4 DEF Recorded

LEMMA FlowClosed ==
  ASSUME NEW sub \in Submissions, NEW K, Buffers \subseteq K
  PROVE  ClosedIn(Flow(sub), K)
<1>1. /\ sub.writes \in Seq(HostWrites) /\ sub.params \in Seq(Contents)
      /\ sub.cmds \in Seq(Recorded) /\ SlotsIn(sub.cmds, sub.params)
  BY DEF Submissions
<1> DEFINE ws == sub.writes
           R == Resolved(sub.cmds, sub.params)
<1>2. R \in Seq(DeviceCommands) /\ DOMAIN R = DOMAIN sub.cmds
  BY <1>1, ResolvedType
<1>3. \A i \in DOMAIN R : ClosedCommand(R[i], K)
  BY <1>1, <1>2, ReadsBuffers DEF ClosedCommand
<1>4. \A i \in DOMAIN ws : ClosedCommand(ws[i], K)
  <2>1. \A c \in HostWrites : ClosedCommand(c, K)
    BY DEF HostWrites, Fill, ClosedCommand, Reads
  <2> QED  BY <1>1, <2>1
<1>5. ws \in Seq(DeviceCommands)
  BY <1>1, WritesType
<1>6. Flow(sub) = ws \o R
  BY DEF Flow
<1> HIDE DEF ws, R
<1>7. \A i \in DOMAIN (ws \o R) :
        \/ i \in DOMAIN ws /\ (ws \o R)[i] = ws[i]
        \/ i - Len(ws) \in DOMAIN R /\ (ws \o R)[i] = R[i - Len(ws)]
  BY <1>2, <1>5
<1> QED  BY <1>3, <1>4, <1>6, <1>7 DEF ClosedIn

Elsewhere(th) == Locations \ {th}

LEMMA RunAgree ==
  ASSUME NEW a \in Mems, NEW b \in Mems, NEW th \in Threads, NEW sub \in Submissions,
         SameOn(a, b, Elsewhere(th))
  PROVE  SameOn(Run(a, sub), Run(b, sub), Elsewhere(th))
<1>1. Elsewhere(th) \in SUBSET Locations /\ Buffers \subseteq Elsewhere(th)
  BY BatchAssumption DEF Elsewhere, Locations
<1>2. ClosedIn(Flow(sub), Elsewhere(th)) /\ Flow(sub) \in Seq(CommandsOver(Locations))
  BY <1>1, FlowClosed, FlowType DEF DeviceCommands
<1>3. a \in [Locations -> Contents] /\ b \in [Locations -> Contents]
  BY DEF Mems
<1>4. SameOn(ExecAll(a, Flow(sub)), ExecAll(b, Flow(sub)), Elsewhere(th))
  BY <1>1, <1>2, <1>3, ExecAllAgree
<1> QED  BY <1>4, FlowType

LEMMA RunAllAgree ==
  ASSUME NEW a \in Mems, NEW b \in Mems, NEW th \in Threads, NEW subs \in Seq(Submissions),
         SameOn(a, b, Elsewhere(th))
  PROVE  SameOn(RunAll(a, subs), RunAll(b, subs), Elsewhere(th))
<1> DEFINE Agree(ss) == SameOn(RunAll(a, ss), RunAll(b, ss), Elsewhere(th))
           S == {n \in Nat : \A ss \in Seq(Submissions) : Len(ss) = n => Agree(ss)}
<1>1. 0 \in S
  BY RunAllEmpty, EmptySeq
<1>2. ASSUME NEW n \in Nat, n \in S PROVE n + 1 \in S
  <2> SUFFICES ASSUME NEW ss \in Seq(Submissions), Len(ss) = n + 1 PROVE Agree(ss)
    OBVIOUS
  <2>1. PICK es \in Seq(Submissions), e \in Submissions : ss = Append(es, e) /\ Len(es) = n
    BY ListCases
  <2>2. Agree(es)
    BY <1>2, <2>1
  <2>3. RunAll(a, es) \in Mems /\ RunAll(b, es) \in Mems
    BY RunAllType
  <2>4. RunAll(a, ss) = Run(RunAll(a, es), e) /\ RunAll(b, ss) = Run(RunAll(b, es), e)
    BY <2>1, RunAllAppend
  <2> HIDE DEF S
  <2>5. SameOn(Run(RunAll(a, es), e), Run(RunAll(b, es), e), Elsewhere(th))
    BY <2>2, <2>3, RunAgree
  <2> QED  BY <2>4, <2>5
<1> HIDE DEF S
<1>3. Nat \subseteq S
  BY <1>1, <1>2, Induction
<1>4. Len(subs) \in S
  BY <1>3
<1> QED  BY <1>4 DEF S

-----------------------------------------------------------------------------
(* Submitting                                                              *)

NoFills(cs) == \A i \in DOMAIN cs : cs[i].op # "fill"

LEMMA Submitted ==
  ASSUME QueueTyped, NEW cs \in Seq(Recorded), NoFills(cs), SubmitBatch(cs)
  PROVE  /\ inflight' \in Seq(Submissions)
         /\ Len(inflight') <= MaxInFlight /\ Len(inflight) <= Len(inflight')
         /\ staged' \in Seq(HostWrites) /\ cmds' = <<>> /\ params' = <<>> /\ open' = FALSE
         /\ \A i \in DOMAIN inflight :
              i <= Len(inflight) /\ i \in DOMAIN inflight' /\ inflight'[i] = inflight[i]
         /\ \A i \in DOMAIN inflight' :
              \/ i \in DOMAIN inflight
              \/ i = Len(inflight) + 1 /\ inflight'[i].cmds = cmds \o cs
         /\ \/ inflight' = inflight /\ staged' = staged /\ cmds = <<>> /\ params = <<>> /\ cs = <<>>
            \/ /\ inflight' = Append(inflight, Batch(cmds \o cs)) /\ staged' = <<>>
               /\ Batch(cmds \o cs) \in Submissions
<1>1. /\ inflight \in Seq(Submissions) /\ Len(inflight) <= MaxInFlight
      /\ staged \in Seq(HostWrites) /\ cmds \in Seq(Recorded) /\ params \in Seq(Contents)
      /\ SlotsIn(cmds, params) /\ open = (cmds # <<>>) /\ (params # <<>> => open)
  BY DEF QueueTyped
<1>2. cmds' = <<>> /\ params' = <<>> /\ open' = FALSE
  <2>1. cmds' = IF open \/ cs # <<>> THEN <<>> ELSE cmds
    BY DEF SubmitBatch
  <2> QED  BY <1>1, <2>1 DEF SubmitBatch
<1>3. CASE ~(open \/ cs # <<>>)
  <2>1. inflight' = inflight /\ staged' = staged
    BY <1>3 DEF SubmitBatch
  <2>2. cmds = <<>> /\ params = <<>> /\ cs = <<>>
    BY <1>1, <1>3
  <2>3. /\ inflight' \in Seq(Submissions) /\ staged' \in Seq(HostWrites)
        /\ Len(inflight') <= MaxInFlight /\ Len(inflight) <= Len(inflight')
    BY <1>1, <2>1, BatchAssumption
  <2>4. \A i \in DOMAIN inflight : i <= Len(inflight)
    BY <1>1
  <2> QED  BY <1>2, <2>1, <2>2, <2>3, <2>4
<1>4. CASE open \/ cs # <<>>
  <2>1. /\ inflight' = Append(inflight, Batch(cmds \o cs)) /\ staged' = <<>>
        /\ Len(inflight) < MaxInFlight
    BY <1>4 DEF SubmitBatch
  <2>2. cmds \o cs \in Seq(Recorded) /\ SlotsIn(cmds \o cs, params)
    <3>1. \A i \in DOMAIN (cmds \o cs) :
            \/ i \in DOMAIN cmds /\ (cmds \o cs)[i] = cmds[i]
            \/ i - Len(cmds) \in DOMAIN cs /\ (cmds \o cs)[i] = cs[i - Len(cmds)]
      BY <1>1
    <3> QED  BY <1>1, <3>1 DEF SlotsIn, NoFills
  <2>3. Batch(cmds \o cs) \in Submissions /\ Batch(cmds \o cs).cmds = cmds \o cs
    BY <1>1, <2>2 DEF Batch, Submissions
  <2> HIDE DEF Batch
  <2>4. inflight' \in Seq(Submissions)
    BY <1>1, <2>1, <2>3
  <2>5. Len(inflight') = Len(inflight) + 1 /\ Len(inflight) \in Nat /\ MaxInFlight \in Nat
    BY <1>1, <2>1, BatchAssumption
  <2>6. /\ \A i \in DOMAIN inflight : i <= Len(inflight) /\ i \in DOMAIN inflight' /\ inflight'[i] = inflight[i]
        /\ \A i \in DOMAIN inflight' :
             \/ i \in DOMAIN inflight
             \/ i = Len(inflight) + 1 /\ inflight'[i] = Batch(cmds \o cs)
    BY <1>1, <2>1
  <2>7. Len(inflight') <= MaxInFlight /\ Len(inflight) <= Len(inflight')
    BY <2>1, <2>5
  <2>8. staged' \in Seq(HostWrites)
    BY <2>1
  <2> QED  BY <1>2, <2>1, <2>3, <2>4, <2>6, <2>7, <2>8
<1> QED  BY <1>3, <1>4

LEMMA NothingToRecord == <<>> \in Seq(Recorded) /\ NoFills(<<>>)
BY DEF NoFills

LEMMA ReadbackRecorded ==
  ASSUME NEW th \in Threads, NEW s \in Tensors, buffer[s] \in Buffers
  PROVE  Readback(th, s) \in Seq(Recorded) /\ NoFills(Readback(th, s))
<1>1. Copy(th, buffer[s]) \in Recorded /\ Copy(th, buffer[s]).op # "fill"
  BY CommandTypes DEF Copy
<1> QED  BY <1>1 DEF Readback, NoFills

-----------------------------------------------------------------------------
(* Operations begin, go from step to step and end.                         *)

OthersStay(th) == \A u \in Threads \ {th} : pc'[u] = pc[u] /\ op'[u] = op[u]

LEMMA NoOpTyped == NoOp \in Operations
<1>1. 0 \in Contents
  BY NValAssumption DEF Contents
<1> QED  BY <1>1 DEF NoOp, Operations, Kinds

LEMMA Begins ==
  ASSUME ThreadsTyped, NEW th \in Threads, NEW step \in Places, NEW o \in Operations,
         Begin(th, step, o)
  PROVE  /\ pc' \in [Threads -> Places] /\ op' \in [Threads -> Operations]
         /\ pc[th] = "idle" /\ pc'[th] = step /\ op'[th] = o /\ OthersStay(th)
BY DEF ThreadsTyped, Begin, OthersStay

LEMMA Moves ==
  ASSUME ThreadsTyped, NEW th \in Threads, NEW from, NEW to \in Places, Step(th, from, to)
  PROVE  /\ pc' \in [Threads -> Places] /\ pc[th] = from /\ pc'[th] = to
         /\ \A u \in Threads \ {th} : pc'[u] = pc[u]
BY DEF ThreadsTyped, Step

LEMMA Ends ==
  ASSUME ThreadsTyped, NEW th \in Threads, NEW from, End(th, from)
  PROVE  /\ pc' \in [Threads -> Places] /\ op' \in [Threads -> Operations]
         /\ pc[th] = from /\ pc'[th] = "idle" /\ op'[th] = NoOp /\ OthersStay(th)
<1>1. Step(th, from, "idle") /\ op' = [op EXCEPT ![th] = NoOp]
  BY DEF End
<1>2. /\ pc' \in [Threads -> Places] /\ pc[th] = from /\ pc'[th] = "idle"
      /\ \A u \in Threads \ {th} : pc'[u] = pc[u]
  BY <1>1, Moves DEF Places
<1>3. /\ op' \in [Threads -> Operations] /\ op'[th] = NoOp
      /\ \A u \in Threads \ {th} : op'[u] = op[u]
  BY <1>1, NoOpTyped DEF ThreadsTyped
<1> QED  BY <1>2, <1>3 DEF OthersStay

Locks == Steps /\ Held /\ Exclusive

(* What an operation that ends no longer holds does not matter.            *)
LEMMA LocksAtEnd ==
  ASSUME ThreadsTyped, Locks, NEW th \in Threads, NEW from, End(th, from),
         UNCHANGED <<target, buffer>>, \A u \in Threads \ {th} : ahead'[u] = ahead[u],
         \A t \in Tensors : Live(t) => Live(t)',
         \A t \in Tensors : t # op[th].dst /\ Live(t)' => Live(t)
  PROVE  Locks'
<1>1. pc'[th] = "idle" /\ op'[th] = NoOp /\ OthersStay(th)
  BY Ends
<1>2. \A u \in Threads : op[u] \in Operations
  BY DEF ThreadsTyped
<1>3. Steps'
  <2> SUFFICES ASSUME NEW u \in Threads PROVE StepFits(u)'
    BY DEF Steps
  <2>1. CASE u = th
    BY <1>1, <2>1 DEF StepFits, NoOp
  <2>2. CASE u # th
    <3>1. StepFits(u) /\ pc'[u] = pc[u] /\ op'[u] = op[u] /\ ahead'[u] = ahead[u]
      BY <1>1, <2>2 DEF Locks, Steps, OthersStay
    <3> QED  BY <3>1 DEF StepFits, Native
  <2> QED  BY <2>1, <2>2
<1>4. Held'
  <2>1. ASSUME NEW t \in Tensors, Live(t)' PROVE buffer'[t] # None
    <3>1. CASE t = op[th].dst
      <4>1. t # None
        BY BatchAssumption
      <4> QED  BY <3>1, <4>1 DEF Locks, Held, HeldBy
    <3>2. CASE t # op[th].dst
      BY <2>1, <3>2 DEF Locks, Held, LiveStored
    <3> QED  BY <3>1, <3>2
  <2>2. ASSUME NEW u \in Threads PROVE HeldBy(op[u])'
    <3>1. CASE u = th
      BY <1>1, <3>1 DEF NoOp, HeldBy
    <3>2. CASE u # th
      <4>1. op'[u] = op[u]
        BY <1>1, <3>2 DEF OthersStay
      <4>2. ASSUME op[u].dst # None
            PROVE  op[u].dst \in Tensors /\ op[u].dst # op[th].dst
        BY <1>2, <3>2, <4>2 DEF Locks, Exclusive, Operations
      <4>3. op[u].src # None => op[u].src \in Tensors
        BY <1>2 DEF Operations
      <4>4. HeldBy(op[u])
        BY DEF Locks, Held
      <4> QED  BY <4>1, <4>2, <4>3, <4>4 DEF HeldBy, Live
    <3> QED  BY <3>1, <3>2
  <2> QED  BY <2>1, <2>2 DEF Held, LiveStored
<1>5. Exclusive'
  BY <1>1 DEF Locks, Exclusive, OthersStay, NoOp
<1> QED  BY <1>3, <1>4, <1>5 DEF Locks

(* An operation that begins takes locks that are free.                     *)
MayHold(th, o) ==
  /\ o.dst # None => \A u \in Threads \ {th} :
                       op[u].dst # o.dst /\ (op[u].src = o.dst => op[u].kind = "asyncread")
  /\ o.src # None /\ o.kind # "asyncread" => \A u \in Threads \ {th} : op[u].dst # o.src

LEMMA LocksAtBegin ==
  ASSUME ThreadsTyped, Locks, NEW th \in Threads, NEW step \in Places, NEW o \in Operations,
         Begin(th, step, o), MayHold(th, o), UNCHANGED <<target, val>>,
         \A u \in Threads \ {th} : ahead'[u] = ahead[u],
         \A t \in Tensors : buffer[t] # None => buffer'[t] # None,
         StepFits(th)', HeldBy(o)'
  PROVE  Locks'
<1>1. pc'[th] = step /\ op'[th] = o /\ OthersStay(th)
  BY Begins
<1>2. \A u \in Threads : op[u] \in Operations
  BY DEF ThreadsTyped
<1>3. Steps'
  <2> SUFFICES ASSUME NEW u \in Threads PROVE StepFits(u)'
    BY DEF Steps
  <2>1. CASE u # th
    <3>1. StepFits(u) /\ pc'[u] = pc[u] /\ op'[u] = op[u] /\ ahead'[u] = ahead[u]
      BY <1>1, <2>1 DEF Locks, Steps, OthersStay
    <3> QED  BY <3>1 DEF StepFits, Native
  <2> QED  BY <2>1
<1>4. Held'
  <2>1. LiveStored'
    BY DEF Locks, Held, LiveStored, Live
  <2>2. ASSUME NEW u \in Threads PROVE HeldBy(op[u])'
    <3>1. CASE u = th
      BY <1>1, <3>1 DEF HeldBy, Live
    <3>2. CASE u # th
      <4>1. op'[u] = op[u]
        BY <1>1, <3>2 DEF OthersStay
      <4>2. op[u].dst # None => op[u].dst \in Tensors
        BY <1>2 DEF Operations
      <4>3. HeldBy(op[u])
        BY DEF Locks, Held
      <4> QED  BY <4>1, <4>2, <4>3 DEF HeldBy, Live
    <3> QED  BY <3>1, <3>2
  <2> QED  BY <2>1, <2>2 DEF Held
<1>5. Exclusive'
  <2> SUFFICES ASSUME NEW w \in Threads, NEW u \in Threads, w # u, op'[w].dst # None
               PROVE  /\ op'[u].dst # op'[w].dst
                      /\ op'[u].src = op'[w].dst => op'[u].kind = "asyncread"
    BY DEF Exclusive
  <2>1. CASE w = th
    BY <1>1, <2>1 DEF OthersStay, MayHold
  <2>2. CASE u = th
    BY <1>1, <2>2 DEF OthersStay, MayHold
  <2>3. CASE w # th /\ u # th
    BY <1>1, <2>3 DEF OthersStay, Locks, Exclusive
  <2> QED  BY <2>1, <2>2, <2>3
<1> QED  BY <1>3, <1>4, <1>5 DEF Locks

(* No operation begins or ends: what is held is left alone.                *)
LEMMA LocksStay ==
  ASSUME ThreadsTyped, Locks, UNCHANGED <<pc, op, target>>,
         \A u \in Threads : ahead[u] = 0 => ahead'[u] = 0,
         LiveStored',
         \A t \in Tensors, u \in Threads :
           op[u].dst = t \/ op[u].src = t =>
             (Live(t)' <=> Live(t)) /\ (buffer[t] # None => buffer'[t] # None)
  PROVE  Locks'
<1>1. Steps'
  BY DEF Locks, Steps, StepFits, Native
<1>2. Exclusive'
  BY DEF Locks, Exclusive
<1>3. ASSUME NEW u \in Threads PROVE HeldBy(op[u])'
  <2>1. /\ op[u].dst # None => op[u].dst \in Tensors
        /\ op[u].src # None => op[u].src \in Tensors
    BY DEF ThreadsTyped, Operations
  <2>2. HeldBy(op[u])
    BY DEF Locks, Held
  <2> QED  BY <2>1, <2>2 DEF HeldBy, Live
<1> QED  BY <1>1, <1>2, <1>3 DEF Locks, Held

-----------------------------------------------------------------------------
(* Once everything recorded so far has run                                 *)

LEMMA TouchedLocations ==
  ASSUME NEW cs \in Seq(Recorded)
  PROVE  Touched(cs) = UNION {{cs[i].dst, cs[i].src} : i \in DOMAIN cs}
         /\ Touched(cs) \subseteq Locations /\ None \notin Touched(cs)
<1>1. \A i \in DOMAIN cs : cs[i] \in Recorded
  OBVIOUS
<1>2. \A i \in DOMAIN cs : /\ cs[i].op # "merge"
                           /\ cs[i].dst \in Locations /\ cs[i].src \in Locations
  BY <1>1 DEF Recorded, Locations
<1>3. None \notin Locations
  BY BatchAssumption DEF Locations
<1> QED  BY <1>2, <1>3 DEF Touched

SettledBy(m, subs, ws, cs, ps) ==
  RunAll(m, Append(subs, [writes |-> ws, params |-> ps, cmds |-> cs]))

LEMMA SettledBySplit ==
  ASSUME NEW m \in Mems, NEW subs \in Seq(Submissions), NEW ws \in Seq(HostWrites),
         NEW cs \in Seq(Recorded), NEW ps \in Seq(Contents), SlotsIn(cs, ps)
  PROVE  /\ RunAll(m, subs) \in Mems
         /\ ExecAll(RunAll(m, subs), ws) \in Mems
         /\ SettledBy(m, subs, ws, cs, ps)
              = ExecAll(ExecAll(RunAll(m, subs), ws), Resolved(cs, ps))
         /\ SettledBy(m, subs, ws, cs, ps) \in Mems
<1> DEFINE B == [writes |-> ws, params |-> ps, cmds |-> cs]
           R == Resolved(cs, ps)
           M == RunAll(m, subs)
<1>1. B \in Submissions /\ Flow(B) = ws \o R
  BY DEF Submissions, Flow
<1>2. M \in Mems
  BY RunAllType
<1>3. SettledBy(m, subs, ws, cs, ps) = Run(M, B)
  BY <1>1, RunAllAppend DEF SettledBy
<1>4. ws \in Seq(DeviceCommands) /\ R \in Seq(DeviceCommands)
  BY <1>1, FlowType
<1>5. Run(M, B) = ExecAll(M, ws \o R)
  BY <1>1, FlowType
<1> HIDE DEF R, M
<1>6. ExecAll(M, ws \o R) = ExecAll(ExecAll(M, ws), R)
  BY <1>4, ExecAllConcat
<1>7. ExecAll(M, ws) \in Mems
  BY <1>2, <1>4, ExecAllType DEF Mems, DeviceCommands
<1>8. Run(M, B) \in Mems
  BY <1>1, <1>2, RunType
<1> QED  BY <1>2, <1>3, <1>5, <1>6, <1>7, <1>8 DEF R, M

LEMMA SettledParts ==
  /\ Settled = SettledBy(mem, inflight, staged, cmds, params)
  /\ Settled' = SettledBy(mem', inflight', staged', cmds', params')
BY DEF Settled, SettledBy, Batch

LEMMA SettledType == ASSUME StoreTyped, QueueTyped PROVE Settled \in Mems
BY SettledParts, SettledBySplit DEF StoreTyped, QueueTyped, Mems

(* A readback buffer goes with the operation that made it.                 *)
LEMMA UnmapTyped ==
  ASSUME StoreTyped, NEW th \in Threads, NEW kind, Unmap(th, kind)
  PROVE  mem' \in Mems /\ SameOn(mem', mem, Elsewhere(th))
<1>1. 0 \in Contents
  BY NValAssumption DEF Contents
<1>2. mem \in [Locations -> Contents]
  BY DEF StoreTyped
<1> QED  BY <1>1, <1>2 DEF Unmap, Mems, SameOn, Elsewhere

-----------------------------------------------------------------------------
(* Each action keeps types, locks and ownership.                           *)

BufferOwnership == Owners /\ BatchOwned /\ FreedWaits /\ PoolUnsubmitted

LEMMA OwnershipParts ==
  Ownership <=> /\ StoreTyped /\ QueueTyped /\ BuffersTyped /\ ThreadsTyped
                /\ Locks /\ Mutex /\ BufferOwnership
BY DEF Ownership, Locks, BufferOwnership

LEMMA ExecuteOwns ==
  ASSUME Ownership, Execute
  PROVE  Ownership'
<1> USE OwnershipParts
<1>1. /\ mem' = Run(mem, Head(inflight)) /\ inflight' = Tail(inflight)
      /\ ahead' = [th \in Threads |-> IF ahead[th] > 0 THEN ahead[th] - 1 ELSE 0]
      /\ UNCHANGED <<val, read, staged, cmds, params, open, ctx, free_bufs, pool, fresh, buffer,
                     pc, op, freed, target>>
  BY DEF Execute, eager, batch, bufs
<1>2. /\ inflight \in Seq(Submissions) /\ inflight # <<>>
      /\ Len(inflight) \in Nat /\ Head(inflight) \in Submissions
      /\ inflight' \in Seq(Submissions) /\ Len(inflight') = Len(inflight) - 1
      /\ \A i \in DOMAIN inflight' : i + 1 \in DOMAIN inflight /\ inflight'[i] = inflight[i + 1]
  BY <1>1 DEF QueueTyped, Execute
<1>3. StoreTyped'
  BY <1>1, <1>2, RunType DEF StoreTyped, EagerTypeOK, Mems
<1>4. QueueTyped'
  BY <1>1, <1>2, BatchAssumption DEF QueueTyped
<1>5. BuffersTyped'
  BY <1>1 DEF BuffersTyped
<1>6. \A th \in Threads : ahead[th] \in Nat /\ ahead[th] <= Len(inflight)
  BY DEF ThreadsTyped
<1>7. ThreadsTyped'
  BY <1>1, <1>2, <1>6 DEF ThreadsTyped
<1>8. Locks'
  <2>1. LiveStored'
    BY <1>1 DEF Locks, Held, LiveStored, Live
  <2> QED  BY <1>1, <1>6, <2>1, LocksStay DEF Live
<1>9. Mutex'
  <2>1. ctx \in Threads \cup {None} /\ None \notin Threads
    BY BatchAssumption DEF ThreadsTyped
  <2> QED  BY <1>1, <1>2, <1>6, <2>1 DEF Mutex
<1>10. BufferOwnership'
  <2>1. Owners' /\ BatchOwned'
    BY <1>1 DEF BufferOwnership, Owners, OneOwner, BatchOwned
  <2>2. PoolUnsubmitted'
    BY <1>1, <1>2 DEF BufferOwnership, PoolUnsubmitted
  <2>3. ASSUME NEW th \in Threads, NEW i \in DOMAIN inflight', i > ahead'[th]
        PROVE  i + 1 \in DOMAIN inflight /\ i + 1 > ahead[th] /\ inflight'[i] = inflight[i + 1]
    BY <1>1, <1>2, <1>6, <2>3
  <2>4. FreedWaits'
    BY <1>1, <2>3 DEF BufferOwnership, FreedWaits
  <2> QED  BY <2>1, <2>2, <2>4 DEF BufferOwnership
<1> QED
  BY <1>3, <1>4, <1>5, <1>7, <1>8, <1>9, <1>10 DEF Ownership, Locks, BufferOwnership

LEMMA AllocUninitOwns ==
  ASSUME Ownership, NEW th \in Threads, NEW t \in Tensors, NEW b \in Buffers,
         AllocUninit(th, t, b), UNCHANGED target
  PROVE  Ownership'
<1> USE OwnershipParts
<1>1. /\ b \in pool \cup fresh /\ buffer[t] = None /\ val[t] = None
      /\ val' = [val EXCEPT ![t] = Settled[b]] /\ buffer' = [buffer EXCEPT ![t] = b]
      /\ pool' = pool \ {b} /\ fresh' = fresh \ {b}
      /\ UNCHANGED <<read, mem, inflight, staged, cmds, params, open, ctx, free_bufs, pc, op,
                     freed, ahead, target>>
  BY DEF AllocUninit, Allocate, Create, batch
<1>2. /\ buffer \in [Tensors -> Buffers \cup {None}] /\ val \in [Tensors -> Contents \cup {None}]
      /\ None \notin Buffers
  BY BatchAssumption DEF BuffersTyped, StoreTyped, EagerTypeOK
<1>3. /\ buffer'[t] = b /\ \A u \in Tensors \ {t} : buffer'[u] = buffer[u]
      /\ \A u \in Tensors \ {t} : val'[u] = val[u]
  BY <1>1, <1>2
<1>4. StoreTyped'
  <2>1. Settled \in Mems
    BY SettledType
  <2> QED  BY <1>1, <2>1 DEF StoreTyped, EagerTypeOK, Mems, Locations
<1>5. QueueTyped'
  BY <1>1 DEF QueueTyped
<1>6. BuffersTyped' /\ ThreadsTyped'
  BY <1>1 DEF BuffersTyped, ThreadsTyped
<1>7. Locks'
  <2>1. LiveStored'
    BY <1>2, <1>3 DEF Locks, Held, LiveStored, Live
  <2>2. ASSUME NEW u \in Threads PROVE op[u].dst # t /\ op[u].src # t
    BY <1>1, <1>2, BatchAssumption DEF Locks, Held, HeldBy, Live
  <2> QED  BY <1>1, <1>3, <2>1, <2>2, LocksStay DEF Live
<1>8. Mutex'
  BY <1>1 DEF Mutex
<1>9. BufferOwnership'
  <2>1. Owners'
    BY <1>1, <1>2, <1>3 DEF BufferOwnership, Owners, OneOwner, BuffersTyped
  <2>2. BatchOwned'
    <3>1. None \notin Touched(cmds)
      BY TouchedLocations DEF QueueTyped
    <3> QED  BY <1>1, <1>3, <3>1 DEF BufferOwnership, BatchOwned
  <2>3. FreedWaits' /\ PoolUnsubmitted'
    BY <1>1 DEF BufferOwnership, FreedWaits, PoolUnsubmitted
  <2> QED  BY <2>1, <2>2, <2>3 DEF BufferOwnership
<1> QED  BY <1>4, <1>5, <1>6, <1>7, <1>8, <1>9 DEF Ownership, Locks, BufferOwnership

LEMMA DropStorageOwns ==
  ASSUME Ownership, NEW t \in Tensors, DropStorage(t)
  PROVE  Ownership'
<1> USE OwnershipParts
<1>1. /\ ctx = None /\ val[t] # None
      /\ \A u \in Threads : op[u].dst # t /\ op[u].src # t
      /\ val' = [val EXCEPT ![t] = None] /\ buffer' = [buffer EXCEPT ![t] = None]
      /\ free_bufs' = free_bufs \cup {buffer[t]}
      /\ UNCHANGED <<read, mem, inflight, staged, cmds, params, open, ctx, pool, fresh, pc, op,
                     freed, ahead, target>>
  BY DEF DropStorage, Unused, Readable, Discard, Live, batch
<1>2. /\ buffer \in [Tensors -> Buffers \cup {None}] /\ val \in [Tensors -> Contents \cup {None}]
      /\ None \notin Buffers
  BY BatchAssumption DEF BuffersTyped, StoreTyped, EagerTypeOK
<1>3. /\ buffer'[t] = None /\ \A u \in Tensors \ {t} : buffer'[u] = buffer[u]
      /\ val'[t] = None /\ \A u \in Tensors \ {t} : val'[u] = val[u]
      /\ buffer[t] \in Buffers
  BY <1>1, <1>2 DEF Locks, Held, LiveStored, Live
<1>4. StoreTyped'
  BY <1>1 DEF StoreTyped, EagerTypeOK
<1>5. QueueTyped'
  BY <1>1 DEF QueueTyped
<1>6. BuffersTyped' /\ ThreadsTyped'
  BY <1>1, <1>3 DEF BuffersTyped, ThreadsTyped
<1>7. Locks'
  <2>1. LiveStored'
    BY <1>3 DEF Locks, Held, LiveStored, Live
  <2> QED  BY <1>1, <1>3, <2>1, LocksStay DEF Live
<1>8. Mutex'
  BY <1>1 DEF Mutex
<1>9. BufferOwnership'
  <2>1. Owners'
    <3>1. OneOwner /\ free_bufs \cap fresh = {}
      BY DEF BufferOwnership, Owners
    <3>2. /\ buffer[t] \notin pool \cup fresh \cup free_bufs
          /\ \A u \in Threads : buffer[t] \notin freed[u]
          /\ \A u \in Tensors \ {t} : buffer[u] # buffer[t]
      BY <1>2, <1>3, <3>1 DEF OneOwner
    <3>3. \A u \in Tensors : buffer'[u] = None \/ (u # t /\ buffer'[u] = buffer[u])
      BY <1>3
    <3>4. pool \subseteq Buffers /\ fresh \subseteq Buffers /\ free_bufs \subseteq Buffers
          /\ \A u \in Threads : freed[u] \subseteq Buffers
      BY DEF BuffersTyped
    <3>5. OneOwner'
      <4>1. (\A x, y \in Tensors : buffer[x] = buffer[y] /\ buffer[x] # None => x = y)'
        BY <3>1, <3>3 DEF OneOwner
      <4>2. ASSUME NEW u \in Tensors
            PROVE  buffer'[u] \notin pool' \cup fresh' \cup free_bufs'
                                       \cup UNION {freed'[th] : th \in Threads}
        BY <1>1, <1>2, <1>3, <3>1, <3>2, <3>3, <3>4 DEF OneOwner
      <4>3. pool' \cap (fresh' \cup free_bufs') = {}
        BY <1>1, <3>1, <3>2 DEF OneOwner
      <4>4. \A th \in Threads :
              /\ freed'[th] \cap (pool' \cup fresh' \cup free_bufs') = {}
              /\ \A u \in Threads \ {th} : freed'[th] \cap freed'[u] = {}
        BY <1>1, <3>1, <3>2 DEF OneOwner
      <4> QED  BY <4>1, <4>2, <4>3, <4>4 DEF OneOwner
    <3> QED  BY <1>1, <3>1, <3>2, <3>5 DEF Owners
  <2>2. BatchOwned'
    BY <1>1, <1>3 DEF BufferOwnership, BatchOwned
  <2>3. FreedWaits' /\ PoolUnsubmitted'
    BY <1>1 DEF BufferOwnership, FreedWaits, PoolUnsubmitted
  <2> QED  BY <2>1, <2>2, <2>3 DEF BufferOwnership
<1> QED  BY <1>4, <1>5, <1>6, <1>7, <1>8, <1>9 DEF Ownership, Locks, BufferOwnership

LEMMA FromVecOwns ==
  ASSUME Ownership, NEW th \in Threads, NEW t \in Tensors, NEW b \in Buffers, NEW v \in Contents,
         FromVec(th, t, b, v), UNCHANGED target
  PROVE  Ownership'
<1> USE OwnershipParts
<1> DEFINE o == [kind |-> "create", dst |-> t, src |-> None, val |-> v]
<1>1. /\ b \in pool \cup fresh /\ buffer[t] = None /\ Begin(th, "write", o)
      /\ buffer' = [buffer EXCEPT ![t] = b]
      /\ pool' = pool \ {b} /\ fresh' = fresh \ {b}
      /\ UNCHANGED <<val, read, mem, inflight, staged, cmds, params, open, ctx, free_bufs,
                     freed, ahead, target>>
  BY DEF FromVec, Allocate, batch, eager
<1>2. /\ buffer \in [Tensors -> Buffers \cup {None}] /\ val \in [Tensors -> Contents \cup {None}]
      /\ None \notin Buffers /\ None \notin Tensors
  BY BatchAssumption DEF BuffersTyped, StoreTyped, EagerTypeOK
<1>3. /\ buffer'[t] = b /\ \A u \in Tensors \ {t} : buffer'[u] = buffer[u]
      /\ val[t] = None
  BY <1>1, <1>2 DEF Locks, Held, LiveStored, Live
<1>4. o \in Operations /\ "write" \in Places
  BY DEF Operations, Kinds, Places
<1>5. /\ pc' \in [Threads -> Places] /\ op' \in [Threads -> Operations]
      /\ pc[th] = "idle" /\ pc'[th] = "write" /\ op'[th] = o /\ OthersStay(th)
  BY <1>1, <1>4, Begins
<1>6. StoreTyped' /\ QueueTyped'
  BY <1>1 DEF StoreTyped, EagerTypeOK, QueueTyped
<1>7. BuffersTyped' /\ ThreadsTyped'
  BY <1>1, <1>5 DEF BuffersTyped, ThreadsTyped
<1>8. Locks'
  <2>1. ASSUME NEW u \in Threads PROVE op[u].dst # t /\ op[u].src # t
    BY <1>1, <1>2, <1>3, BatchAssumption DEF Locks, Held, HeldBy, Live
  <2>2. MayHold(th, o)
    BY <2>1 DEF MayHold
  <2>3. StepFits(th)'
    BY <1>5 DEF StepFits
  <2>4. HeldBy(o)'
    BY <1>1, <1>2, <1>3 DEF HeldBy, Live
  <2>5. \A u \in Tensors : buffer[u] # None => buffer'[u] # None
    BY <1>2, <1>3
  <2> HIDE DEF o
  <2> QED  BY <1>1, <1>4, <2>2, <2>3, <2>4, <2>5, LocksAtBegin
<1>9. Mutex'
  BY <1>1, <1>5 DEF Mutex, OthersStay
<1>10. BufferOwnership'
  <2>1. Owners'
    BY <1>1, <1>2, <1>3 DEF BufferOwnership, Owners, OneOwner, BuffersTyped
  <2>2. BatchOwned'
    <3>1. None \notin Touched(cmds)
      BY TouchedLocations DEF QueueTyped
    <3> QED  BY <1>1, <1>3, <3>1 DEF BufferOwnership, BatchOwned
  <2>3. FreedWaits' /\ PoolUnsubmitted'
    BY <1>1, <1>5 DEF BufferOwnership, FreedWaits, PoolUnsubmitted, OthersStay
  <2> QED  BY <2>1, <2>2, <2>3 DEF BufferOwnership
<1> QED  BY <1>6, <1>7, <1>8, <1>9, <1>10 DEF Ownership, Locks, BufferOwnership

LEMMA WriteOwns ==
  ASSUME Ownership, NEW th \in Threads, Write(th), UNCHANGED target
  PROVE  Ownership'
<1> USE OwnershipParts
<1> DEFINE o == op[th]
           v == IF o.kind = "hostcopy" THEN Combine(o.val, mem[th]) ELSE o.val
<1>1. /\ End(th, "write") /\ staged' = Append(staged, Fill(buffer[o.dst], v))
      /\ \/ o.kind = "create" /\ Create(o.dst, o.val)
         \/ o.kind = "hostfill" /\ Put(o.dst, o.val)
         \/ o.kind = "hostcopy" /\ PutRead(th, o.dst, o.val)
      /\ Unmap(th, "hostcopy")
      /\ UNCHANGED <<inflight, cmds, params, open, ctx, free_bufs, pool, fresh, buffer, freed,
                     ahead>>
  BY DEF Write, batch, bufs
<1>2. /\ pc' \in [Threads -> Places] /\ op' \in [Threads -> Operations]
      /\ pc[th] = "write" /\ pc'[th] = "idle" /\ op'[th] = NoOp /\ OthersStay(th)
  BY <1>1, Ends
<1>3. o.dst \in Tensors /\ o.val \in Contents /\ buffer[o.dst] \in Buffers
  <2>1. StepFits(th) /\ HeldBy(op[th]) /\ None \notin Tensors
    BY BatchAssumption DEF Locks, Steps, Held
  <2>2. o.dst \in Tensors /\ o.val \in Contents
    BY <1>2, <2>1 DEF StepFits
  <2> QED  BY <2>1, <2>2 DEF HeldBy, BuffersTyped
<1>4. /\ val \in [Tensors -> Contents \cup {None}] /\ read \in [Threads -> SUBSET Contents]
      /\ mem \in [Locations -> Contents] /\ th \in Locations
  BY DEF StoreTyped, EagerTypeOK, Locations
<1>5. \A a, b \in Contents : Combine(a, b) \in Contents
  BY NValAssumption DEF Contents, Combine
<1>6. v \in Contents
  BY <1>3, <1>4, <1>5
<1>7. PICK w \in Contents : val' = [val EXCEPT ![o.dst] = w]
  <2>1. CASE o.kind = "create" \/ o.kind = "hostfill"
    BY <1>1, <1>3, <2>1 DEF Create, Put
  <2>2. CASE o.kind = "hostcopy"
    <3>1. PICK x \in read[th] : val' = [val EXCEPT ![o.dst] = Combine(o.val, x)]
      BY <1>1, <2>2 DEF PutRead
    <3>2. Combine(o.val, x) \in Contents
      BY <1>3, <1>4, <1>5
    <3> QED  BY <3>1, <3>2
  <2> QED  BY <1>1, <2>1, <2>2
<1>8. val'[o.dst] = w /\ w # None /\ \A t \in Tensors \ {o.dst} : val'[t] = val[t]
  BY <1>3, <1>4, <1>7, BatchAssumption
<1>9. StoreTyped'
  <2>1. read' \in [Threads -> SUBSET Contents]
    BY <1>1, <1>4 DEF Create, Put, PutRead
  <2>2. mem' \in [Locations -> Contents]
    BY <1>1, UnmapTyped DEF Mems
  <2> QED  BY <1>4, <1>7, <2>1, <2>2 DEF StoreTyped, EagerTypeOK
<1> HIDE DEF v
<1>10. QueueTyped'
  <2>1. Fill(buffer[o.dst], v) \in HostWrites
    BY <1>3, <1>6 DEF HostWrites
  <2>2. staged' \in Seq(HostWrites)
    BY <1>1, <2>1 DEF QueueTyped
  <2> QED  BY <1>1, <2>2 DEF QueueTyped
<1>11. BuffersTyped' /\ ThreadsTyped'
  BY <1>1, <1>2 DEF BuffersTyped, ThreadsTyped
<1>12. Locks'
  BY <1>1, <1>8, LocksAtEnd DEF Live
<1>13. Mutex'
  BY <1>1, <1>2 DEF Mutex, OthersStay
<1>14. BufferOwnership'
  BY <1>1, <1>2 DEF BufferOwnership, Owners, OneOwner, BatchOwned, FreedWaits, PoolUnsubmitted,
                    OthersStay
<1> QED  BY <1>9, <1>10, <1>11, <1>12, <1>13, <1>14 DEF Ownership, Locks, BufferOwnership

-----------------------------------------------------------------------------
(* Waits that are over                                                     *)

LEMMA AfterWait ==
  ASSUME Ownership, NEW th \in Threads, Drained(th)
  PROVE  /\ ctx = th /\ pc[th] = "drain" /\ cmds = <<>> /\ params = <<>> /\ open = FALSE
         /\ Native => inflight = <<>>
         /\ \A u \in Threads \ {th} : pc[u] # "drain"
         /\ \A u \in Threads : freed[u] # {} => pc[u] = "await"
<1>1. ctx = th /\ pc[th] = "drain" /\ \A u \in Threads \ {th} : pc[u] # "drain"
  BY DEF Ownership, Mutex, Drained
<1>2. cmds = <<>> /\ ahead[th] = Len(inflight)
  BY <1>1, BatchAssumption DEF Ownership, Mutex
<1>3. params = <<>> /\ open = FALSE
  BY <1>2 DEF Ownership, QueueTyped
<1>4. Native => inflight = <<>>
  BY <1>2 DEF Ownership, QueueTyped, Drained
<1> QED  BY <1>1, <1>2, <1>3, <1>4 DEF Ownership, FreedWaits

(* What a flush recycles is in no command: everything has run.             *)
LEMMA RecycleOwns ==
  ASSUME Ownership, NEW th \in Threads, Drained(th), Recycle, cmds' \in Seq(Recorded),
         Touched(cmds') \subseteq {buffer[t] : t \in Tensors},
         UNCHANGED <<inflight, freed, ahead, target>>,
         \A u \in Threads \ {th} : pc'[u] = pc[u]
  PROVE  BuffersTyped' /\ BufferOwnership'
<1>1. UNCHANGED <<fresh, buffer>>
  BY DEF Recycle
<1>2. \/ pool' = pool /\ free_bufs' = free_bufs
      \/ Native /\ pool' = pool \cup free_bufs /\ free_bufs' = {}
  BY DEF Recycle
<1>3. BuffersTyped'
  BY <1>1, <1>2 DEF Ownership, BuffersTyped
<1>4. Owners'
  <2>1. Owners
    BY DEF Ownership
  <2>2. CASE pool' = pool /\ free_bufs' = free_bufs
    BY <1>1, <2>1, <2>2 DEF Owners, OneOwner
  <2>3. CASE pool' = pool \cup free_bufs /\ free_bufs' = {}
    BY <1>1, <2>1, <2>3 DEF Owners, OneOwner
  <2> QED  BY <1>2, <2>2, <2>3
<1>5. BatchOwned'
  BY <1>1 DEF BatchOwned
<1>6. FreedWaits'
  BY AfterWait DEF Ownership, FreedWaits
<1>7. PoolUnsubmitted'
  <2>1. CASE pool' = pool
    BY <1>1, <2>1 DEF Ownership, PoolUnsubmitted
  <2>2. CASE Native
    <3>1. inflight' = <<>>
      BY <2>2, AfterWait
    <3> QED  BY <3>1 DEF PoolUnsubmitted
  <2> QED  BY <1>2, <2>1, <2>2
<1> QED  BY <1>3, <1>4, <1>5, <1>6, <1>7 DEF BufferOwnership

LEMMA NothingTouched == Touched(<<>>) = {} /\ <<>> \in Seq(Recorded)
BY DEF Touched

LEMMA FlushedThenReturnOwns ==
  ASSUME Ownership, NEW th \in Threads, FlushedThenReturn(th), UNCHANGED target
  PROVE  Ownership'
<1> USE OwnershipParts
<1>1. /\ Drained(th) /\ End(th, "drain") /\ Recycle /\ ctx' = None
      /\ UNCHANGED <<val, inflight, staged, cmds, params, open, freed, ahead, fresh, buffer>>
      /\ read' = [read EXCEPT ![th] = {}] /\ Unmap(th, "read")
  BY DEF FlushedThenReturn, Answered, batch, Recycle
<1>2. /\ pc' \in [Threads -> Places] /\ op' \in [Threads -> Operations]
      /\ pc[th] = "drain" /\ pc'[th] = "idle" /\ op'[th] = NoOp /\ OthersStay(th)
  BY <1>1, Ends
<1>3. cmds' = <<>> /\ \A u \in Threads \ {th} : pc[u] # "drain"
  BY <1>1, AfterWait
<1>4. StoreTyped'
  <2>1. mem' \in [Locations -> Contents]
    BY <1>1, UnmapTyped DEF Mems
  <2> QED  BY <1>1, <2>1 DEF StoreTyped, EagerTypeOK
<1>5. QueueTyped'
  BY <1>1 DEF QueueTyped
<1>6. ThreadsTyped'
  BY <1>1, <1>2 DEF ThreadsTyped
<1>7. Locks'
  BY <1>1, LocksAtEnd DEF Live
<1>8. Mutex'
  BY <1>1, <1>2, <1>3, BatchAssumption DEF Mutex, OthersStay
<1>9. BuffersTyped' /\ BufferOwnership'
  BY <1>1, <1>2, <1>3, NothingTouched, RecycleOwns DEF OthersStay
<1> QED  BY <1>4, <1>5, <1>6, <1>7, <1>8, <1>9 DEF Ownership, Locks, BufferOwnership

LEMMA FlushedThenWriteOwns ==
  ASSUME Ownership, NEW th \in Threads, FlushedThenWrite(th), UNCHANGED target
  PROVE  Ownership'
<1> USE OwnershipParts
<1>1. /\ Drained(th) /\ Step(th, "drain", "write") /\ Recycle /\ ctx' = None
      /\ op[th].kind \in {"hostfill", "hostcopy"}
      /\ UNCHANGED <<val, read, mem, inflight, staged, cmds, params, open, op, freed, ahead,
                     fresh, buffer>>
  BY DEF FlushedThenWrite, batch, Recycle, eager
<1>2. /\ pc' \in [Threads -> Places] /\ pc[th] = "drain" /\ pc'[th] = "write"
      /\ \A u \in Threads \ {th} : pc'[u] = pc[u]
  BY <1>1, Moves DEF Places
<1>3. cmds' = <<>> /\ \A u \in Threads \ {th} : pc[u] # "drain"
  BY <1>1, AfterWait
<1>4. StoreTyped' /\ QueueTyped' /\ ThreadsTyped'
  BY <1>1, <1>2 DEF StoreTyped, EagerTypeOK, QueueTyped, ThreadsTyped
<1>5. Locks'
  <2>1. \A u \in Threads \ {th} : StepFits(u)'
    BY <1>1, <1>2 DEF Locks, Steps, StepFits, Native
  <2>2. StepFits(th)'
    <3>1. StepFits(th) /\ (Native => ahead[th] = 0)
      BY <1>1 DEF Locks, Steps, Drained
    <3> QED  BY <1>1, <1>2, <3>1 DEF StepFits, Native
  <2>3. Steps'
    BY <2>1, <2>2 DEF Steps
  <2>4. Held' /\ Exclusive'
    BY <1>1 DEF Locks, Held, LiveStored, HeldBy, Live, Exclusive
  <2> QED  BY <2>3, <2>4 DEF Locks
<1>6. Mutex'
  BY <1>1, <1>2, <1>3, BatchAssumption DEF Mutex
<1>7. BuffersTyped' /\ BufferOwnership'
  BY <1>1, <1>2, <1>3, NothingTouched, RecycleOwns
<1> QED  BY <1>4, <1>5, <1>6, <1>7 DEF Ownership, Locks, BufferOwnership

LEMMA CompleteOwns ==
  ASSUME Ownership, NEW th \in Threads, Complete(th), UNCHANGED target
  PROVE  Ownership'
<1> USE OwnershipParts
<1>1. /\ End(th, "await") /\ ahead[th] = 0
      /\ pool' = pool \cup freed[th] /\ freed' = [freed EXCEPT ![th] = {}]
      /\ UNCHANGED <<val, inflight, staged, cmds, params, open, ctx, free_bufs, fresh, buffer,
                     ahead>>
      /\ read' = [read EXCEPT ![th] = {}] /\ Unmap(th, "asyncread")
  BY DEF Complete, Answered, batch
<1>2. /\ pc' \in [Threads -> Places] /\ op' \in [Threads -> Operations]
      /\ pc[th] = "await" /\ pc'[th] = "idle" /\ op'[th] = NoOp /\ OthersStay(th)
  BY <1>1, Ends
<1>3. /\ freed \in [Threads -> SUBSET Buffers]
      /\ freed'[th] = {} /\ \A u \in Threads \ {th} : freed'[u] = freed[u]
  BY <1>1 DEF BuffersTyped
<1>4. StoreTyped'
  <2>1. mem' \in [Locations -> Contents]
    BY <1>1, UnmapTyped DEF Mems
  <2> QED  BY <1>1, <2>1 DEF StoreTyped, EagerTypeOK
<1>5. QueueTyped' /\ ThreadsTyped' /\ BuffersTyped'
  BY <1>1, <1>2, <1>3 DEF QueueTyped, ThreadsTyped, BuffersTyped
<1>6. Locks'
  BY <1>1, LocksAtEnd DEF Live
<1>7. Mutex'
  BY <1>1, <1>2 DEF Mutex, OthersStay
<1>8. BufferOwnership'
  <2>1. Owners'
    BY <1>1, <1>3 DEF BufferOwnership, Owners, OneOwner
  <2>2. BatchOwned'
    BY <1>1 DEF BufferOwnership, BatchOwned
  <2>3. FreedWaits'
    BY <1>1, <1>2, <1>3 DEF BufferOwnership, FreedWaits, OthersStay
  <2>4. PoolUnsubmitted'
    <3>1. \A i \in DOMAIN inflight : i > ahead[th]
      BY <1>1 DEF QueueTyped
    <3>2. \A i \in DOMAIN inflight : Touched(inflight[i].cmds) \cap freed[th] = {}
      BY <3>1 DEF BufferOwnership, FreedWaits
    <3> QED  BY <1>1, <3>2 DEF BufferOwnership, PoolUnsubmitted
  <2> QED  BY <2>1, <2>2, <2>3, <2>4 DEF BufferOwnership
<1> QED  BY <1>4, <1>5, <1>6, <1>7, <1>8 DEF Ownership, Locks, BufferOwnership

LEMMA AbandonOwns ==
  ASSUME Ownership, NEW th \in Threads, Abandon(th)
  PROVE  Ownership'
<1> USE OwnershipParts
<1>1. /\ End(th, "await") /\ freed' = [freed EXCEPT ![th] = {}]
      /\ ahead' = [ahead EXCEPT ![th] = 0] /\ read' = [read EXCEPT ![th] = {}]
      /\ UNCHANGED <<val, mem, inflight, staged, cmds, params, open, ctx, free_bufs, pool, fresh,
                     buffer, target>>
  BY DEF Abandon, Answered, batch, bufs
<1>2. /\ pc' \in [Threads -> Places] /\ op' \in [Threads -> Operations]
      /\ pc[th] = "await" /\ pc'[th] = "idle" /\ op'[th] = NoOp /\ OthersStay(th)
  BY <1>1, Ends
<1>3. /\ freed \in [Threads -> SUBSET Buffers]
      /\ freed'[th] = {} /\ \A u \in Threads \ {th} : freed'[u] = freed[u]
  BY <1>1 DEF BuffersTyped
<1>4. /\ ahead \in [Threads -> Nat] /\ Len(inflight) \in Nat
      /\ ahead'[th] = 0 /\ \A u \in Threads \ {th} : ahead'[u] = ahead[u]
  BY <1>1 DEF ThreadsTyped, QueueTyped
<1>5. StoreTyped' /\ QueueTyped' /\ BuffersTyped'
  BY <1>1, <1>3 DEF StoreTyped, EagerTypeOK, QueueTyped, BuffersTyped
<1>6. ThreadsTyped'
  BY <1>1, <1>2, <1>4 DEF ThreadsTyped
<1>7. Locks'
  BY <1>1, <1>4, LocksAtEnd DEF Live
<1>8. Mutex'
  BY <1>1, <1>2, <1>4 DEF Mutex, OthersStay
<1>9. BufferOwnership'
  <2>1. Owners'
    BY <1>1, <1>3 DEF BufferOwnership, Owners, OneOwner
  <2>2. BatchOwned' /\ PoolUnsubmitted'
    BY <1>1 DEF BufferOwnership, BatchOwned, PoolUnsubmitted
  <2>3. FreedWaits'
    BY <1>1, <1>2, <1>3, <1>4 DEF BufferOwnership, FreedWaits, OthersStay
  <2> QED  BY <2>1, <2>2, <2>3 DEF BufferOwnership
<1> QED  BY <1>5, <1>6, <1>7, <1>8, <1>9 DEF Ownership, Locks, BufferOwnership

-----------------------------------------------------------------------------
(* Recording                                                               *)

BufferCommands ==
  [op : {"fill", "accum", "copy"}, dst : Buffers, src : Buffers, aux : {0}, val : Contents]

(* What a recorded command does once its parameters are there.             *)
Effective(c) == IF c.op = "fill" THEN Fill(c.dst, c.val) ELSE c

LEMMA TouchedAppend ==
  ASSUME NEW cs \in Seq(Recorded), NEW e \in Recorded
  PROVE  Touched(Append(cs, e)) = Touched(cs) \cup {e.dst, e.src}
<1>1. Append(cs, e) \in Seq(Recorded)
  OBVIOUS
<1>2. /\ Touched(cs) = UNION {{cs[i].dst, cs[i].src} : i \in DOMAIN cs}
      /\ Touched(Append(cs, e))
           = UNION {{Append(cs, e)[i].dst, Append(cs, e)[i].src} : i \in DOMAIN Append(cs, e)}
  BY <1>1, TouchedLocations
<1> DEFINE ds == Append(cs, e)
<1>3. /\ \A i \in DOMAIN cs : i \in DOMAIN ds /\ ds[i] = cs[i]
      /\ Len(cs) + 1 \in DOMAIN ds /\ ds[Len(cs) + 1] = e
      /\ \A i \in DOMAIN ds : i \in DOMAIN cs \/ i = Len(cs) + 1
  BY ListParts
<1> HIDE DEF ds
<1>4. UNION {{ds[i].dst, ds[i].src} : i \in DOMAIN ds}
        = (UNION {{cs[i].dst, cs[i].src} : i \in DOMAIN cs}) \cup {e.dst, e.src}
  BY <1>3
<1> QED  BY <1>2, <1>4 DEF ds

LEMMA DispatchRecorded ==
  ASSUME QueueTyped, NEW c \in BufferCommands, RecordDispatch(c), UNCHANGED <<inflight, staged>>
  PROVE  /\ QueueTyped'
         /\ \E e \in Recorded : cmds' = Append(cmds, e) /\ e.dst = c.dst /\ e.src \in {c.dst, c.src}
         /\ Effective(c) \in DeviceCommands
         /\ Resolved(cmds', params') = Append(Resolved(cmds, params), Effective(c))
<1> DEFINE e == IF c.op = "fill" THEN Fill(c.dst, Len(params) + 1) ELSE c
<1>1. /\ Len(params) < RingSlots /\ cmds' = Append(cmds, e) /\ params' = Append(params, c.val)
      /\ open' = TRUE
  BY DEF RecordDispatch
<1>2. /\ cmds \in Seq(Recorded) /\ params \in Seq(Contents) /\ SlotsIn(cmds, params)
      /\ Len(params) \in Nat /\ RingSlots \in Nat
  BY BatchAssumption DEF QueueTyped
<1>3. /\ c.val \in Contents /\ c.dst \in Buffers /\ c.src \in Buffers
      /\ c.val \in Nat
  BY DEF BufferCommands, Contents
<1>4. e \in Recorded /\ e.dst = c.dst /\ e.src \in {c.dst, c.src}
  BY <1>2, <1>3 DEF BufferCommands, Recorded, Fill, Locations
<1>5. e.op = "fill" => e.val = Len(params) + 1
  BY DEF Fill
<1> HIDE DEF e
<1>6. /\ cmds' \in Seq(Recorded) /\ params' \in Seq(Contents) /\ Len(params') = Len(params) + 1
      /\ cmds' # <<>>
  BY <1>1, <1>2, <1>3, <1>4
<1>7. SlotsIn(cmds', params')
  <2>1. \A i \in DOMAIN cmds' :
          \/ i \in DOMAIN cmds /\ cmds'[i] = cmds[i]
          \/ cmds'[i] = e
    BY <1>1, <1>2, <1>4
  <2> QED  BY <1>2, <1>5, <1>6, <2>1 DEF SlotsIn
<1>8. QueueTyped'
  <2>1. Len(params') <= RingSlots
    BY <1>1, <1>2, <1>6
  <2>2. open' = (cmds' # <<>>)
    BY <1>1, <1>6
  <2> QED  BY <1>1, <1>6, <1>7, <2>1, <2>2 DEF QueueTyped
<1>9. Effective(c) \in DeviceCommands
  <2>1. 0 \in Contents
    BY NValAssumption DEF Contents
  <2> QED  BY <1>3, <2>1 DEF BufferCommands, Effective, Fill, DeviceCommands, CommandsOver, Locations
<1>10. Resolved(cmds', params') = Append(Resolved(cmds, params), Effective(c))
  <2>1. CASE c.op = "fill"
    <3>1. e = Fill(c.dst, Len(params) + 1) /\ Effective(c) = Fill(c.dst, c.val)
      BY <2>1 DEF e, Effective
    <3> QED  BY <1>1, <1>2, <1>3, <3>1, ResolvedFill
  <2>2. CASE c.op # "fill"
    <3>1. e = c /\ Effective(c) = c
      BY <2>2 DEF e, Effective
    <3>2. c \in Recorded /\ cmds' = Append(cmds, c)
      BY <1>1, <1>4, <3>1
    <3>3. Resolved(Append(cmds, c), params') = Append(Resolved(cmds, params), c)
      BY <1>1, <1>2, <1>3, <1>6, <2>2, <3>2, ResolvedAppend
    <3> QED  BY <3>1, <3>2, <3>3
  <2> QED  BY <2>1, <2>2
<1> QED  BY <1>1, <1>4, <1>8, <1>9, <1>10

LEMMA CopyRecorded ==
  ASSUME QueueTyped, NEW d \in Locations, NEW s \in Buffers, RecordCopy(d, s),
         UNCHANGED <<inflight, staged>>
  PROVE  /\ QueueTyped'
         /\ Copy(d, s) \in Recorded /\ cmds' = Append(cmds, Copy(d, s))
         /\ Copy(d, s) \in DeviceCommands
         /\ Resolved(cmds', params') = Append(Resolved(cmds, params), Copy(d, s))
<1>1. cmds' = Append(cmds, Copy(d, s)) /\ open' = TRUE /\ params' = params
  BY DEF RecordCopy
<1>2. /\ cmds \in Seq(Recorded) /\ params \in Seq(Contents) /\ SlotsIn(cmds, params)
  BY DEF QueueTyped
<1>3. Copy(d, s) \in Recorded /\ Copy(d, s).op = "copy"
  BY CommandTypes DEF Locations, Copy
<1>4. Copy(d, s) \in DeviceCommands
  BY <1>3, CommandTypes
<1>5. cmds' \in Seq(Recorded) /\ cmds' # <<>>
  BY <1>1, <1>2, <1>3
<1>6. SlotsIn(cmds', params')
  <2>1. \A i \in DOMAIN cmds' :
          \/ i \in DOMAIN cmds /\ cmds'[i] = cmds[i]
          \/ cmds'[i] = Copy(d, s)
    BY <1>1, <1>2, <1>3
  <2> QED  BY <1>1, <1>2, <1>3, <2>1 DEF SlotsIn
<1>7. QueueTyped'
  BY <1>1, <1>2, <1>5, <1>6 DEF QueueTyped
<1>8. Resolved(cmds', params') = Append(Resolved(cmds, params), Copy(d, s))
  BY <1>1, <1>2, <1>3, ResolvedAppend
<1> QED  BY <1>1, <1>3, <1>4, <1>7, <1>8

LEMMA KernelTyped ==
  ASSUME StoreTyped, NEW c \in StorageCommands, Kernel(c)
  PROVE  /\ val' \in [Tensors -> Contents \cup {None}] /\ read' = read
         /\ Live(c.dst) /\ Live(c.src) /\ Result(val, c) \in Contents
         /\ val'[c.dst] = Result(val, c) /\ \A t \in Tensors \ {c.dst} : val'[t] = val[t]
         /\ \A t \in Tensors : Live(t)' <=> Live(t)
<1>1. Live(c.dst) /\ Live(c.src) /\ val' = [val EXCEPT ![c.dst] = Result(val, c)] /\ read' = read
  BY DEF Kernel, Put
<1>2. val \in [Tensors -> Contents \cup {None}] /\ c.dst \in Tensors /\ c.src \in Tensors
  BY DEF StoreTyped, EagerTypeOK, StorageCommands
<1>3. val[c.dst] \in Contents /\ val[c.src] \in Contents
  BY <1>1, <1>2 DEF Live
<1>4. \A a, b \in Contents : Combine(a, b) \in Contents
  BY NValAssumption DEF Contents, Combine
<1>5. Result(val, c) \in Contents
  BY <1>3, <1>4 DEF Result, StorageCommands
<1> HIDE DEF Result
<1>6. Result(val, c) # None
  BY <1>5, BatchAssumption
<1> QED  BY <1>1, <1>2, <1>5, <1>6 DEF Live

LEMMA OnBuffersTyped ==
  ASSUME BuffersTyped, Locks, NEW c \in StorageCommands, Live(c.dst), Live(c.src)
  PROVE  /\ OnBuffers(c) \in BufferCommands
         /\ OnBuffers(c).dst = buffer[c.dst] /\ OnBuffers(c).src = buffer[c.src]
         /\ OnBuffers(c).op = c.op /\ OnBuffers(c).val = c.val
<1>1. c.dst \in Tensors /\ c.src \in Tensors
  BY DEF StorageCommands
<1>2. buffer[c.dst] \in Buffers /\ buffer[c.src] \in Buffers
  BY <1>1 DEF BuffersTyped, Locks, Held, LiveStored
<1> QED  BY <1>2 DEF OnBuffers, StorageCommands, BufferCommands

LEMMA DispatchOwns ==
  ASSUME Ownership, NEW th \in Threads, NEW c \in StorageCommands, Dispatch(th, c),
         UNCHANGED target
  PROVE  Ownership'
<1> USE OwnershipParts
<1>1. /\ ctx = None /\ RecordDispatch(OnBuffers(c)) /\ Kernel(c)
      /\ UNCHANGED <<mem, inflight, staged, ctx, free_bufs, pool, fresh, buffer, pc, op, freed,
                     ahead>>
  BY DEF Dispatch, bufs
<1>2. /\ val' \in [Tensors -> Contents \cup {None}] /\ read' = read
      /\ Live(c.dst) /\ Live(c.src) /\ \A t \in Tensors : Live(t)' <=> Live(t)
  BY <1>1, KernelTyped
<1>3. /\ OnBuffers(c) \in BufferCommands
      /\ OnBuffers(c).dst = buffer[c.dst] /\ OnBuffers(c).src = buffer[c.src]
      /\ c.dst \in Tensors /\ c.src \in Tensors
  BY <1>2, OnBuffersTyped DEF StorageCommands
<1>4. QueueTyped'
  BY <1>1, <1>3, DispatchRecorded
<1>5. PICK e \in Recorded : /\ cmds' = Append(cmds, e) /\ e.dst = buffer[c.dst]
                            /\ e.src \in {buffer[c.dst], buffer[c.src]}
  BY <1>1, <1>3, DispatchRecorded
<1>6. Touched(cmds') = Touched(cmds) \cup {e.dst, e.src}
  BY <1>5, TouchedAppend DEF QueueTyped
<1>7. StoreTyped' /\ BuffersTyped' /\ ThreadsTyped'
  BY <1>1, <1>2 DEF StoreTyped, EagerTypeOK, BuffersTyped, ThreadsTyped
<1>8. Locks'
  <2>1. LiveStored'
    BY <1>1, <1>2 DEF Locks, Held, LiveStored
  <2> QED  BY <1>1, <1>2, <2>1, LocksStay
<1>9. Mutex'
  BY <1>1 DEF Mutex
<1>10. BufferOwnership'
  <2>1. BatchOwned'
    BY <1>1, <1>3, <1>5, <1>6 DEF BufferOwnership, BatchOwned
  <2> QED  BY <1>1, <2>1 DEF BufferOwnership, Owners, OneOwner, FreedWaits, PoolUnsubmitted
<1> QED  BY <1>4, <1>7, <1>8, <1>9, <1>10 DEF Ownership, Locks, BufferOwnership

LEMMA CopyBufferOwns ==
  ASSUME Ownership, NEW th \in Threads, NEW t \in Tensors, NEW s \in Tensors, CopyBuffer(th, t, s),
         UNCHANGED target
  PROVE  Ownership'
<1> USE OwnershipParts
<1>1. /\ ctx = None /\ RecordCopy(buffer[t], buffer[s]) /\ Kernel(Copy(t, s))
      /\ UNCHANGED <<mem, inflight, staged, ctx, free_bufs, pool, fresh, buffer, pc, op, freed,
                     ahead>>
  BY DEF CopyBuffer, bufs
<1>2. Copy(t, s) \in StorageCommands /\ Copy(t, s).dst = t /\ Copy(t, s).src = s
  BY StorageCommandTypes DEF Copy
<1>3. /\ val' \in [Tensors -> Contents \cup {None}] /\ read' = read
      /\ Live(t) /\ Live(s) /\ \A u \in Tensors : Live(u)' <=> Live(u)
  BY <1>1, <1>2, KernelTyped
<1>4. buffer[t] \in Buffers /\ buffer[s] \in Buffers /\ buffer[t] \in Locations
  BY <1>3 DEF BuffersTyped, Locks, Held, LiveStored, Locations
<1> DEFINE e == Copy(buffer[t], buffer[s])
<1>5. QueueTyped' /\ e \in Recorded /\ cmds' = Append(cmds, e)
  BY <1>1, <1>4, CopyRecorded
<1>6. e.dst = buffer[t] /\ e.src = buffer[s]
  BY DEF Copy
<1> HIDE DEF e
<1>7. Touched(cmds') = Touched(cmds) \cup {e.dst, e.src}
  BY <1>5, TouchedAppend DEF QueueTyped
<1>8. StoreTyped' /\ BuffersTyped' /\ ThreadsTyped'
  BY <1>1, <1>3 DEF StoreTyped, EagerTypeOK, BuffersTyped, ThreadsTyped
<1>9. Locks'
  <2>1. LiveStored'
    BY <1>1, <1>3 DEF Locks, Held, LiveStored
  <2> QED  BY <1>1, <1>3, <2>1, LocksStay
<1>10. Mutex'
  BY <1>1 DEF Mutex
<1>11. BufferOwnership'
  <2>1. BatchOwned'
    BY <1>1, <1>6, <1>7 DEF BufferOwnership, BatchOwned
  <2> QED  BY <1>1, <2>1 DEF BufferOwnership, Owners, OneOwner, FreedWaits, PoolUnsubmitted
<1> QED  BY <1>5, <1>8, <1>9, <1>10, <1>11 DEF Ownership, Locks, BufferOwnership

LEMMA FlushedThenRecordOwns ==
  ASSUME Ownership, NEW th \in Threads, FlushedThenRecord(th), UNCHANGED target
  PROVE  Ownership'
<1> USE OwnershipParts
<1> DEFINE c == op[th].val
<1>1. /\ Drained(th) /\ op[th].kind = "kernel" /\ RecordDispatch(OnBuffers(c)) /\ Kernel(c)
      /\ End(th, "drain") /\ ctx' = None /\ Recycle
      /\ UNCHANGED <<mem, inflight, staged, freed, ahead, fresh, buffer>>
  BY DEF FlushedThenRecord, Recycle
<1>2. c \in StorageCommands
  BY <1>1 DEF Locks, Steps, StepFits
<1> HIDE DEF c
<1>3. /\ val' \in [Tensors -> Contents \cup {None}] /\ read' = read
      /\ Live(c.dst) /\ Live(c.src) /\ \A t \in Tensors : Live(t)' <=> Live(t)
  BY <1>1, <1>2, KernelTyped
<1>4. /\ OnBuffers(c) \in BufferCommands
      /\ OnBuffers(c).dst = buffer[c.dst] /\ OnBuffers(c).src = buffer[c.src]
      /\ c.dst \in Tensors /\ c.src \in Tensors
  BY <1>2, <1>3, OnBuffersTyped DEF StorageCommands
<1>5. QueueTyped'
  BY <1>1, <1>4, DispatchRecorded
<1>6. PICK e \in Recorded : /\ cmds' = Append(cmds, e) /\ e.dst = buffer[c.dst]
                            /\ e.src \in {buffer[c.dst], buffer[c.src]}
  BY <1>1, <1>4, DispatchRecorded
<1>7. Touched(cmds') \subseteq {buffer[t] : t \in Tensors} /\ cmds' \in Seq(Recorded)
  <2>1. cmds = <<>> /\ Touched(cmds) = {} /\ cmds \in Seq(Recorded)
    BY <1>1, AfterWait, NothingTouched
  <2>2. cmds' \in Seq(Recorded)
    BY <1>5 DEF QueueTyped
  <2>3. Touched(cmds') = Touched(cmds) \cup {e.dst, e.src}
    BY <1>6, <2>1, TouchedAppend
  <2> QED  BY <1>4, <1>6, <2>1, <2>2, <2>3
<1>8. /\ pc' \in [Threads -> Places] /\ op' \in [Threads -> Operations]
      /\ pc[th] = "drain" /\ pc'[th] = "idle" /\ op'[th] = NoOp /\ OthersStay(th)
  BY <1>1, Ends
<1>9. StoreTyped' /\ ThreadsTyped'
  BY <1>1, <1>3, <1>8 DEF StoreTyped, EagerTypeOK, ThreadsTyped
<1>10. Locks'
  BY <1>1, <1>3, LocksAtEnd
<1>11. Mutex'
  BY <1>1, <1>8, AfterWait, BatchAssumption DEF Mutex, OthersStay
<1>12. BuffersTyped' /\ BufferOwnership'
  BY <1>1, <1>7, <1>8, RecycleOwns DEF OthersStay
<1> QED  BY <1>5, <1>9, <1>10, <1>11, <1>12 DEF Ownership, Locks, BufferOwnership

-----------------------------------------------------------------------------
(* Submissions: the open batch joins the queue, with everything it uses.   *)

LEMMA SubmitOwns ==
  ASSUME Ownership, NEW cs \in Seq(Recorded), NoFills(cs), SubmitBatch(cs),
         Touched(cs) \subseteq Threads \cup {buffer[t] : t \in Tensors}
  PROVE  /\ \A i \in DOMAIN inflight' :
              \/ i \in DOMAIN inflight /\ i <= Len(inflight) /\ inflight'[i] = inflight[i]
              \/ /\ i = Len(inflight) + 1
                 /\ Touched(inflight'[i].cmds)
                      \subseteq Threads \cup free_bufs \cup {buffer[t] : t \in Tensors}
         /\ QueueTyped' /\ cmds' = <<>> /\ Touched(cmds') = {} /\ params' = <<>>
         /\ Len(inflight) \in Nat /\ Len(inflight') \in Nat /\ Len(inflight) <= Len(inflight')
<1>1. /\ inflight' \in Seq(Submissions)
      /\ Len(inflight') <= MaxInFlight /\ Len(inflight) <= Len(inflight')
      /\ staged' \in Seq(HostWrites) /\ cmds' = <<>> /\ params' = <<>> /\ open' = FALSE
      /\ \A i \in DOMAIN inflight :
           i <= Len(inflight) /\ i \in DOMAIN inflight' /\ inflight'[i] = inflight[i]
      /\ \A i \in DOMAIN inflight' :
           \/ i \in DOMAIN inflight
           \/ i = Len(inflight) + 1 /\ inflight'[i].cmds = cmds \o cs
  BY Submitted DEF Ownership
<1>2. Touched(cmds \o cs) = Touched(cmds) \cup Touched(cs)
  <2>1. /\ cmds \in Seq(Recorded) /\ cs \in Seq(Recorded) /\ cmds \o cs \in Seq(Recorded)
    BY DEF Ownership, QueueTyped
  <2>2. /\ Touched(cmds) = UNION {{cmds[i].dst, cmds[i].src} : i \in DOMAIN cmds}
        /\ Touched(cs) = UNION {{cs[i].dst, cs[i].src} : i \in DOMAIN cs}
        /\ Touched(cmds \o cs)
             = UNION {{(cmds \o cs)[i].dst, (cmds \o cs)[i].src} : i \in DOMAIN (cmds \o cs)}
    BY <2>1, TouchedLocations
  <2>3. /\ \A i \in DOMAIN (cmds \o cs) :
             \/ i \in DOMAIN cmds /\ (cmds \o cs)[i] = cmds[i]
             \/ i - Len(cmds) \in DOMAIN cs /\ (cmds \o cs)[i] = cs[i - Len(cmds)]
        /\ \A i \in DOMAIN cmds : i \in DOMAIN (cmds \o cs) /\ (cmds \o cs)[i] = cmds[i]
        /\ \A i \in DOMAIN cs :
             i + Len(cmds) \in DOMAIN (cmds \o cs) /\ (cmds \o cs)[i + Len(cmds)] = cs[i]
    BY <2>1
  <2> DEFINE es == cmds \o cs
  <2>4. /\ \A i \in DOMAIN es :
             \/ i \in DOMAIN cmds /\ es[i] = cmds[i]
             \/ i - Len(cmds) \in DOMAIN cs /\ es[i] = cs[i - Len(cmds)]
        /\ \A i \in DOMAIN cmds : i \in DOMAIN es /\ es[i] = cmds[i]
        /\ \A i \in DOMAIN cs : \E j \in DOMAIN es : es[j] = cs[i]
    BY <2>3
  <2> HIDE DEF es
  <2>5. (UNION {{es[i].dst, es[i].src} : i \in DOMAIN es})
          = (UNION {{cmds[i].dst, cmds[i].src} : i \in DOMAIN cmds})
              \cup (UNION {{cs[i].dst, cs[i].src} : i \in DOMAIN cs})
    BY <2>4
  <2> QED  BY <2>2, <2>5 DEF es
<1>3. Touched(cmds) \subseteq Threads \cup free_bufs \cup {buffer[t] : t \in Tensors}
  BY DEF Ownership, BatchOwned
<1>4. Len(inflight) \in Nat /\ Len(inflight') \in Nat
  BY <1>1 DEF Ownership, QueueTyped
<1>5. QueueTyped'
  <2>1. <<>> \in Seq(Recorded) /\ <<>> \in Seq(Contents) /\ SlotsIn(<<>>, <<>>) /\ Len(<<>>) = 0
    BY DEF SlotsIn
  <2>2. SlotsIn(cmds', params') /\ Len(params') <= RingSlots
    BY <1>1, <2>1, BatchAssumption
  <2>3. cmds' \in Seq(Recorded) /\ params' \in Seq(Contents) /\ open' = (cmds' # <<>>)
    BY <1>1, <2>1
  <2> QED  BY <1>1, <2>2, <2>3 DEF QueueTyped
<1> QED  BY <1>1, <1>2, <1>3, <1>4, <1>5, NothingTouched

(* A submission by a thread that then waits with the mutex held.           *)
LEMMA StartFlushOwns ==
  ASSUME Ownership, NEW th \in Threads, NEW o \in Operations, NEW cs \in Seq(Recorded),
         NoFills(cs), Touched(cs) \subseteq Threads \cup {buffer[t] : t \in Tensors},
         StartFlush(th, o, cs), UNCHANGED <<val, target>>,
         read' \in [Threads -> SUBSET Contents], MayHold(th, o), HeldBy(o),
         o.kind \in {"kernel", "flush", "hostfill", "hostcopy", "read"},
         o.kind = "kernel" => o.val \in StorageCommands /\ o.dst = o.val.dst /\ o.src = o.val.src,
         o.kind \in {"hostfill", "hostcopy"} => o.dst \in Tensors /\ o.val \in Contents,
         o.kind \in {"hostcopy", "read"} => Native
  PROVE  Ownership'
<1> USE OwnershipParts
<1>1. /\ ctx = None /\ Begin(th, "drain", o) /\ ctx' = th /\ SubmitBatch(cs)
      /\ ahead' = [ahead EXCEPT ![th] = Len(inflight')]
      /\ UNCHANGED <<mem, free_bufs, pool, fresh, buffer, freed>>
  BY DEF StartFlush, Submit, bufs
<1>2. /\ pc' \in [Threads -> Places] /\ op' \in [Threads -> Operations]
      /\ pc[th] = "idle" /\ pc'[th] = "drain" /\ op'[th] = o /\ OthersStay(th)
  BY <1>1, Begins DEF Places
<1>3. /\ QueueTyped' /\ cmds' = <<>> /\ Touched(cmds') = {}
      /\ \A i \in DOMAIN inflight' :
           \/ i \in DOMAIN inflight /\ i <= Len(inflight) /\ inflight'[i] = inflight[i]
           \/ /\ i = Len(inflight) + 1
              /\ Touched(inflight'[i].cmds)
                   \subseteq Threads \cup free_bufs \cup {buffer[t] : t \in Tensors}
      /\ Len(inflight) \in Nat /\ Len(inflight') \in Nat /\ Len(inflight) <= Len(inflight')
  BY <1>1, SubmitOwns
<1>4. /\ \A u \in Threads : ahead[u] \in Nat /\ ahead[u] <= Len(inflight)
      /\ ahead \in [Threads -> Nat]
      /\ ahead'[th] = Len(inflight') /\ \A u \in Threads \ {th} : ahead'[u] = ahead[u]
  BY <1>1 DEF ThreadsTyped
<1>5. StoreTyped' /\ BuffersTyped'
  BY <1>1 DEF StoreTyped, EagerTypeOK, BuffersTyped
<1>6. ThreadsTyped'
  <2>1. ahead' \in [Threads -> Nat]
    BY <1>1, <1>3, <1>4
  <2> QED  BY <1>1, <1>2, <1>3, <1>4, <2>1 DEF ThreadsTyped
<1>7. Locks'
  <2>1. StepFits(th)'
    BY <1>2 DEF StepFits, Native
  <2>2. HeldBy(o)'
    BY <1>1 DEF HeldBy, Live
  <2>3. "drain" \in Places
    BY DEF Places
  <2> QED  BY <1>1, <1>4, <2>1, <2>2, <2>3, LocksAtBegin
<1>8. Mutex'
  <2>1. \A u \in Threads : pc[u] # "drain"
    BY <1>1, BatchAssumption DEF Mutex
  <2> QED  BY <1>1, <1>2, <1>3, <1>4, <2>1 DEF Mutex, OthersStay
<1>9. BufferOwnership'
  <2>1. Owners'
    BY <1>1 DEF BufferOwnership, Owners, OneOwner
  <2>2. BatchOwned'
    BY <1>3 DEF BatchOwned
  <2>3. Threads \cap Buffers = {} /\ None \notin Buffers
    BY BatchAssumption
  <2>4. /\ pool \subseteq Buffers /\ fresh \subseteq Buffers
        /\ \A u \in Threads : freed[u] \subseteq Buffers
    BY DEF BuffersTyped
  <2>5. /\ (pool \cup fresh) \cap (Threads \cup free_bufs \cup {buffer[t] : t \in Tensors}) = {}
        /\ \A u \in Threads :
             freed[u] \cap (Threads \cup free_bufs \cup {buffer[t] : t \in Tensors}) = {}
    BY <2>3, <2>4 DEF BufferOwnership, Owners, OneOwner
  <2>6. FreedWaits'
    <3>1. ASSUME NEW u \in Threads, freed[u] # {} PROVE pc'[u] = "await" /\ u # th
      BY <1>2, <3>1 DEF BufferOwnership, FreedWaits, OthersStay
    <3>2. ASSUME NEW u \in Threads, NEW i \in DOMAIN inflight', i > ahead'[u]
          PROVE  Touched(inflight'[i].cmds) \cap freed[u] = {}
      <4>1. CASE freed[u] = {}
        BY <4>1
      <4>2. CASE freed[u] # {}
        <5>1. i > ahead[u]
          BY <1>4, <3>1, <3>2, <4>2
        <5> QED  BY <1>3, <2>5, <5>1 DEF BufferOwnership, FreedWaits
      <4> QED  BY <4>1, <4>2
    <3> QED  BY <1>1, <3>1, <3>2 DEF FreedWaits
  <2>7. PoolUnsubmitted'
    BY <1>1, <1>3, <2>5 DEF BufferOwnership, PoolUnsubmitted
  <2> QED  BY <2>1, <2>2, <2>6, <2>7 DEF BufferOwnership
<1> QED  BY <1>3, <1>5, <1>6, <1>7, <1>8, <1>9 DEF Ownership, Locks, BufferOwnership

LEMMA FlushOwns ==
  ASSUME Ownership, NEW th \in Threads, Flush(th), UNCHANGED target
  PROVE  Ownership'
<1> DEFINE o == [NoOp EXCEPT !.kind = "flush"]
<1>1. StartFlush(th, o, <<>>) /\ UNCHANGED <<val, read>>
  BY DEF Flush, eager
<1>2. o \in Operations /\ o.kind = "flush" /\ o.dst = None /\ o.src = None
  BY NoOpTyped DEF NoOp, Operations, Kinds
<1>3. MayHold(th, o) /\ HeldBy(o)
  BY <1>2 DEF MayHold, HeldBy
<1>4. read' \in [Threads -> SUBSET Contents]
  BY <1>1 DEF Ownership, StoreTyped, EagerTypeOK
<1> HIDE DEF o
<1> QED  BY <1>1, <1>2, <1>3, <1>4, NothingToRecord, NothingTouched, StartFlushOwns

LEMMA DispatchFullOwns ==
  ASSUME Ownership, NEW th \in Threads, NEW c \in StorageCommands, DispatchFull(th, c),
         UNCHANGED target
  PROVE  Ownership'
<1> DEFINE o == [kind |-> "kernel", dst |-> c.dst, src |-> c.src, val |-> c]
<1>1. StartFlush(th, o, <<>>) /\ UNCHANGED <<val, read>> /\ Operands(c)
  BY DEF DispatchFull, StartFlush, eager, bufs
<1>2. c.dst \in Tensors /\ c.src \in Tensors
  BY DEF StorageCommands
<1>3. o \in Operations
  BY <1>2 DEF Operations, Kinds
<1>4. MayHold(th, o)
  BY <1>1 DEF MayHold, Operands, Writable, Readable
<1>5. HeldBy(o)
  BY <1>1, <1>2 DEF HeldBy, Ownership, Held, LiveStored, Operands, Writable, Readable
<1>6. read' \in [Threads -> SUBSET Contents]
  BY <1>1 DEF Ownership, StoreTyped, EagerTypeOK
<1>7. o.kind = "kernel" /\ o.val = c /\ o.dst = c.dst /\ o.src = c.src
  OBVIOUS
<1> HIDE DEF o
<1> QED  BY <1>1, <1>3, <1>4, <1>5, <1>6, <1>7, NothingToRecord, NothingTouched, StartFlushOwns

LEMMA HostFillOwns ==
  ASSUME Ownership, NEW th \in Threads, NEW t \in Tensors, NEW v \in Contents,
         HostFill(th, t, v), UNCHANGED target
  PROVE  Ownership'
<1> DEFINE o == [kind |-> "hostfill", dst |-> t, src |-> None, val |-> v]
<1>1. StartFlush(th, o, <<>>) /\ UNCHANGED <<val, read>> /\ Writable(t)
  BY DEF HostFill, eager
<1>2. o \in Operations
  BY DEF Operations, Kinds
<1>3. MayHold(th, o)
  BY <1>1 DEF MayHold, Writable, Readable
<1>4. HeldBy(o)
  BY <1>1 DEF HeldBy, Ownership, Held, LiveStored, Writable, Readable
<1>5. read' \in [Threads -> SUBSET Contents]
  BY <1>1 DEF Ownership, StoreTyped, EagerTypeOK
<1>6. o.kind = "hostfill" /\ o.dst = t /\ o.val = v
  OBVIOUS
<1> HIDE DEF o
<1> QED  BY <1>1, <1>2, <1>3, <1>4, <1>5, <1>6, NothingToRecord, NothingTouched, StartFlushOwns

(* A readback that flushes: what it adds to the batch.                     *)
LEMMA ReadbackTouches ==
  ASSUME Ownership, NEW th \in Threads, NEW s \in Tensors, Live(s)
  PROVE  /\ buffer[s] \in Buffers /\ Readback(th, s) \in Seq(Recorded)
         /\ NoFills(Readback(th, s)) /\ Touched(Readback(th, s)) = {th, buffer[s]}
<1>1. buffer[s] \in Buffers
  BY DEF Ownership, Held, LiveStored, BuffersTyped
<1>2. Readback(th, s) \in Seq(Recorded) /\ NoFills(Readback(th, s))
  BY <1>1, ReadbackRecorded
<1>3. Touched(Readback(th, s)) = {th, buffer[s]}
  <2>1. /\ Copy(th, buffer[s]) \in Recorded /\ Copy(th, buffer[s]).dst = th
        /\ Copy(th, buffer[s]).src = buffer[s]
    BY <1>1, CommandTypes DEF Copy
  <2>2. Readback(th, s) = Append(<<>>, Copy(th, buffer[s]))
    BY DEF Readback
  <2> QED  BY <2>1, <2>2, NothingTouched, TouchedAppend
<1> QED  BY <1>1, <1>2, <1>3

LEMMA AskTyped ==
  ASSUME StoreTyped, NEW th \in Threads, NEW s \in Tensors, NEW X \in SUBSET Contents,
         Ask(th, s, X)
  PROVE  /\ read' \in [Threads -> SUBSET Contents] /\ UNCHANGED val
         /\ Live(s) /\ val[s] \in Contents /\ read[th] = {}
         /\ read'[th] = {val[s]} \cup X /\ \A u \in Threads \ {th} : read'[u] = read[u]
BY DEF StoreTyped, EagerTypeOK, Ask, Live

LEMMA ReadOwns ==
  ASSUME Ownership, NEW th \in Threads, NEW s \in Tensors, Read(th, s), UNCHANGED target
  PROVE  Ownership'
<1> DEFINE o == [kind |-> "read", dst |-> None, src |-> s, val |-> 0]
<1>1. /\ StartFlush(th, o, Readback(th, s)) /\ Ask(th, s, {}) /\ Native /\ Readable(s)
  BY DEF Read
<1>2. read' \in [Threads -> SUBSET Contents] /\ UNCHANGED val /\ Live(s)
  BY <1>1, AskTyped DEF Ownership
<1>3. o \in Operations
  <2>1. 0 \in Contents
    BY NValAssumption DEF Contents
  <2> QED  BY <2>1 DEF Operations, Kinds
<1>4. MayHold(th, o)
  BY <1>1 DEF MayHold, Readable
<1>5. HeldBy(o)
  BY <1>2 DEF HeldBy
<1>6. o.kind = "read"
  OBVIOUS
<1> HIDE DEF o
<1> QED  BY <1>1, <1>2, <1>3, <1>4, <1>5, <1>6, ReadbackTouches, StartFlushOwns

LEMMA HostCopyOwns ==
  ASSUME Ownership, NEW th \in Threads, NEW c \in StorageCommands, HostCopy(th, c),
         UNCHANGED target
  PROVE  Ownership'
<1> DEFINE own == IF c.op = "accum" THEN val[c.dst] ELSE 0
           o == [kind |-> "hostcopy", dst |-> c.dst, src |-> c.src, val |-> own]
<1>1. /\ StartFlush(th, o, Readback(th, c.src)) /\ Ask(th, c.src, {}) /\ Native
      /\ Writable(c.dst) /\ Readable(c.src)
  BY DEF HostCopy
<1>2. c.dst \in Tensors /\ c.src \in Tensors
  BY DEF StorageCommands
<1>3. read' \in [Threads -> SUBSET Contents] /\ UNCHANGED val /\ Live(c.src)
  BY <1>1, <1>2, AskTyped DEF Ownership
<1>4. own \in Contents
  BY <1>1, <1>2, NValAssumption
     DEF Contents, Ownership, StoreTyped, EagerTypeOK, Writable, Readable, Live
<1>5. o \in Operations
  BY <1>2, <1>4 DEF Operations, Kinds
<1>6. MayHold(th, o)
  BY <1>1 DEF MayHold, Writable, Readable
<1>7. HeldBy(o)
  BY <1>1, <1>2, <1>3 DEF HeldBy, Ownership, Held, LiveStored, Writable, Readable
<1>8. o.kind = "hostcopy" /\ o.dst \in Tensors /\ o.val \in Contents
  BY <1>2, <1>4
<1> HIDE DEF o
<1> QED  BY <1>1, <1>2, <1>3, <1>5, <1>6, <1>7, <1>8, ReadbackTouches, StartFlushOwns

LEMMA OverlappingTyped ==
  ASSUME Ownership, NEW s \in Tensors
  PROVE  Overlapping(s) \subseteq Contents
<1>1. \A a, b \in Contents : Combine(a, b) \in Contents
  BY NValAssumption DEF Contents, Combine
<1> SUFFICES ASSUME NEW u \in Threads, pc[u] = "write", op[u].dst = s
             PROVE  (IF op[u].kind = "hostcopy" THEN {Combine(op[u].val, v) : v \in read[u]}
                     ELSE {op[u].val}) \subseteq Contents
  BY DEF Overlapping
<1>2. op[u].val \in Contents
  BY DEF Ownership, Steps, StepFits
<1>3. read[u] \subseteq Contents
  BY DEF Ownership, StoreTyped, EagerTypeOK
<1> QED  BY <1>1, <1>2, <1>3

LEMMA AsyncReadOwns ==
  ASSUME Ownership, NEW th \in Threads, NEW s \in Tensors, AsyncRead(th, s), UNCHANGED target
  PROVE  Ownership'
<1> USE OwnershipParts
<1> DEFINE o == [kind |-> "asyncread", dst |-> None, src |-> s, val |-> 0]
<1>1. /\ ctx = None /\ Begin(th, "submit", o) /\ RecordCopy(th, buffer[s])
      /\ Ask(th, s, Overlapping(s))
      /\ UNCHANGED <<mem, inflight, staged, ctx, free_bufs, pool, fresh, buffer, freed, ahead>>
  BY DEF AsyncRead, bufs
<1>2. read' \in [Threads -> SUBSET Contents] /\ UNCHANGED val /\ Live(s)
  BY <1>1, OverlappingTyped, AskTyped
<1>3. o \in Operations /\ "submit" \in Places
  <2>1. 0 \in Contents
    BY NValAssumption DEF Contents
  <2> QED  BY <2>1 DEF Operations, Kinds, Places
<1>4. /\ pc' \in [Threads -> Places] /\ op' \in [Threads -> Operations]
      /\ pc[th] = "idle" /\ pc'[th] = "submit" /\ op'[th] = o /\ OthersStay(th)
  BY <1>1, <1>3, Begins
<1>5. buffer[s] \in Buffers /\ th \in Locations
  BY <1>2 DEF BuffersTyped, Locks, Held, LiveStored, Locations
<1> DEFINE e == Copy(th, buffer[s])
<1>6. QueueTyped' /\ e \in Recorded /\ cmds' = Append(cmds, e)
  BY <1>1, <1>5, CopyRecorded
<1>7. e.dst = th /\ e.src = buffer[s]
  BY DEF Copy
<1> HIDE DEF e
<1>8. Touched(cmds') = Touched(cmds) \cup {e.dst, e.src}
  BY <1>6, TouchedAppend DEF QueueTyped
<1>9. StoreTyped' /\ BuffersTyped' /\ ThreadsTyped'
  BY <1>1, <1>2, <1>4 DEF StoreTyped, EagerTypeOK, BuffersTyped, ThreadsTyped
<1>10. Locks'
  <2>1. StepFits(th)'
    BY <1>4 DEF StepFits
  <2>2. MayHold(th, o) /\ HeldBy(o)'
    BY <1>2 DEF MayHold, HeldBy, Live
  <2> HIDE DEF o
  <2> QED  BY <1>1, <1>2, <1>3, <2>1, <2>2, LocksAtBegin
<1>11. Mutex'
  BY <1>1, <1>4, BatchAssumption DEF Mutex, OthersStay
<1>12. BufferOwnership'
  <2>1. BatchOwned'
    BY <1>1, <1>7, <1>8 DEF BufferOwnership, BatchOwned
  <2>2. FreedWaits'
    BY <1>1, <1>4 DEF BufferOwnership, FreedWaits, OthersStay
  <2> QED  BY <1>1, <2>1, <2>2 DEF BufferOwnership, Owners, OneOwner, PoolUnsubmitted
<1> QED  BY <1>6, <1>9, <1>10, <1>11, <1>12 DEF Ownership, Locks, BufferOwnership

(* submit_pending: the caller takes the buffers freed so far, which only   *)
(* what it has submitted may use.                                          *)
LEMMA TakeOwns ==
  ASSUME Ownership, NEW th \in Threads, pc[th] # "await", pc'[th] = "await",
         \A u \in Threads \ {th} : pc'[u] = pc[u], ctx = None, UNCHANGED ctx,
         Submit(th, <<>>), Take(th)
  PROVE  /\ QueueTyped' /\ BuffersTyped' /\ BufferOwnership'
         /\ \A u \in Threads \ {th} : ahead'[u] = ahead[u]
         /\ ahead' \in [Threads -> Nat] /\ \A u \in Threads : ahead'[u] <= Len(inflight')
<1> USE OwnershipParts
<1>1. /\ SubmitBatch(<<>>) /\ ahead' = [ahead EXCEPT ![th] = Len(inflight')]
      /\ freed' = [freed EXCEPT ![th] = free_bufs] /\ free_bufs' = {}
      /\ UNCHANGED <<pool, fresh, buffer>>
  BY DEF Submit, Take
<1>2. /\ QueueTyped' /\ cmds' = <<>> /\ Touched(cmds') = {}
      /\ \A i \in DOMAIN inflight' :
           \/ i \in DOMAIN inflight /\ i <= Len(inflight) /\ inflight'[i] = inflight[i]
           \/ /\ i = Len(inflight) + 1
              /\ Touched(inflight'[i].cmds)
                   \subseteq Threads \cup free_bufs \cup {buffer[t] : t \in Tensors}
      /\ Len(inflight) \in Nat /\ Len(inflight') \in Nat /\ Len(inflight) <= Len(inflight')
      /\ \A i \in DOMAIN inflight' : i \in Nat /\ i <= Len(inflight')
  <2>1. Touched(<<>>) \subseteq Threads \cup {buffer[t] : t \in Tensors}
    BY NothingTouched
  <2>2. QueueTyped'
    BY <1>1, <2>1, NothingToRecord, SubmitOwns
  <2>3. \A i \in DOMAIN inflight' : i \in Nat /\ i <= Len(inflight')
    BY <2>2 DEF QueueTyped
  <2> QED  BY <1>1, <2>1, <2>3, NothingToRecord, SubmitOwns
<1>3. /\ \A u \in Threads : ahead[u] \in Nat /\ ahead[u] <= Len(inflight)
      /\ ahead \in [Threads -> Nat]
      /\ ahead'[th] = Len(inflight') /\ \A u \in Threads \ {th} : ahead'[u] = ahead[u]
  BY <1>1 DEF ThreadsTyped
<1>4. ahead' \in [Threads -> Nat] /\ \A u \in Threads : ahead'[u] <= Len(inflight')
  BY <1>1, <1>2, <1>3
<1>5. /\ freed \in [Threads -> SUBSET Buffers] /\ freed' \in [Threads -> SUBSET Buffers]
      /\ freed'[th] = free_bufs /\ \A u \in Threads \ {th} : freed'[u] = freed[u]
      /\ freed[th] = {}
  BY <1>1 DEF BuffersTyped, BufferOwnership, FreedWaits
<1>6. BuffersTyped'
  BY <1>1, <1>5 DEF BuffersTyped
<1>7. Owners'
  BY <1>1, <1>5 DEF BufferOwnership, Owners, OneOwner
<1>8. BatchOwned'
  BY <1>2 DEF BatchOwned
<1>9. /\ (pool \cup fresh) \cap (Threads \cup free_bufs \cup {buffer[t] : t \in Tensors}) = {}
      /\ \A u \in Threads :
           freed[u] \cap (Threads \cup free_bufs \cup {buffer[t] : t \in Tensors}) = {}
  BY BatchAssumption DEF BufferOwnership, Owners, OneOwner, BuffersTyped
<1>10. FreedWaits'
  <2>1. \A u \in Threads : freed'[u] # {} => pc'[u] = "await"
    BY <1>5 DEF BufferOwnership, FreedWaits
  <2>2. ASSUME NEW u \in Threads, NEW i \in DOMAIN inflight', i > ahead'[u]
        PROVE  Touched(inflight'[i].cmds) \cap freed'[u] = {}
    <3>1. u # th
      BY <1>2, <1>3, <2>2
    <3>2. i > ahead[u] /\ freed'[u] = freed[u]
      BY <1>3, <1>5, <2>2, <3>1
    <3> QED  BY <1>2, <1>9, <3>2 DEF BufferOwnership, FreedWaits
  <2> QED  BY <2>1, <2>2 DEF FreedWaits
<1>11. PoolUnsubmitted'
  BY <1>1, <1>2, <1>9 DEF BufferOwnership, PoolUnsubmitted
<1> QED  BY <1>2, <1>3, <1>4, <1>6, <1>7, <1>8, <1>10, <1>11 DEF BufferOwnership

LEMMA SubmitPendingOwns ==
  ASSUME Ownership, NEW th \in Threads, SubmitPending(th)
  PROVE  Ownership'
<1> USE OwnershipParts
<1>1. /\ ctx = None /\ Step(th, "submit", "await") /\ Submit(th, <<>>) /\ Take(th)
      /\ UNCHANGED <<val, read, mem, ctx, op, target, pool, fresh, buffer>>
  BY DEF SubmitPending, Take, eager
<1>2. /\ pc' \in [Threads -> Places] /\ pc[th] = "submit" /\ pc'[th] = "await"
      /\ \A u \in Threads \ {th} : pc'[u] = pc[u]
  BY <1>1, Moves DEF Places
<1>3. /\ QueueTyped' /\ BuffersTyped' /\ BufferOwnership'
      /\ \A u \in Threads \ {th} : ahead'[u] = ahead[u]
      /\ ahead' \in [Threads -> Nat] /\ \A u \in Threads : ahead'[u] <= Len(inflight')
  BY <1>1, <1>2, TakeOwns
<1>4. StoreTyped' /\ ThreadsTyped'
  BY <1>1, <1>2, <1>3 DEF StoreTyped, EagerTypeOK, ThreadsTyped
<1>5. Locks'
  <2>1. \A u \in Threads \ {th} : StepFits(u)'
    BY <1>1, <1>2, <1>3 DEF Locks, Steps, StepFits, Native
  <2>2. StepFits(th)'
    <3>1. StepFits(th)
      BY DEF Locks, Steps
    <3> QED  BY <1>1, <1>2, <3>1 DEF StepFits, Native
  <2>3. Steps'
    BY <2>1, <2>2 DEF Steps
  <2>4. Held' /\ Exclusive'
    BY <1>1 DEF Locks, Held, LiveStored, HeldBy, Live, Exclusive
  <2> QED  BY <2>3, <2>4 DEF Locks
<1>6. Mutex'
  BY <1>1, <1>2, BatchAssumption DEF Mutex
<1> QED  BY <1>3, <1>4, <1>5, <1>6 DEF Ownership, Locks, BufferOwnership

LEMMA AsyncFlushOwns ==
  ASSUME Ownership, NEW th \in Threads, AsyncFlush(th), UNCHANGED target
  PROVE  Ownership'
<1> USE OwnershipParts
<1> DEFINE o == [NoOp EXCEPT !.kind = "asyncflush"]
<1>1. /\ ctx = None /\ Begin(th, "await", o) /\ Submit(th, <<>>) /\ Take(th)
      /\ UNCHANGED <<val, read, mem, ctx, pool, fresh, buffer>>
  BY DEF AsyncFlush, Take, eager
<1>2. /\ o \in Operations /\ o.kind = "asyncflush" /\ o.dst = None /\ o.src = None
      /\ "await" \in Places
  BY NoOpTyped DEF NoOp, Operations, Kinds, Places
<1> HIDE DEF o
<1>3. /\ pc' \in [Threads -> Places] /\ op' \in [Threads -> Operations]
      /\ pc[th] = "idle" /\ pc'[th] = "await" /\ op'[th] = o /\ OthersStay(th)
  BY <1>1, <1>2, Begins
<1>4. /\ QueueTyped' /\ BuffersTyped' /\ BufferOwnership'
      /\ \A u \in Threads \ {th} : ahead'[u] = ahead[u]
      /\ ahead' \in [Threads -> Nat] /\ \A u \in Threads : ahead'[u] <= Len(inflight')
  BY <1>1, <1>3, TakeOwns DEF OthersStay
<1>5. StoreTyped' /\ ThreadsTyped'
  BY <1>1, <1>3, <1>4 DEF StoreTyped, EagerTypeOK, ThreadsTyped
<1>6. Locks'
  <2>1. StepFits(th)'
    BY <1>2, <1>3 DEF StepFits
  <2>2. MayHold(th, o) /\ HeldBy(o)'
    BY <1>2 DEF MayHold, HeldBy
  <2> QED  BY <1>1, <1>2, <1>4, <2>1, <2>2, LocksAtBegin
<1>7. Mutex'
  BY <1>1, <1>3, BatchAssumption DEF Mutex, OthersStay
<1> QED  BY <1>4, <1>5, <1>6, <1>7 DEF Ownership, Locks, BufferOwnership

-----------------------------------------------------------------------------
(* Every step keeps ownership.                                             *)

LEMMA InitOwns == Init => Ownership
<1> SUFFICES ASSUME Init PROVE Ownership
  OBVIOUS
<1>1. /\ val = [t \in Tensors |-> None] /\ read = [th \in Threads |-> {}]
      /\ mem = [l \in Locations |-> 0]
      /\ inflight = <<>> /\ staged = <<>> /\ cmds = <<>> /\ params = <<>> /\ open = FALSE
      /\ ctx = None
      /\ free_bufs = {} /\ pool = {} /\ fresh = Buffers
      /\ buffer = [t \in Tensors |-> None]
      /\ pc = [th \in Threads |-> "idle"] /\ op = [th \in Threads |-> NoOp]
      /\ freed = [th \in Threads |-> {}] /\ ahead = [th \in Threads |-> 0]
      /\ target \in Targets
  BY DEF Init, EagerInit
<1>2. 0 \in Contents /\ Len(<<>>) = 0 /\ None \notin Threads
  BY NValAssumption, BatchAssumption DEF Contents
<1>3. StoreTyped
  BY <1>1, <1>2 DEF StoreTyped, EagerTypeOK
<1>4. QueueTyped
  <2>1. SlotsIn(cmds, params)
    BY <1>1 DEF SlotsIn
  <2>2. open = (cmds # <<>>) /\ (params # <<>> => open)
    BY <1>1
  <2>3. Len(inflight) <= MaxInFlight /\ Len(params) <= RingSlots
    BY <1>1, <1>2, BatchAssumption
  <2>4. /\ inflight \in Seq(Submissions) /\ staged \in Seq(HostWrites)
        /\ cmds \in Seq(Recorded) /\ params \in Seq(Contents)
    BY <1>1
  <2> QED  BY <2>1, <2>2, <2>3, <2>4 DEF QueueTyped
<1>5. BuffersTyped
  BY <1>1 DEF BuffersTyped
<1>6. ThreadsTyped
  BY <1>1, <1>2, NoOpTyped DEF ThreadsTyped, Places
<1>7. Steps
  BY <1>1 DEF Steps, StepFits, NoOp
<1>8. Held /\ Exclusive
  BY <1>1 DEF Held, LiveStored, HeldBy, Live, Exclusive, NoOp
<1>9. Mutex
  BY <1>1, <1>2 DEF Mutex
<1>10. Owners /\ BatchOwned
  BY <1>1, NothingTouched, BatchAssumption DEF Owners, OneOwner, BatchOwned
<1>11. FreedWaits /\ PoolUnsubmitted
  BY <1>1 DEF FreedWaits, PoolUnsubmitted
<1> QED  BY <1>3, <1>4, <1>5, <1>6, <1>7, <1>8, <1>9, <1>10, <1>11 DEF Ownership

LEMMA StartOwns ==
  ASSUME Ownership, NEW th \in Threads, Start(th)
  PROVE  Ownership'
<1>1. UNCHANGED target
  BY DEF Start
<1>2. CASE Flush(th) \/ AsyncFlush(th)
  BY <1>1, <1>2, FlushOwns, AsyncFlushOwns
<1>3. ASSUME NEW t \in Tensors, Read(th, t) \/ AsyncRead(th, t)
      PROVE  Ownership'
  BY <1>1, <1>3, ReadOwns, AsyncReadOwns
<1>4. ASSUME NEW t \in Tensors, NEW b \in Buffers, NEW v \in Inputs,
             AllocUninit(th, t, b) \/ FromVec(th, t, b, v)
      PROVE  Ownership'
  BY <1>1, <1>4, AllocUninitOwns, FromVecOwns, BatchAssumption
<1>5. ASSUME NEW t \in Tensors, NEW c \in KernelsOn[t], Dispatch(th, c) \/ DispatchFull(th, c)
      PROVE  Ownership'
  BY <1>1, <1>5, KernelsTyped, DispatchOwns, DispatchFullOwns
<1>6. ASSUME NEW t \in Tensors, NEW c \in StepsOn[t],
             \/ CopyBuffer(th, t, c.cmd.src)
             \/ HostFill(th, t, c.cmd.val)
             \/ HostCopy(th, c.cmd)
      PROVE  Ownership'
  <2>1. /\ c.cmd \in StorageCommands
        /\ c.cmd.src \in Tensors /\ c.cmd.val \in Contents
    BY StepsOnTyped DEF StorageCommands
  <2> QED  BY <1>1, <1>6, <2>1, CopyBufferOwns, HostFillOwns, HostCopyOwns
<1>7. ASSUME NEW t \in Tensors, NEW b \in Buffers, AllocUninit(th, t, b)
      PROVE  Ownership'
  BY <1>1, <1>7, AllocUninitOwns
<1> QED  BY <1>2, <1>3, <1>4, <1>5, <1>6, <1>7 DEF Start

LEMMA NextOwns == Ownership /\ [Next]_vars => Ownership'
<1> SUFFICES ASSUME Ownership, [Next]_vars PROVE Ownership'
  OBVIOUS
<1>1. CASE Execute
  BY <1>1, ExecuteOwns
<1>2. ASSUME NEW t \in Tensors, DropStorage(t) PROVE Ownership'
  BY <1>2, DropStorageOwns
<1>3. ASSUME NEW th \in Threads, Start(th) PROVE Ownership'
  BY <1>3, StartOwns
<1>4. ASSUME NEW th \in Threads, Continue(th) PROVE Ownership'
  <2>1. UNCHANGED target
    BY <1>4 DEF Continue
  <2> QED
    BY <1>4, <2>1, WriteOwns, SubmitPendingOwns, CompleteOwns, FlushedThenRecordOwns,
       FlushedThenWriteOwns, FlushedThenReturnOwns DEF Continue
<1>5. ASSUME NEW th \in Threads, Abandon(th) PROVE Ownership'
  BY <1>5, AbandonOwns
<1>6. CASE UNCHANGED vars
  <2>1. UNCHANGED <<val, read, mem, inflight, staged, cmds, params, open, ctx, free_bufs, pool,
                    fresh, buffer, pc, op, freed, ahead, target>>
    BY <1>6 DEF vars, eager, batch, bufs
  <2> QED
    BY <2>1 DEF Ownership, StoreTyped, EagerTypeOK, QueueTyped, BuffersTyped, ThreadsTyped, Steps,
                StepFits, Native, Held, LiveStored, HeldBy, Live, Exclusive, Mutex, Owners,
                OneOwner, BatchOwned, FreedWaits, PoolUnsubmitted
<1> QED  BY <1>1, <1>2, <1>3, <1>4, <1>5, <1>6 DEF Next

(* The parts of the inductive invariant that are about types, locks and    *)
(* owners hold of every state.                                             *)
THEOREM OwnershipHolds == Spec => []Ownership
<1>1. Init => Ownership
  BY InitOwns
<1>2. Ownership /\ [Next]_vars => Ownership'
  BY NextOwns
<1> QED  BY <1>1, <1>2, PTL DEF Spec

(* A buffer never has two owners, whatever threads, storages and buffers   *)
(* there are: what drop puts on free_bufs, what a future takes and what    *)
(* the pool hands out (webgpu_backend/mod.rs).                             *)
THEOREM BuffersHaveOneOwner == Spec => []OneOwner
<1>1. Ownership => OneOwner
  BY DEF Ownership, Owners
<1> QED  BY <1>1, OwnershipHolds, PTL

(* What alloc_buffer may hand out is in no command, recorded or submitted: *)
(* recycling waits for what may still use a buffer.                        *)
THEOREM RecycledIsIdle == Spec => []PoolIsIdle
<1>1. Ownership => PoolIsIdle
  <2> SUFFICES ASSUME Ownership PROVE PoolIsIdle
    OBVIOUS
  <2>1. (pool \cup fresh) \cap (Threads \cup free_bufs \cup {buffer[t] : t \in Tensors}) = {}
    BY BatchAssumption DEF Ownership, Owners, OneOwner, BuffersTyped
  <2>2. Touched(cmds) \cap (pool \cup fresh) = {}
    BY <2>1 DEF Ownership, BatchOwned
  <2>3. \A i \in DOMAIN inflight : Touched(inflight[i].cmds) \cap (pool \cup fresh) = {}
    BY DEF Ownership, PoolUnsubmitted
  <2> QED  BY <2>2, <2>3 DEF PoolIsIdle
<1> QED  BY <1>1, OwnershipHolds, PTL

(* The types of every variable: device memory holds contents, the batch    *)
(* touches locations, an operation is of a known kind.                     *)
THEOREM TypesCorrect == Spec => []TypeOK
<1>1. Ownership => TypeOK
  <2> SUFFICES ASSUME Ownership PROVE TypeOK
    OBVIOUS
  <2>1. EagerTypeOK /\ mem \in [Locations -> Contents]
    BY DEF Ownership, StoreTyped
  <2>2. \A i \in DOMAIN staged : staged[i].dst \in Buffers /\ staged[i].val \in Contents
    <3>1. \A w \in HostWrites : w.dst \in Buffers /\ w.val \in Contents
      BY DEF HostWrites, Fill
    <3> QED  BY <3>1 DEF Ownership, QueueTyped
  <2>3. Touched(cmds) \subseteq Locations
    BY TouchedLocations DEF Ownership, QueueTyped
  <2>4. \A th \in Threads : op[th].kind \in Kinds
    BY DEF Ownership, ThreadsTyped, Operations
  <2>5. ahead \in [Threads -> 0 .. MaxInFlight]
    BY BatchAssumption DEF Ownership, ThreadsTyped, QueueTyped
  <2>6. pc \in [Threads -> {"idle", "write", "submit", "drain", "await"}]
    BY DEF Ownership, ThreadsTyped, Places
  <2> QED
    BY <2>1, <2>2, <2>3, <2>4, <2>5, <2>6
       DEF TypeOK, Ownership, QueueTyped, BuffersTyped, ThreadsTyped
<1> QED  BY <1>1, OwnershipHolds, PTL

-----------------------------------------------------------------------------
(* Deferring changes nothing a caller can see: each storage and each       *)
(* readback gets the contents eager execution would give it.               *)

-----------------------------------------------------------------------------
(* What each action does to memory as it will be once everything has run   *)

Values == CopiesOwn /\ WritesClear /\ Settles /\ ReadsDue

(* A command that joins the batch runs last.                               *)
LEMMA RecordedSettles ==
  ASSUME StoreTyped, QueueTyped, QueueTyped', UNCHANGED <<mem, inflight, staged>>,
         NEW e \in DeviceCommands, Resolved(cmds', params') = Append(Resolved(cmds, params), e)
  PROVE  Settled' = Exec(Settled, e)
<1> DEFINE M == ExecAll(RunAll(mem, inflight), staged)
           R == Resolved(cmds, params)
<1>1. /\ cmds \in Seq(Recorded) /\ params \in Seq(Contents) /\ SlotsIn(cmds, params)
      /\ cmds' \in Seq(Recorded) /\ params' \in Seq(Contents) /\ SlotsIn(cmds', params')
      /\ mem \in Mems /\ inflight \in Seq(Submissions) /\ staged \in Seq(HostWrites)
  BY DEF QueueTyped, StoreTyped, Mems
<1>2. SettledBy(mem, inflight, staged, cmds', params') = ExecAll(M, Resolved(cmds', params'))
  BY <1>1, SettledBySplit
<1>3. SettledBy(mem, inflight, staged, cmds, params) = ExecAll(M, R)
  BY <1>1, SettledBySplit
<1>4. R \in Seq(DeviceCommands)
  BY <1>1, ResolvedType
<1> HIDE DEF M
<1>5. ExecAll(M, Append(R, e)) = Exec(ExecAll(M, R), e)
  BY <1>4, ExecAllAppend
<1> QED  BY <1>2, <1>3, <1>5, SettledParts

LEMMA ExecuteSettles ==
  ASSUME Ownership, Execute
  PROVE  Settled' = Settled
<1> DEFINE B == Batch(cmds)
<1>1. inflight \in Seq(Submissions) /\ inflight # <<>> /\ B \in Submissions
  BY DEF Ownership, QueueTyped, Execute, Batch, Submissions
<1>2. mem' = Run(mem, Head(inflight)) /\ inflight' = Tail(inflight) /\ Batch(cmds)' = B
  BY DEF Execute, Batch, batch
<1> HIDE DEF B
<1>3. /\ Append(inflight, B) \in Seq(Submissions) /\ Append(inflight, B) # <<>>
      /\ Head(Append(inflight, B)) = Head(inflight)
      /\ Tail(Append(inflight, B)) = Append(Tail(inflight), B)
  BY <1>1
<1>4. RunAll(mem, Append(inflight, B))
        = RunAll(Run(mem, Head(inflight)), Append(Tail(inflight), B))
  BY <1>3, RunAllFirst
<1> QED  BY <1>2, <1>4 DEF Settled, B

LEMMA SubmitSettles ==
  ASSUME StoreTyped, QueueTyped, NEW cs \in Seq(Recorded), NoFills(cs), SubmitBatch(cs),
         UNCHANGED mem
  PROVE  Settled' = SettledBy(mem, inflight, staged, cmds \o cs, params)
<1>1. /\ cmds' = <<>> /\ params' = <<>>
      /\ \/ inflight' = inflight /\ staged' = staged /\ cmds = <<>> /\ params = <<>> /\ cs = <<>>
         \/ /\ inflight' = Append(inflight, Batch(cmds \o cs)) /\ staged' = <<>>
            /\ Batch(cmds \o cs) \in Submissions
      /\ inflight' \in Seq(Submissions)
  BY Submitted
<1>2. Settled' = SettledBy(mem, inflight', staged', <<>>, <<>>)
  BY <1>1, SettledParts
<1>3. CASE inflight' = inflight /\ staged' = staged /\ cmds = <<>> /\ params = <<>> /\ cs = <<>>
  <2>1. cmds \o cs = <<>>
    BY <1>3
  <2> QED  BY <1>2, <1>3, <2>1
<1>4. CASE inflight' = Append(inflight, Batch(cmds \o cs)) /\ staged' = <<>>
  <2>1. /\ mem \in Mems /\ <<>> \in Seq(HostWrites) /\ <<>> \in Seq(Recorded)
        /\ <<>> \in Seq(Contents) /\ SlotsIn(<<>>, <<>>)
    BY DEF StoreTyped, Mems, SlotsIn
  <2>2. SettledBy(mem, inflight', <<>>, <<>>, <<>>)
          = ExecAll(ExecAll(RunAll(mem, inflight'), <<>>), Resolved(<<>>, <<>>))
    BY <1>1, <2>1, SettledBySplit
  <2>3. Resolved(<<>>, <<>>) = <<>>
    BY DEF Resolved
  <2>4. SettledBy(mem, inflight', <<>>, <<>>, <<>>) = RunAll(mem, inflight')
    BY <2>2, <2>3, ExecAllEmpty
  <2> QED  BY <1>2, <1>4, <2>4 DEF SettledBy, Batch
<1> QED  BY <1>1, <1>3, <1>4

LEMMA SubmitOpenSettles ==
  ASSUME Ownership, SubmitBatch(<<>>), UNCHANGED mem
  PROVE  Settled' = Settled
<1>1. cmds \in Seq(Recorded)
  BY DEF Ownership, QueueTyped
<1>2. cmds \o <<>> = cmds
  BY <1>1
<1>3. Settled' = SettledBy(mem, inflight, staged, cmds \o <<>>, params)
  BY NothingToRecord, SubmitSettles DEF Ownership
<1> QED  BY <1>2, <1>3, SettledParts

LEMMA SubmitReadbackSettles ==
  ASSUME Ownership, NEW th \in Threads, NEW s \in Tensors, Live(s),
         SubmitBatch(Readback(th, s)), UNCHANGED mem
  PROVE  Settled' = Exec(Settled, Copy(th, buffer[s])) /\ Copy(th, buffer[s]) \in DeviceCommands
<1> DEFINE e == Copy(th, buffer[s])
<1>1. /\ cmds \in Seq(Recorded) /\ params \in Seq(Contents) /\ SlotsIn(cmds, params)
      /\ mem \in Mems /\ inflight \in Seq(Submissions) /\ staged \in Seq(HostWrites)
  BY DEF Ownership, QueueTyped, StoreTyped, Mems
<1>2. /\ Readback(th, s) \in Seq(Recorded) /\ NoFills(Readback(th, s)) /\ buffer[s] \in Buffers
  BY ReadbackTouches
<1>3. e \in Recorded /\ e.op = "copy" /\ e \in DeviceCommands
  BY <1>2, CommandTypes DEF Copy
<1>4. Settled' = SettledBy(mem, inflight, staged, cmds \o Readback(th, s), params)
  BY <1>2, SubmitSettles DEF Ownership
<1>5. Readback(th, s) = <<e>>
  BY DEF Readback
<1> HIDE DEF e
<1>6. cmds \o Readback(th, s) = Append(cmds, e) /\ Append(cmds, e) \in Seq(Recorded)
  BY <1>1, <1>3, <1>5
<1>7. Resolved(Append(cmds, e), params) = Append(Resolved(cmds, params), e)
  BY <1>1, <1>3, ResolvedAppend
<1>8. SlotsIn(Append(cmds, e), params)
  <2>1. \A i \in DOMAIN Append(cmds, e) :
          \/ i \in DOMAIN cmds /\ Append(cmds, e)[i] = cmds[i]
          \/ Append(cmds, e)[i] = e
    BY <1>1, <1>3
  <2> QED  BY <1>1, <1>3, <2>1 DEF SlotsIn
<1> DEFINE ds == Append(cmds, e)
<1> HIDE DEF ds
<1>9. SettledBy(mem, inflight, staged, ds, params)
        = Exec(SettledBy(mem, inflight, staged, cmds, params), e)
  <2>1. ds \in Seq(Recorded) /\ SlotsIn(ds, params)
        /\ Resolved(ds, params) = Append(Resolved(cmds, params), e)
    BY <1>6, <1>7, <1>8 DEF ds
  <2>2. e \in DeviceCommands
    BY <1>3
  <2> DEFINE M == ExecAll(RunAll(mem, inflight), staged)
             R == Resolved(cmds, params)
  <2>3. SettledBy(mem, inflight, staged, ds, params) = ExecAll(M, Resolved(ds, params))
    BY <1>1, <2>1, SettledBySplit
  <2>4. SettledBy(mem, inflight, staged, cmds, params) = ExecAll(M, R)
    BY <1>1, SettledBySplit
  <2>5. R \in Seq(DeviceCommands)
    BY <1>1, ResolvedType
  <2> HIDE DEF M, R
  <2>6. ExecAll(M, Append(R, e)) = Exec(ExecAll(M, R), e)
    BY <2>2, <2>5, ExecAllAppend
  <2>7. Resolved(ds, params) = Append(R, e)
    BY <2>1 DEF R
  <2> QED  BY <2>3, <2>4, <2>6, <2>7
<1>10. Settled' = Exec(Settled, e)
  BY <1>4, <1>6, <1>9, SettledParts DEF ds
<1> QED  BY <1>3, <1>10 DEF e

(* A copy to a readback buffer changes nothing else.                       *)
LEMMA ExecCopy ==
  ASSUME NEW m \in Mems, NEW d \in Locations, NEW s \in Buffers
  PROVE  /\ Exec(m, Copy(d, s))[d] = m[s]
         /\ \A l \in Locations \ {d} : Exec(m, Copy(d, s))[l] = m[l]
BY DEF Mems, Exec, Result, Copy, Locations

(* A buffer that goes with its operation.                                  *)
LEMMA UnmapSettles ==
  ASSUME Ownership, NEW th \in Threads, NEW kind, Unmap(th, kind),
         UNCHANGED <<inflight, staged, cmds, params>>
  PROVE  \A l \in Elsewhere(th) : Settled'[l] = Settled[l]
<1>1. mem' \in Mems /\ mem \in Mems /\ SameOn(mem', mem, Elsewhere(th))
  BY UnmapTyped DEF Ownership, StoreTyped, Mems
<1> DEFINE subs == Append(inflight, Batch(cmds))
<1>2. subs \in Seq(Submissions)
  BY DEF Ownership, QueueTyped, Batch, Submissions
<1>3. Settled = RunAll(mem, subs) /\ Settled' = RunAll(mem', subs)
  BY DEF Settled, Batch
<1> HIDE DEF subs
<1>4. SameOn(RunAll(mem', subs), RunAll(mem, subs), Elsewhere(th))
  BY <1>1, <1>2, RunAllAgree
<1> QED  BY <1>3, <1>4 DEF SameOn

(* What a thread waited for is in its readback buffer.                     *)
LEMMA Arrived ==
  ASSUME Ownership, CopiesOwn, ReadsDue, NEW th \in Threads, read[th] # {},
         pc[th] # "submit", ahead[th] = 0
  PROVE  mem[th] = Settled[th] /\ mem[th] \in read[th]
<1>1. /\ cmds \in Seq(Recorded) /\ params \in Seq(Contents) /\ SlotsIn(cmds, params)
      /\ mem \in Mems /\ inflight \in Seq(Submissions) /\ staged \in Seq(HostWrites)
  BY DEF Ownership, QueueTyped, StoreTyped, Mems
<1>2. Spares(cmds, th)
  BY DEF CopiesOwn, Spares
<1>3. \A i \in DOMAIN inflight : Spares(inflight[i].cmds, th)
  <2>1. \A i \in DOMAIN inflight : i > ahead[th]
    BY <1>1
  <2> QED  BY <2>1 DEF ReadsDue, ReadDue
<1>4. /\ RunAll(mem, inflight) \in Mems /\ ExecAll(RunAll(mem, inflight), staged) \in Mems
      /\ Settled = ExecAll(ExecAll(RunAll(mem, inflight), staged), Resolved(cmds, params))
  BY <1>1, SettledParts, SettledBySplit
<1>5. RunAll(mem, inflight)[th] = mem[th]
  BY <1>1, <1>3, RunAllUnread
<1>6. ExecAll(RunAll(mem, inflight), staged)[th] = mem[th]
  BY <1>1, <1>4, <1>5, FlowUnread
<1> DEFINE M == ExecAll(RunAll(mem, inflight), staged)
<1> HIDE DEF M
<1>7. ExecAll(M, Resolved(cmds, params))[th] = M[th]
  BY <1>1, <1>2, <1>4, ResolvedUnread DEF M
<1> QED  BY <1>4, <1>6, <1>7 DEF M, ReadsDue, ReadDue

-----------------------------------------------------------------------------
(* A host write joins the staged ones: it comes before the open batch.     *)

LEMMA StagedWrite ==
  ASSUME NEW m \in Mems, NEW subs \in Seq(Submissions), NEW ws \in Seq(HostWrites),
         NEW cs \in Seq(Recorded), NEW ps \in Seq(Contents), SlotsIn(cs, ps),
         NEW b \in Buffers, NEW v \in Contents, Spares(cs, b),
         \A i \in DOMAIN cs : cs[i].src = b => cs[i].dst \in Threads,
         NEW old, old = SettledBy(m, subs, ws, cs, ps),
         NEW new, new = SettledBy(m, subs, Append(ws, Fill(b, v)), cs, ps)
  PROVE  /\ new[b] = v
         /\ \A l \in Locations \ {b} :
              (\A i \in DOMAIN cs : cs[i].dst = l => cs[i].src # b) => new[l] = old[l]
         /\ \A u \in Threads :
              /\ \A i \in DOMAIN cs : cs[i].dst = u => cs[i].src = b
              /\ \E i \in DOMAIN cs : cs[i].dst = u
              => new[u] = v
<1> DEFINE w == Fill(b, v)
           M == RunAll(m, subs)
           M1 == ExecAll(M, ws)
           M2 == ExecAll(M, Append(ws, w))
           R == Resolved(cs, ps)
           K == {l \in Locations \ {b} : \A i \in DOMAIN cs : cs[i].dst = l => cs[i].src # b}
<1>1. w \in HostWrites /\ Append(ws, w) \in Seq(HostWrites)
  BY DEF HostWrites
<1>2. /\ M1 \in Mems /\ M2 \in Mems
      /\ old = ExecAll(M1, R) /\ new = ExecAll(M2, R)
  BY <1>1, SettledBySplit
<1>3. M2 = Exec(M1, w)
  BY <1>1, ExecAllAppend
<1>4. b \in Locations /\ M1 \in [Locations -> Contents] /\ M2 \in [Locations -> Contents]
  BY <1>2 DEF Locations, Mems
<1>5. M2[b] = v /\ \A l \in Locations \ {b} : M2[l] = M1[l]
  <2> HIDE DEF M1, M2
  <2> QED  BY <1>3, <1>4 DEF Exec, Result, Fill
<1>6. /\ R \in Seq(CommandsOver(Locations)) /\ DOMAIN R = DOMAIN cs
      /\ \A i \in DOMAIN cs : R[i].dst = cs[i].dst
  BY ResolvedType DEF DeviceCommands
<1>7. \A i \in DOMAIN cs : cs[i] \in Recorded
  OBVIOUS
<1>8. \A i \in DOMAIN cs : cs[i].op # "fill" => R[i] = cs[i]
  BY DEF Resolved
<1>9. \A i \in DOMAIN cs : Reads(R[i]) \subseteq Buffers
  BY ReadsBuffers
<1>10. \A i \in DOMAIN cs : Reads(R[i]) \subseteq {cs[i].dst, cs[i].src}
  <2> SUFFICES ASSUME NEW i \in DOMAIN cs PROVE Reads(R[i]) \subseteq {cs[i].dst, cs[i].src}
    OBVIOUS
  <2>1. CASE cs[i].op = "fill"
    BY <2>1 DEF Resolved, Fill, Reads
  <2>2. CASE cs[i].op = "accum"
    BY <1>8, <2>2 DEF Reads
  <2>3. CASE cs[i].op = "copy"
    BY <1>8, <2>3 DEF Reads
  <2> QED  BY <1>7, <2>1, <2>2, <2>3 DEF Recorded
<1> HIDE DEF M, M1, M2, R
<1>11. Spares(R, b)
  BY <1>6 DEF Spares
<1>12. new[b] = v
  <2>1. R \in Seq(CommandsOver(Locations))
    BY <1>6
  <2> HIDE DEF w, K
  <2>2. ExecAll(M2, R)[b] = M2[b]
    BY <1>4, <1>11, <2>1, ExecAllUnwritten
  <2> QED  BY <1>2, <1>5, <2>2
<1>13. \A l \in K : new[l] = old[l]
  <2>1. K \in SUBSET Locations /\ SameOn(M2, M1, K)
    BY <1>5 DEF SameOn
  <2>2. ClosedIn(R, K)
    <3> SUFFICES ASSUME NEW i \in DOMAIN cs, cs[i].dst \in K, NEW x \in Reads(R[i]) PROVE x \in K
      BY <1>6 DEF ClosedIn, ClosedCommand
    <3>1. x \in Buffers /\ x \in {cs[i].dst, cs[i].src}
      BY <1>9, <1>10
    <3>2. CASE x = cs[i].src
      <4>1. x # b /\ x \in Locations
        BY <3>1, <3>2 DEF Locations
      <4>2. \A j \in DOMAIN cs : cs[j].dst = x => cs[j].src # b
        BY <3>1, BatchAssumption
      <4> QED  BY <4>1, <4>2
    <3> QED  BY <3>1, <3>2
  <2> HIDE DEF K
  <2>3. SameOn(ExecAll(M2, R), ExecAll(M1, R), K)
    BY <1>4, <1>6, <2>1, <2>2, ExecAllAgree
  <2> QED  BY <1>2, <2>3 DEF SameOn
<1>14. ASSUME NEW u \in Threads,
              \A i \in DOMAIN cs : cs[i].dst = u => cs[i].src = b,
              \E i \in DOMAIN cs : cs[i].dst = u
       PROVE  new[u] = v
  <2>1. \A i \in DOMAIN cs : cs[i].dst = u => cs[i].op = "copy"
    BY <1>7, BatchAssumption DEF Recorded
  <2>2. CopiedFrom(R, u, b)
    BY <1>6, <1>8, <1>14, <2>1 DEF CopiedFrom
  <2>3. u \in Locations
    BY DEF Locations
  <2> QED  BY <1>2, <1>4, <1>5, <1>6, <1>11, <2>2, <2>3, ExecAllCopied
<1> QED  BY <1>12, <1>13, <1>14

-----------------------------------------------------------------------------
(* Storages and readback buffers.                                          *)

LEMMA BufferFacts ==
  ASSUME Ownership
  PROVE  /\ \A t \in Tensors : Live(t) => buffer[t] \in Buffers
         /\ \A t, u \in Tensors : buffer[t] = buffer[u] /\ buffer[t] # None => t = u
         /\ Buffers \subseteq Locations /\ Threads \subseteq Locations
         /\ Buffers \cap Threads = {} /\ None \notin Buffers /\ None \notin Threads
         /\ \A i \in DOMAIN cmds :
              /\ cmds[i].dst \in Locations /\ cmds[i].src \in Buffers
              /\ cmds[i].dst \in Threads => cmds[i].op = "copy"
         /\ \A u \in Threads : op[u].dst # None => op[u].dst \in Tensors /\ buffer[op[u].dst] \in Buffers
         /\ \A u \in Threads : pc[u] = "write" => op[u].dst \in Tensors /\ op[u].dst # None
         /\ \A u \in Threads : pc[u] = "submit" => op[u].src \in Tensors /\ Live(op[u].src)
         /\ Settled \in Mems
<1>1. \A i \in DOMAIN cmds : cmds[i] \in Recorded
  BY DEF Ownership, QueueTyped
<1>2. \A i \in DOMAIN cmds :
        /\ cmds[i].dst \in Locations /\ cmds[i].src \in Buffers
        /\ cmds[i].dst \in Threads => cmds[i].op = "copy"
  BY <1>1, BatchAssumption DEF Recorded
<1>3. \A t \in Tensors : Live(t) => buffer[t] \in Buffers
  BY DEF Ownership, Held, LiveStored, BuffersTyped
<1>4. \A u \in Threads : op[u].dst # None => op[u].dst \in Tensors /\ buffer[op[u].dst] \in Buffers
  <2> SUFFICES ASSUME NEW u \in Threads, op[u].dst # None
               PROVE  op[u].dst \in Tensors /\ buffer[op[u].dst] \in Buffers
    OBVIOUS
  <2>1. op[u].dst \in Tensors
    BY DEF Ownership, ThreadsTyped, Operations
  <2>2. HeldBy(op[u])
    BY DEF Ownership, Held
  <2> QED  BY <2>1, <2>2 DEF HeldBy, Ownership, BuffersTyped
<1>5. None \notin Tensors
  BY BatchAssumption
<1>6. \A u \in Threads : pc[u] = "write" => op[u].dst \in Tensors /\ op[u].dst # None
  BY <1>5 DEF Ownership, Steps, StepFits
<1>7. \A u \in Threads : pc[u] = "submit" => op[u].src \in Tensors /\ Live(op[u].src)
  <2> SUFFICES ASSUME NEW u \in Threads, pc[u] = "submit"
               PROVE  op[u].src \in Tensors /\ Live(op[u].src)
    OBVIOUS
  <2>1. op[u].src \in Tensors
    BY DEF Ownership, Steps, StepFits
  <2>2. HeldBy(op[u])
    BY DEF Ownership, Held
  <2> QED  BY <1>5, <2>1, <2>2 DEF HeldBy
<1>8. Settled \in Mems
  BY SettledType DEF Ownership
<1>9. /\ Buffers \subseteq Locations /\ Threads \subseteq Locations
      /\ Buffers \cap Threads = {} /\ None \notin Buffers /\ None \notin Threads
  BY BatchAssumption DEF Locations
<1>10. \A t, u \in Tensors : buffer[t] = buffer[u] /\ buffer[t] # None => t = u
  BY DEF Ownership, Owners, OneOwner
<1> QED  BY <1>2, <1>3, <1>4, <1>6, <1>7, <1>8, <1>9, <1>10

(* A readback under way whose operation makes no step.                     *)
LEMMA ReadStays ==
  ASSUME NEW u \in Threads, ReadDue(u), read'[u] = read[u], op'[u] = op[u],
         pc'[u] = "submit" => pc[u] = "submit", pc[u] = "submit" => pc'[u] = "submit",
         read[u] # {} => Settled'[u] = Settled[u],
         read[u] # {} /\ pc[u] # "submit" =>
           \A i \in DOMAIN inflight' : i > ahead'[u] => Spares(inflight'[i].cmds, u)
  PROVE  ReadDue(u)'
BY DEF ReadDue

LEMMA IdleReadsNothing ==
  ASSUME ReadsDue, Steps, NEW u \in Threads,
         \/ pc[u] = "idle"
         \/ op[u].kind \in {"none", "create", "kernel", "flush", "hostfill", "asyncflush"}
  PROVE  read[u] = {}
BY DEF ReadsDue, ReadDue, Steps, StepFits, NoOp

LEMMA ExecuteValues ==
  ASSUME Ownership, Values, Execute
  PROVE  Values'
<1>1. /\ inflight' = Tail(inflight) /\ inflight # <<>> /\ inflight \in Seq(Submissions)
      /\ ahead' = [th \in Threads |-> IF ahead[th] > 0 THEN ahead[th] - 1 ELSE 0]
      /\ UNCHANGED <<val, read, staged, cmds, params, buffer, pc, op>>
  BY DEF Execute, eager, batch, bufs, Ownership, QueueTyped
<1>2. Settled' = Settled
  BY ExecuteSettles
<1>3. CopiesOwn' /\ WritesClear' /\ Settles'
  <2>1. CopiesOwn'
    BY <1>1 DEF Values, CopiesOwn
  <2>2. WritesClear'
    BY <1>1 DEF Values, WritesClear, WriteClear, Pending
  <2>3. Settles'
    BY <1>1, <1>2 DEF Values, Settles, Live
  <2> QED  BY <2>1, <2>2, <2>3
<1>4. ASSUME NEW u \in Threads PROVE ReadDue(u)'
  <2>1. ahead[u] \in Nat
    BY DEF Ownership, ThreadsTyped
  <2>2. ASSUME NEW i \in DOMAIN inflight', i > ahead'[u]
        PROVE  i + 1 \in DOMAIN inflight /\ inflight'[i] = inflight[i + 1] /\ i + 1 > ahead[u]
    BY <1>1, <2>1, <2>2
  <2>3. ReadDue(u)
    BY DEF Values, ReadsDue
  <2> QED  BY <1>1, <1>2, <2>2, <2>3 DEF ReadDue
<1> QED  BY <1>3, <1>4 DEF Values, ReadsDue

LEMMA AllocUninitValues ==
  ASSUME Ownership, Values, NEW th \in Threads, NEW t \in Tensors, NEW b \in Buffers,
         AllocUninit(th, t, b)
  PROVE  Values'
<1>1. /\ buffer[t] = None /\ val[t] = None
      /\ val' = [val EXCEPT ![t] = Settled[b]] /\ buffer' = [buffer EXCEPT ![t] = b]
      /\ UNCHANGED <<read, mem, inflight, staged, cmds, params, pc, op, ahead>>
  BY DEF AllocUninit, Allocate, Create, batch
<1>2. Settled' = Settled
  BY <1>1, SettledParts
<1>3. /\ buffer'[t] = b /\ \A u \in Tensors \ {t} : buffer'[u] = buffer[u]
      /\ val'[t] = Settled[b] /\ \A u \in Tensors \ {t} : val'[u] = val[u]
  BY <1>1 DEF Ownership, BuffersTyped, StoreTyped, EagerTypeOK
<1>4. \A u \in Threads : pc[u] = "submit" => op[u].src \in Tensors \ {t}
  BY <1>1, BufferFacts DEF Live
<1>5. \A u \in Threads : pc[u] = "write" => op[u].dst \in Tensors \ {t}
  BY <1>1, BufferFacts
<1>6. CopiesOwn'
  BY <1>1, <1>3, <1>4 DEF Values, CopiesOwn
<1>7. WritesClear'
  BY <1>1, <1>3, <1>5 DEF Values, WritesClear, WriteClear, Pending
<1>8. Settles'
  BY <1>2, <1>3 DEF Values, Settles, Live
<1>9. ReadsDue'
  BY <1>1, <1>2 DEF Values, ReadsDue, ReadDue
<1> QED  BY <1>6, <1>7, <1>8, <1>9 DEF Values

LEMMA FromVecValues ==
  ASSUME Ownership, Values, NEW th \in Threads, NEW t \in Tensors, NEW b \in Buffers,
         NEW v \in Contents, FromVec(th, t, b, v)
  PROVE  Values'
<1> DEFINE o == [kind |-> "create", dst |-> t, src |-> None, val |-> v]
<1>1. /\ b \in pool \cup fresh /\ buffer[t] = None /\ Begin(th, "write", o)
      /\ buffer' = [buffer EXCEPT ![t] = b]
      /\ UNCHANGED <<val, read, mem, inflight, staged, cmds, params, ahead>>
  BY DEF FromVec, Allocate, batch, eager
<1>2. Settled' = Settled
  BY <1>1, SettledParts
<1>3. buffer'[t] = b /\ \A u \in Tensors \ {t} : buffer'[u] = buffer[u]
  BY <1>1 DEF Ownership, BuffersTyped
<1>4. o \in Operations /\ "write" \in Places /\ o.dst = t
  BY DEF Operations, Kinds, Places
<1> HIDE DEF o
<1>5. pc[th] = "idle" /\ pc'[th] = "write" /\ op'[th] = o /\ OthersStay(th)
  BY <1>1, <1>4, Begins DEF Ownership
<1>6. \A u \in Threads : pc[u] = "submit" => op[u].src \in Tensors \ {t}
  BY <1>1, BufferFacts
<1>7. \A u \in Threads : pc[u] = "write" => op[u].dst \in Tensors \ {t}
  BY <1>1, BufferFacts
<1>8. CopiesOwn'
  BY <1>1, <1>3, <1>5, <1>6 DEF Values, CopiesOwn, OthersStay
<1>9. WritesClear'
  <2>1. \A i \in DOMAIN cmds : cmds[i].dst # b /\ cmds[i].src # b
    <3>1. b \notin Touched(cmds)
      <4>1. b \notin Threads \cup free_bufs \cup {buffer[x] : x \in Tensors}
        BY <1>1, BatchAssumption DEF Ownership, Owners, OneOwner, BuffersTyped
      <4> QED  BY <4>1 DEF Ownership, BatchOwned
    <3>2. \A i \in DOMAIN cmds : cmds[i].dst \in Touched(cmds) /\ cmds[i].src \in Touched(cmds)
      BY DEF Touched
    <3> QED  BY <3>1, <3>2
  <2> SUFFICES ASSUME NEW u \in Threads, NEW i \in DOMAIN cmds, pc'[u] = "write"
               PROVE  WriteClear(u, cmds[i])'
    BY <1>1 DEF WritesClear
  <2>2. CASE u = th
    BY <1>1, <1>3, <1>4, <1>5, <2>1, <2>2 DEF WriteClear
  <2>3. CASE u # th
    <3>1. pc[u] = "write" /\ op'[u] = op[u] /\ buffer'[op[u].dst] = buffer[op[u].dst]
      BY <1>3, <1>5, <1>7, <2>3 DEF OthersStay
    <3>2. WriteClear(u, cmds[i])
      BY <3>1 DEF Values, WritesClear
    <3> QED  BY <1>1, <3>1, <3>2 DEF WriteClear, Pending
  <2> QED  BY <2>2, <2>3
<1>10. Settles'
  BY <1>1, <1>2, <1>3, BufferFacts DEF Values, Settles, Live, Ownership, Held, LiveStored
<1>11. ReadsDue'
  <2> SUFFICES ASSUME NEW u \in Threads PROVE ReadDue(u)'
    BY DEF ReadsDue
  <2>1. CASE u = th
    <3>1. read[th] = {}
      BY <1>5, IdleReadsNothing DEF Values, Ownership
    <3> QED  BY <1>1, <2>1, <3>1 DEF ReadDue
  <2>2. CASE u # th
    BY <1>1, <1>2, <1>5, <2>2 DEF Values, ReadsDue, ReadDue, OthersStay
  <2> QED  BY <2>1, <2>2
<1> QED  BY <1>8, <1>9, <1>10, <1>11 DEF Values

LEMMA DropStorageValues ==
  ASSUME Ownership, Values, NEW t \in Tensors, DropStorage(t)
  PROVE  Values'
<1>1. /\ \A u \in Threads : op[u].dst # t /\ op[u].src # t
      /\ val' = [val EXCEPT ![t] = None] /\ buffer' = [buffer EXCEPT ![t] = None]
      /\ UNCHANGED <<read, mem, inflight, staged, cmds, params, pc, op, ahead>>
  BY DEF DropStorage, Unused, Readable, Discard, batch
<1>2. Settled' = Settled
  BY <1>1, SettledParts
<1>3. /\ \A u \in Tensors \ {t} : buffer'[u] = buffer[u]
      /\ val'[t] = None /\ \A u \in Tensors \ {t} : val'[u] = val[u]
  BY <1>1 DEF Ownership, BuffersTyped, StoreTyped, EagerTypeOK
<1>4. CopiesOwn'
  BY <1>1, <1>3, BufferFacts DEF Values, CopiesOwn
<1>5. WritesClear'
  BY <1>1, <1>3, BufferFacts DEF Values, WritesClear, WriteClear, Pending
<1>6. Settles'
  BY <1>2, <1>3 DEF Values, Settles, Live
<1>7. ReadsDue'
  BY <1>1, <1>2 DEF Values, ReadsDue, ReadDue
<1> QED  BY <1>4, <1>5, <1>6, <1>7 DEF Values

(* The thread that waited has its answer, and gives its readback buffer    *)
(* up.                                                                     *)
LEMMA AnsweredValues ==
  ASSUME Ownership, Values, NEW th \in Threads, NEW from, End(th, from),
         from # "write", from # "submit", Answered(th),
         UNCHANGED <<inflight, staged, cmds, params, buffer>>,
         \A l \in Elsewhere(th) : Settled'[l] = Settled[l],
         \A u \in Threads \ {th} : ahead'[u] = ahead[u]
  PROVE  Values'
<1>1. /\ pc[th] = from /\ pc'[th] = "idle" /\ op'[th] = NoOp /\ OthersStay(th)
  BY Ends DEF Ownership
<1>2. /\ val' = val /\ read'[th] = {} /\ \A u \in Threads \ {th} : read'[u] = read[u]
  BY DEF Answered, Ownership, StoreTyped, EagerTypeOK
<1>3. \A i \in DOMAIN cmds : cmds[i].dst # th
  BY <1>1 DEF Values, CopiesOwn
<1>4. \A l \in Buffers \cup (Threads \ {th}) : Settled'[l] = Settled[l]
  BY BufferFacts DEF Elsewhere
<1>5. CopiesOwn'
  BY <1>1, <1>3 DEF Values, CopiesOwn, OthersStay
<1>6. WritesClear'
  <2> SUFFICES ASSUME NEW u \in Threads, NEW i \in DOMAIN cmds, pc'[u] = "write"
               PROVE  WriteClear(u, cmds[i])'
    BY DEF WritesClear
  <2>1. u # th /\ pc[u] = "write" /\ op'[u] = op[u] /\ read'[u] = read[u]
    BY <1>1, <1>2 DEF OthersStay
  <2>2. WriteClear(u, cmds[i])
    BY <2>1 DEF Values, WritesClear
  <2>3. cmds[i].dst \in Threads => read'[cmds[i].dst] = read[cmds[i].dst]
    BY <1>2, <1>3
  <2> QED  BY <2>1, <2>2, <2>3 DEF WriteClear, Pending
<1>7. Settles'
  BY <1>2, <1>4, BufferFacts DEF Values, Settles, Live
<1>8. ReadsDue'
  <2> SUFFICES ASSUME NEW u \in Threads PROVE ReadDue(u)'
    BY DEF ReadsDue
  <2>1. CASE u = th
    BY <1>2, <2>1 DEF ReadDue
  <2>2. CASE u # th
    <3>1. /\ read'[u] = read[u] /\ op'[u] = op[u] /\ pc'[u] = pc[u] /\ ahead'[u] = ahead[u]
          /\ Settled'[u] = Settled[u] /\ ReadDue(u)
      BY <1>1, <1>2, <1>4, <2>2 DEF OthersStay, Values, ReadsDue
    <3> QED  BY <3>1 DEF ReadDue
  <2> QED  BY <2>1, <2>2
<1> QED  BY <1>5, <1>6, <1>7, <1>8 DEF Values

LEMMA FlushedThenReturnValues ==
  ASSUME Ownership, Values, NEW th \in Threads, FlushedThenReturn(th)
  PROVE  Values'
<1>1. /\ End(th, "drain") /\ Answered(th) /\ Unmap(th, "read")
      /\ UNCHANGED <<inflight, staged, cmds, params, buffer, ahead>>
  BY DEF FlushedThenReturn, batch, Recycle
<1>2. \A l \in Elsewhere(th) : Settled'[l] = Settled[l]
  BY <1>1, UnmapSettles
<1> QED  BY <1>1, <1>2, AnsweredValues

LEMMA CompleteValues ==
  ASSUME Ownership, Values, NEW th \in Threads, Complete(th)
  PROVE  Values'
<1>1. /\ End(th, "await") /\ Answered(th) /\ Unmap(th, "asyncread")
      /\ UNCHANGED <<inflight, staged, cmds, params, buffer, ahead>>
  BY DEF Complete, batch
<1>2. \A l \in Elsewhere(th) : Settled'[l] = Settled[l]
  BY <1>1, UnmapSettles
<1> QED  BY <1>1, <1>2, AnsweredValues

LEMMA AbandonValues ==
  ASSUME Ownership, Values, NEW th \in Threads, Abandon(th)
  PROVE  Values'
<1>1. /\ End(th, "await") /\ Answered(th) /\ ahead' = [ahead EXCEPT ![th] = 0]
      /\ UNCHANGED <<mem, inflight, staged, cmds, params, buffer>>
  BY DEF Abandon, batch, bufs
<1>2. Settled' = Settled
  BY <1>1, SettledParts
<1>3. \A u \in Threads \ {th} : ahead'[u] = ahead[u]
  BY <1>1 DEF Ownership, ThreadsTyped
<1> QED  BY <1>1, <1>2, <1>3, AnsweredValues

LEMMA FlushedThenWriteValues ==
  ASSUME Ownership, Values, NEW th \in Threads, FlushedThenWrite(th)
  PROVE  Values'
<1>1. /\ Drained(th) /\ Step(th, "drain", "write")
      /\ UNCHANGED <<val, read, mem, inflight, staged, cmds, params, buffer, op, ahead>>
  BY DEF FlushedThenWrite, eager, batch, Recycle
<1>2. Settled' = Settled
  BY <1>1, SettledParts
<1>3. pc[th] = "drain" /\ pc'[th] = "write" /\ \A u \in Threads \ {th} : pc'[u] = pc[u]
  BY <1>1, Moves DEF Ownership, Places
<1>4. cmds' = <<>>
  BY <1>1, AfterWait
<1>5. CopiesOwn' /\ WritesClear'
  BY <1>4 DEF CopiesOwn, WritesClear
<1>6. Settles'
  BY <1>1, <1>2 DEF Values, Settles, Live
<1>7. ReadsDue'
  <2> SUFFICES ASSUME NEW u \in Threads PROVE ReadDue(u)'
    BY DEF ReadsDue
  <2>1. ReadDue(u) /\ (pc[u] = "submit" <=> pc'[u] = "submit")
    BY <1>3 DEF Values, ReadsDue
  <2> QED  BY <1>1, <1>2, <2>1 DEF ReadDue
<1> QED  BY <1>5, <1>6, <1>7 DEF Values

-----------------------------------------------------------------------------
(* Recording a kernel                                                      *)

LEMMA ExecKernel ==
  ASSUME NEW m \in Mems, NEW c \in StorageCommands, NEW d \in BufferCommands,
         d.op = c.op, d.val = c.val, val[c.dst] = m[d.dst], val[c.src] = m[d.src]
  PROVE  /\ Exec(m, Effective(d))[d.dst] = Result(val, c)
         /\ \A l \in Locations \ {d.dst} : Exec(m, Effective(d))[l] = m[l]
<1> DEFINE e == Effective(d)
<1>1. m \in [Locations -> Contents] /\ d.dst \in Locations /\ d.src \in Locations
  BY DEF Mems, BufferCommands, Locations
<1>2. e.dst = d.dst
  BY DEF Effective, Fill
<1>3. c.op \in {"fill", "accum", "copy"}
  BY DEF StorageCommands
<1>4. Result(m, e) = Result(val, c)
  <2>1. CASE c.op = "fill"
    BY <2>1 DEF Effective, Fill, Result
  <2>2. CASE c.op = "accum"
    BY <2>2 DEF Effective, Result
  <2>3. CASE c.op = "copy"
    BY <2>3 DEF Effective, Result
  <2> QED  BY <1>3, <2>1, <2>2, <2>3
<1> HIDE DEF e
<1>5. Exec(m, e) = [m EXCEPT ![d.dst] = Result(val, c)]
  BY <1>2, <1>4 DEF Exec
<1> QED  BY <1>1, <1>5 DEF e

(* A kernel joins the batch while its thread holds what it works on.       *)
LEMMA KernelValues ==
  ASSUME Ownership, Values, StoreTyped', QueueTyped',
         NEW c \in StorageCommands, Kernel(c), NEW d \in BufferCommands,
         d.dst = buffer[c.dst], d.src = buffer[c.src], d.op = c.op, d.val = c.val,
         NEW e \in Recorded, cmds' = Append(cmds, e), e.dst = d.dst, e.src \in {d.dst, d.src},
         Effective(d) \in DeviceCommands,
         Resolved(cmds', params') = Append(Resolved(cmds, params), Effective(d)),
         UNCHANGED <<mem, inflight, staged, buffer, ahead>>,
         \A u \in Threads :
           \/ pc'[u] = pc[u] /\ op'[u] = op[u] /\ op[u].dst # c.dst /\ op[u].dst # c.src
           \/ read[u] = {} /\ pc'[u] = "idle" /\ pc[u] # "submit"
  PROVE  Values'
<1>1. Settled' = Exec(Settled, Effective(d))
  BY RecordedSettles DEF Ownership
<1>2. /\ read' = read /\ Live(c.dst) /\ Live(c.src)
      /\ val'[c.dst] = Result(val, c) /\ \A t \in Tensors \ {c.dst} : val'[t] = val[t]
      /\ \A t \in Tensors : Live(t)' <=> Live(t)
      /\ c.dst \in Tensors /\ c.src \in Tensors
  BY KernelTyped DEF Ownership, StorageCommands
<1>3. val[c.dst] = Settled[d.dst] /\ val[c.src] = Settled[d.src] /\ Settled \in Mems
  BY <1>2, BufferFacts DEF Values, Settles
<1>4. /\ Settled'[d.dst] = Result(val, c)
      /\ \A l \in Locations \ {d.dst} : Settled'[l] = Settled[l]
  BY <1>1, <1>3, ExecKernel
<1>5. \A i \in DOMAIN cmds' : \/ i \in DOMAIN cmds /\ cmds'[i] = cmds[i]
                              \/ cmds'[i] = e
  BY ListParts DEF Ownership, QueueTyped
<1>6. e.dst \in Buffers /\ e.dst \notin Threads
  BY BatchAssumption DEF BufferCommands
<1>7. CopiesOwn'
  BY <1>5, <1>6 DEF Values, CopiesOwn
<1>8. WritesClear'
  <2> SUFFICES ASSUME NEW u \in Threads, NEW i \in DOMAIN cmds', pc'[u] = "write"
               PROVE  WriteClear(u, cmds[i])'
    BY DEF WritesClear
  <2>1. pc[u] = "write" /\ op'[u] = op[u] /\ op[u].dst # c.dst /\ op[u].dst # c.src
    OBVIOUS
  <2>2. CASE i \in DOMAIN cmds /\ cmds'[i] = cmds[i]
    <3>1. WriteClear(u, cmds[i])
      BY <2>1, <2>2 DEF Values, WritesClear
    <3> QED  BY <1>2, <2>1, <2>2, <3>1 DEF WriteClear, Pending
  <2>3. CASE cmds'[i] = e
    <3>1. buffer[op[u].dst] # buffer[c.dst] /\ buffer[op[u].dst] # buffer[c.src]
      BY <1>2, <2>1, BufferFacts
    <3> QED  BY <2>1, <2>3, <3>1 DEF WriteClear
  <2> QED  BY <1>5, <2>2, <2>3
<1>9. Settles'
  <2> SUFFICES ASSUME NEW t \in Tensors, Live(t) PROVE Settled'[buffer[t]] = val'[t]
    BY <1>2 DEF Settles
  <2>1. CASE t = c.dst
    BY <1>2, <1>4, <2>1
  <2>2. CASE t # c.dst
    <3>1. buffer[t] # d.dst /\ buffer[t] \in Locations
      BY <1>2, <2>2, BufferFacts
    <3> QED  BY <1>2, <1>4, <2>2, <3>1 DEF Values, Settles
  <2> QED  BY <2>1, <2>2
<1>10. ReadsDue'
  <2> SUFFICES ASSUME NEW u \in Threads PROVE ReadDue(u)'
    BY DEF ReadsDue
  <2>1. CASE read[u] = {}
    BY <1>2, <2>1 DEF ReadDue
  <2>2. CASE read[u] # {}
    <3>1. Settled'[u] = Settled[u] /\ pc'[u] = pc[u] /\ op'[u] = op[u] /\ ReadDue(u)
      BY <1>4, <1>6, <2>2, BufferFacts DEF Values, ReadsDue
    <3> QED  BY <1>2, <3>1 DEF ReadDue
  <2> QED  BY <2>1, <2>2
<1> QED  BY <1>7, <1>8, <1>9, <1>10 DEF Values

LEMMA DispatchValues ==
  ASSUME Ownership, Ownership', Values, NEW th \in Threads, NEW c \in StorageCommands,
         Dispatch(th, c)
  PROVE  Values'
<1>1. /\ Operands(c) /\ RecordDispatch(OnBuffers(c)) /\ Kernel(c)
      /\ UNCHANGED <<mem, inflight, staged, buffer, pc, op, ahead>>
  BY DEF Dispatch, bufs
<1> DEFINE d == OnBuffers(c)
<1>2. Live(c.dst) /\ Live(c.src)
  BY <1>1 DEF Kernel
<1>3. /\ d \in BufferCommands /\ d.dst = buffer[c.dst] /\ d.src = buffer[c.src]
      /\ d.op = c.op /\ d.val = c.val
  BY <1>2, OnBuffersTyped, OwnershipParts
<1> HIDE DEF d
<1>4. /\ \E e \in Recorded : cmds' = Append(cmds, e) /\ e.dst = d.dst /\ e.src \in {d.dst, d.src}
      /\ Effective(d) \in DeviceCommands
      /\ Resolved(cmds', params') = Append(Resolved(cmds, params), Effective(d))
  BY <1>1, <1>3, DispatchRecorded DEF Ownership, d
<1>5. \A u \in Threads : op[u].dst # c.dst /\ op[u].dst # c.src
  BY <1>1 DEF Operands, Writable, Readable
<1> QED  BY <1>1, <1>3, <1>4, <1>5, KernelValues DEF Ownership

LEMMA CopyBufferValues ==
  ASSUME Ownership, Ownership', Values, NEW th \in Threads, NEW t \in Tensors, NEW s \in Tensors,
         CopyBuffer(th, t, s)
  PROVE  Values'
<1>1. /\ Writable(t) /\ Readable(s) /\ RecordCopy(buffer[t], buffer[s]) /\ Kernel(Copy(t, s))
      /\ UNCHANGED <<mem, inflight, staged, buffer, pc, op, ahead>>
  BY DEF CopyBuffer, bufs
<1> DEFINE c == Copy(t, s)
           d == Copy(buffer[t], buffer[s])
<1>2. buffer[t] \in Buffers /\ buffer[s] \in Buffers /\ buffer[t] \in Locations
  BY <1>1, BufferFacts DEF Writable, Readable
<1>3. c \in StorageCommands /\ c.dst = t /\ c.src = s
  BY StorageCommandTypes DEF Copy
<1>4. /\ d \in BufferCommands /\ d.dst = buffer[t] /\ d.src = buffer[s] /\ d.op = c.op
      /\ d.val = c.val /\ Effective(d) = d
  BY <1>2, NValAssumption DEF Copy, BufferCommands, Effective, Contents
<1>5. /\ d \in Recorded /\ cmds' = Append(cmds, d) /\ d \in DeviceCommands
      /\ Resolved(cmds', params') = Append(Resolved(cmds, params), d)
  BY <1>1, <1>2, CopyRecorded DEF Ownership
<1>6. \A u \in Threads : op[u].dst # t /\ op[u].dst # s
  BY <1>1 DEF Writable, Readable
<1>7. Kernel(c)
  BY <1>1
<1> HIDE DEF c, d
<1> QED  BY <1>1, <1>3, <1>4, <1>5, <1>6, <1>7, KernelValues DEF Ownership

LEMMA FlushedThenRecordValues ==
  ASSUME Ownership, Ownership', Values, NEW th \in Threads, FlushedThenRecord(th)
  PROVE  Values'
<1> DEFINE c == op[th].val
<1>1. /\ op[th].kind = "kernel" /\ RecordDispatch(OnBuffers(c)) /\ Kernel(c) /\ End(th, "drain")
      /\ UNCHANGED <<mem, inflight, staged, ahead, buffer>>
  BY DEF FlushedThenRecord, Recycle
<1>2. c \in StorageCommands /\ op[th].dst = c.dst /\ op[th].src = c.src
  BY <1>1 DEF Ownership, Steps, StepFits
<1> HIDE DEF c
<1> DEFINE d == OnBuffers(c)
<1>3. Live(c.dst) /\ Live(c.src)
  BY <1>1 DEF Kernel
<1>4. /\ d \in BufferCommands /\ d.dst = buffer[c.dst] /\ d.src = buffer[c.src]
      /\ d.op = c.op /\ d.val = c.val
  BY <1>2, <1>3, OnBuffersTyped, OwnershipParts
<1> HIDE DEF d
<1>5. /\ \E e \in Recorded : cmds' = Append(cmds, e) /\ e.dst = d.dst /\ e.src \in {d.dst, d.src}
      /\ Effective(d) \in DeviceCommands
      /\ Resolved(cmds', params') = Append(Resolved(cmds, params), Effective(d))
  BY <1>1, <1>4, DispatchRecorded DEF Ownership, d
<1>6. pc[th] = "drain" /\ pc'[th] = "idle" /\ OthersStay(th)
  BY <1>1, Ends DEF Ownership
<1>7. read[th] = {}
  BY <1>1, IdleReadsNothing DEF Ownership, Values
<1>8. c.dst \in Tensors /\ c.src \in Tensors /\ None \notin Tensors
  BY <1>2, BatchAssumption DEF StorageCommands
<1>9. \A u \in Threads \ {th} : op[u].dst # c.dst /\ op[u].dst # c.src
  BY <1>1, <1>2, <1>8 DEF Ownership, Exclusive
<1>10. \A u \in Threads :
         \/ pc'[u] = pc[u] /\ op'[u] = op[u] /\ op[u].dst # c.dst /\ op[u].dst # c.src
         \/ read[u] = {} /\ pc'[u] = "idle" /\ pc[u] # "submit"
  BY <1>6, <1>7, <1>9 DEF OthersStay
<1> QED  BY <1>1, <1>2, <1>4, <1>5, <1>10, KernelValues DEF Ownership

-----------------------------------------------------------------------------
(* Submitting                                                              *)

(* A new submission copies to the readback buffers of its own thread and   *)
(* of those that have not submitted yet.                                   *)
LEMMA SubmissionSpares ==
  ASSUME Ownership, CopiesOwn, NEW cs \in Seq(Recorded), NoFills(cs), SubmitBatch(cs),
         NEW u \in Threads, ReadDue(u), read[u] # {}, pc[u] # "submit", Spares(cs, u)
  PROVE  \A i \in DOMAIN inflight' : i > ahead[u] => Spares(inflight'[i].cmds, u)
<1>1. /\ \A i \in DOMAIN inflight : inflight'[i] = inflight[i]
      /\ \A i \in DOMAIN inflight' :
           \/ i \in DOMAIN inflight
           \/ i = Len(inflight) + 1 /\ inflight'[i].cmds = cmds \o cs
  BY Submitted DEF Ownership
<1>2. Spares(cmds, u)
  BY DEF CopiesOwn, Spares
<1>3. cmds \in Seq(Recorded)
  BY DEF Ownership, QueueTyped
<1>4. \A i \in DOMAIN (cmds \o cs) :
        \/ i \in DOMAIN cmds /\ (cmds \o cs)[i] = cmds[i]
        \/ i - Len(cmds) \in DOMAIN cs /\ (cmds \o cs)[i] = cs[i - Len(cmds)]
  BY <1>3
<1>5. Spares(cmds \o cs, u)
  BY <1>2, <1>4 DEF Spares
<1>6. \A i \in DOMAIN inflight : i > ahead[u] => Spares(inflight[i].cmds, u)
  BY DEF ReadDue
<1> QED  BY <1>1, <1>5, <1>6

LEMMA SubmitValues ==
  ASSUME Ownership, Values, NEW th \in Threads, Submit(th, <<>>),
         UNCHANGED <<mem, val, read, buffer>>, OthersStay(th), pc'[th] # "submit",
         read[th] = {} \/ op'[th] = op[th]
  PROVE  Values'
<1>1. SubmitBatch(<<>>) /\ ahead' = [ahead EXCEPT ![th] = Len(inflight')]
  BY DEF Submit
<1>2. Settled' = Settled
  BY <1>1, SubmitOpenSettles
<1>3. cmds' = <<>> /\ inflight' \in Seq(Submissions)
  BY <1>1, NothingToRecord, Submitted DEF Ownership
<1>4. CopiesOwn' /\ WritesClear'
  BY <1>3 DEF CopiesOwn, WritesClear
<1>5. Settles'
  BY <1>2 DEF Values, Settles, Live
<1>6. ahead'[th] = Len(inflight') /\ \A u \in Threads \ {th} : ahead'[u] = ahead[u]
  BY <1>1 DEF Ownership, ThreadsTyped
<1>7. ReadsDue'
  <2> SUFFICES ASSUME NEW u \in Threads, read[u] # {} PROVE ReadDue(u)'
    BY DEF ReadsDue, ReadDue
  <2>1. ReadDue(u)
    BY DEF Values, ReadsDue
  <2>2. CASE u = th
    <3>1. \A i \in DOMAIN inflight' : ~(i > ahead'[th])
      BY <1>3, <1>6
    <3> QED  BY <1>2, <2>1, <2>2, <3>1 DEF ReadDue
  <2>3. CASE u # th
    <3>1. pc'[u] = pc[u] /\ op'[u] = op[u] /\ ahead'[u] = ahead[u]
      BY <1>6, <2>3 DEF OthersStay
    <3>2. Spares(<<>>, u)
      BY DEF Spares
    <3>3. pc[u] # "submit" =>
            \A i \in DOMAIN inflight' : i > ahead[u] => Spares(inflight'[i].cmds, u)
      BY <1>1, <2>1, <3>2, NothingToRecord, SubmissionSpares DEF Values
    <3> QED  BY <1>2, <2>1, <3>1, <3>3 DEF ReadDue
  <2> QED  BY <2>2, <2>3
<1> QED  BY <1>4, <1>5, <1>7 DEF Values

LEMMA StartFlushValues ==
  ASSUME Ownership, Values, NEW th \in Threads, NEW o \in Operations, StartFlush(th, o, <<>>),
         UNCHANGED <<val, read>>
  PROVE  Values'
<1>1. Begin(th, "drain", o) /\ Submit(th, <<>>) /\ UNCHANGED <<mem, buffer>>
  BY DEF StartFlush, bufs
<1>2. pc[th] = "idle" /\ pc'[th] = "drain" /\ OthersStay(th)
  BY <1>1, Begins DEF Ownership, Places
<1>3. read[th] = {}
  BY <1>2, IdleReadsNothing DEF Values, Ownership
<1> QED  BY <1>1, <1>2, <1>3, SubmitValues

LEMMA FlushValues ==
  ASSUME Ownership, Values, NEW th \in Threads, Flush(th)
  PROVE  Values'
<1>1. [NoOp EXCEPT !.kind = "flush"] \in Operations
  BY NoOpTyped DEF NoOp, Operations, Kinds
<1> QED  BY <1>1, StartFlushValues DEF Flush, eager

LEMMA DispatchFullValues ==
  ASSUME Ownership, Values, NEW th \in Threads, NEW c \in StorageCommands, DispatchFull(th, c)
  PROVE  Values'
<1> DEFINE o == [kind |-> "kernel", dst |-> c.dst, src |-> c.src, val |-> c]
<1>1. StartFlush(th, o, <<>>) /\ UNCHANGED <<val, read>>
  BY DEF DispatchFull, StartFlush, eager, bufs
<1>2. o \in Operations
  BY DEF Operations, Kinds, StorageCommands
<1> HIDE DEF o
<1> QED  BY <1>1, <1>2, StartFlushValues

LEMMA HostFillValues ==
  ASSUME Ownership, Values, NEW th \in Threads, NEW t \in Tensors, NEW v \in Contents,
         HostFill(th, t, v)
  PROVE  Values'
<1> DEFINE o == [kind |-> "hostfill", dst |-> t, src |-> None, val |-> v]
<1>1. StartFlush(th, o, <<>>) /\ UNCHANGED <<val, read>>
  BY DEF HostFill, eager
<1>2. o \in Operations
  BY DEF Operations, Kinds
<1> HIDE DEF o
<1> QED  BY <1>1, <1>2, StartFlushValues

LEMMA AsyncFlushValues ==
  ASSUME Ownership, Values, NEW th \in Threads, AsyncFlush(th)
  PROVE  Values'
<1> DEFINE o == [NoOp EXCEPT !.kind = "asyncflush"]
<1>1. Begin(th, "await", o) /\ Submit(th, <<>>) /\ UNCHANGED <<mem, val, read, buffer>>
  BY DEF AsyncFlush, Take, eager
<1>2. o \in Operations /\ "await" \in Places
  BY NoOpTyped DEF NoOp, Operations, Kinds, Places
<1> HIDE DEF o
<1>3. pc[th] = "idle" /\ pc'[th] = "await" /\ OthersStay(th)
  BY <1>1, <1>2, Begins DEF Ownership
<1>4. read[th] = {}
  BY <1>3, IdleReadsNothing DEF Values, Ownership
<1> QED  BY <1>1, <1>3, <1>4, SubmitValues

LEMMA SubmitPendingValues ==
  ASSUME Ownership, Values, NEW th \in Threads, SubmitPending(th)
  PROVE  Values'
<1>1. /\ Step(th, "submit", "await") /\ Submit(th, <<>>)
      /\ UNCHANGED <<mem, val, read, buffer, op>>
  BY DEF SubmitPending, Take, eager
<1>2. pc'[th] = "await" /\ OthersStay(th)
  BY <1>1, Moves DEF Ownership, Places, OthersStay
<1> QED  BY <1>1, <1>2, SubmitValues

-----------------------------------------------------------------------------
(* Readbacks                                                               *)

(* One that flushes: the copy is the last command of the submission.       *)
LEMMA ReadbackValues ==
  ASSUME Ownership, Values, NEW th \in Threads, NEW o \in Operations, NEW s \in Tensors,
         StartFlush(th, o, Readback(th, s)), Ask(th, s, {}), o.kind \in {"read", "hostcopy"}
  PROVE  Values'
<1>1. /\ Begin(th, "drain", o) /\ SubmitBatch(Readback(th, s))
      /\ ahead' = [ahead EXCEPT ![th] = Len(inflight')] /\ UNCHANGED <<mem, buffer>>
  BY DEF StartFlush, Submit, bufs
<1>2. /\ Live(s) /\ val[s] \in Contents /\ val' = val /\ read'[th] = {val[s]}
      /\ \A u \in Threads \ {th} : read'[u] = read[u]
  BY AskTyped DEF Ownership
<1>3. /\ pc[th] = "idle" /\ pc'[th] = "drain" /\ op'[th] = o /\ OthersStay(th)
  BY <1>1, Begins DEF Ownership, Places
<1>4. /\ buffer[s] \in Buffers /\ Readback(th, s) \in Seq(Recorded) /\ NoFills(Readback(th, s))
  BY <1>2, ReadbackTouches
<1>5. cmds' = <<>> /\ inflight' \in Seq(Submissions)
  BY <1>1, <1>4, Submitted DEF Ownership
<1>6. Settled' = Exec(Settled, Copy(th, buffer[s]))
  BY <1>1, <1>2, SubmitReadbackSettles
<1>7. Settled'[th] = Settled[buffer[s]] /\ \A l \in Locations \ {th} : Settled'[l] = Settled[l]
  <2>1. Settled \in Mems /\ th \in Locations
    BY BufferFacts
  <2> QED  BY <1>4, <1>6, <2>1, ExecCopy
<1>8. CopiesOwn' /\ WritesClear'
  BY <1>5 DEF CopiesOwn, WritesClear
<1>9. Settles'
  BY <1>1, <1>2, <1>7, BufferFacts DEF Values, Settles, Live
<1>10. ahead'[th] = Len(inflight') /\ \A u \in Threads \ {th} : ahead'[u] = ahead[u]
  BY <1>1 DEF Ownership, ThreadsTyped
<1>11. ReadDue(th)'
  <2>1. \A i \in DOMAIN inflight' : ~(i > ahead'[th])
    BY <1>5, <1>10
  <2>2. Settled'[th] \in read'[th]
    BY <1>2, <1>7 DEF Values, Settles
  <2> QED  BY <1>2, <1>3, <2>1, <2>2 DEF ReadDue
<1>12. ASSUME NEW u \in Threads \ {th} PROVE ReadDue(u)'
  <2>1. /\ pc'[u] = pc[u] /\ op'[u] = op[u] /\ ahead'[u] = ahead[u] /\ read'[u] = read[u]
        /\ Settled'[u] = Settled[u] /\ ReadDue(u)
    BY <1>2, <1>3, <1>7, <1>10, BufferFacts DEF OthersStay, Values, ReadsDue
  <2>2. Spares(Readback(th, s), u)
    BY DEF Spares, Readback, Copy
  <2>3. read[u] # {} /\ pc[u] # "submit" =>
          \A i \in DOMAIN inflight' : i > ahead[u] => Spares(inflight'[i].cmds, u)
    BY <1>1, <1>4, <2>1, <2>2, SubmissionSpares DEF Values
  <2> QED  BY <2>1, <2>3 DEF ReadDue
<1> QED  BY <1>8, <1>9, <1>11, <1>12 DEF Values, ReadsDue

LEMMA ReadValues ==
  ASSUME Ownership, Values, NEW th \in Threads, NEW s \in Tensors, Read(th, s)
  PROVE  Values'
<1> DEFINE o == [kind |-> "read", dst |-> None, src |-> s, val |-> 0]
<1>1. StartFlush(th, o, Readback(th, s)) /\ Ask(th, s, {})
  BY DEF Read
<1>2. o \in Operations /\ o.kind = "read"
  BY NValAssumption DEF Operations, Kinds, Contents
<1> HIDE DEF o
<1> QED  BY <1>1, <1>2, ReadbackValues

LEMMA HostCopyValues ==
  ASSUME Ownership, Values, NEW th \in Threads, NEW c \in StorageCommands, HostCopy(th, c)
  PROVE  Values'
<1> DEFINE own == IF c.op = "accum" THEN val[c.dst] ELSE 0
           o == [kind |-> "hostcopy", dst |-> c.dst, src |-> c.src, val |-> own]
<1>1. /\ StartFlush(th, o, Readback(th, c.src)) /\ Ask(th, c.src, {}) /\ Writable(c.dst)
  BY DEF HostCopy
<1>2. c.dst \in Tensors /\ c.src \in Tensors
  BY DEF StorageCommands
<1>3. own \in Contents
  BY <1>1, <1>2, NValAssumption
     DEF Contents, Ownership, StoreTyped, EagerTypeOK, Writable, Readable, Live
<1>4. o \in Operations /\ o.kind = "hostcopy"
  BY <1>2, <1>3 DEF Operations, Kinds
<1> HIDE DEF o
<1> QED  BY <1>1, <1>2, <1>4, ReadbackValues

(* One that does not wait: the copy is recorded in the open batch, perhaps *)
(* between the steps of a write to the same storage.                       *)
LEMMA AsyncReadValues ==
  ASSUME Ownership, Ownership', Values, NEW th \in Threads, NEW s \in Tensors, AsyncRead(th, s)
  PROVE  Values'
<1> DEFINE o == [kind |-> "asyncread", dst |-> None, src |-> s, val |-> 0]
<1>1. /\ Begin(th, "submit", o) /\ RecordCopy(th, buffer[s]) /\ Ask(th, s, Overlapping(s))
      /\ UNCHANGED <<mem, inflight, staged, buffer, ahead>>
  BY DEF AsyncRead, bufs
<1>2. /\ Live(s) /\ val[s] \in Contents /\ val' = val /\ read'[th] = {val[s]} \cup Overlapping(s)
      /\ \A u \in Threads \ {th} : read'[u] = read[u]
  BY <1>1, OverlappingTyped, AskTyped DEF Ownership
<1>3. o \in Operations /\ "submit" \in Places /\ o.kind = "asyncread" /\ o.src = s
  BY NValAssumption DEF Operations, Kinds, Contents, Places
<1> HIDE DEF o
<1>4. pc[th] = "idle" /\ pc'[th] = "submit" /\ op'[th] = o /\ OthersStay(th)
  BY <1>1, <1>3, Begins DEF Ownership
<1>5. buffer[s] \in Buffers /\ th \in Locations /\ Settled \in Mems
  BY <1>2, BufferFacts
<1> DEFINE e == Copy(th, buffer[s])
<1>6. /\ e \in Recorded /\ cmds' = Append(cmds, e) /\ e \in DeviceCommands
      /\ Resolved(cmds', params') = Append(Resolved(cmds, params), e)
  BY <1>1, <1>5, CopyRecorded DEF Ownership
<1>7. e.dst = th /\ e.src = buffer[s]
  BY DEF Copy
<1>8. \A l \in Locations \ {th} : Exec(Settled, e)[l] = Settled[l]
  BY <1>5, ExecCopy
<1>9. Exec(Settled, e)[th] = Settled[buffer[s]]
  BY <1>5, ExecCopy
<1> HIDE DEF e
<1>10. Settled' = Exec(Settled, e)
  BY <1>1, <1>6, RecordedSettles DEF Ownership
<1>11. \A i \in DOMAIN cmds' : \/ i \in DOMAIN cmds /\ cmds'[i] = cmds[i]
                               \/ cmds'[i] = e
  BY <1>6, ListParts DEF Ownership, QueueTyped
<1>12. \A i \in DOMAIN cmds : cmds[i].dst # th
  BY <1>4 DEF Values, CopiesOwn
<1>13. CopiesOwn'
  <2> SUFFICES ASSUME NEW i \in DOMAIN cmds', cmds'[i].dst \in Threads
               PROVE  /\ pc'[cmds'[i].dst] = "submit"
                      /\ cmds'[i].src = buffer[op'[cmds'[i].dst].src]
    BY <1>1 DEF CopiesOwn
  <2>1. CASE i \in DOMAIN cmds /\ cmds'[i] = cmds[i]
    BY <1>4, <1>12, <2>1 DEF Values, CopiesOwn, OthersStay
  <2>2. CASE cmds'[i] = e
    BY <1>3, <1>4, <1>7, <2>2
  <2> QED  BY <1>11, <2>1, <2>2
<1>14. WritesClear'
  <2> SUFFICES ASSUME NEW u \in Threads, NEW i \in DOMAIN cmds', pc'[u] = "write"
               PROVE  WriteClear(u, cmds[i])'
    BY DEF WritesClear
  <2>1. u # th /\ pc[u] = "write" /\ op'[u] = op[u] /\ read'[u] = read[u]
    BY <1>2, <1>4 DEF OthersStay
  <2>2. CASE i \in DOMAIN cmds /\ cmds'[i] = cmds[i]
    <3>1. WriteClear(u, cmds[i])
      BY <2>1, <2>2 DEF Values, WritesClear
    <3>2. cmds[i].dst \in Threads => read'[cmds[i].dst] = read[cmds[i].dst]
      BY <1>2, <1>12, <2>2
    <3> QED  BY <1>1, <2>1, <2>2, <3>1, <3>2 DEF WriteClear, Pending
  <2>3. CASE cmds'[i] = e
    <3>1. /\ op[u].dst \in Tensors /\ buffer[op[u].dst] \in Buffers /\ th \notin Buffers
      BY <2>1, BufferFacts
    <3>2. ASSUME buffer[s] = buffer[op[u].dst] PROVE Pending(u) \subseteq read'[th]
      <4>1. op[u].dst = s
        BY <1>5, <3>1, <3>2, BufferFacts
      <4>2. Pending(u) \subseteq Overlapping(s)
        BY <2>1, <4>1 DEF Pending, Overlapping
      <4> QED  BY <1>2, <4>2
    <3>3. Pending(u)' = Pending(u)
      BY <2>1 DEF Pending
    <3> QED  BY <1>1, <1>7, <2>1, <2>3, <3>1, <3>2, <3>3 DEF WriteClear
  <2> QED  BY <1>11, <2>2, <2>3
<1>15. Settles'
  BY <1>1, <1>2, <1>8, <1>10, BufferFacts DEF Values, Settles, Live
<1>16. ReadDue(th)'
  <2>1. Settled'[th] \in read'[th]
    BY <1>2, <1>9, <1>10 DEF Values, Settles
  <2> QED  BY <1>3, <1>4, <2>1 DEF ReadDue
<1>17. ASSUME NEW u \in Threads \ {th} PROVE ReadDue(u)'
  <2>1. /\ pc'[u] = pc[u] /\ op'[u] = op[u] /\ read'[u] = read[u]
        /\ Settled'[u] = Settled[u] /\ ReadDue(u)
    BY <1>2, <1>4, <1>8, <1>10, BufferFacts DEF OthersStay, Values, ReadsDue
  <2> QED  BY <1>1, <2>1 DEF ReadDue
<1> QED  BY <1>13, <1>14, <1>15, <1>16, <1>17 DEF Values, ReadsDue

-----------------------------------------------------------------------------
(* The last step of a host write                                           *)

(* What is staged is what eager execution stores, and what a readback that *)
(* fell between the steps expects.                                         *)
LEMMA WrittenValue ==
  ASSUME Ownership, Values, NEW th \in Threads, Write(th),
         NEW v, v = IF op[th].kind = "hostcopy" THEN Combine(op[th].val, mem[th]) ELSE op[th].val
  PROVE  /\ v \in Contents /\ Pending(th) = {v}
         /\ val' = [val EXCEPT ![op[th].dst] = v]
         /\ read'[th] = {} /\ \A u \in Threads \ {th} : read'[u] = read[u]
<1> DEFINE o == op[th]
<1>1. /\ End(th, "write")
      /\ \/ o.kind = "create" /\ Create(o.dst, o.val)
         \/ o.kind = "hostfill" /\ Put(o.dst, o.val)
         \/ o.kind = "hostcopy" /\ PutRead(th, o.dst, o.val)
  BY DEF Write
<1>2. pc[th] = "write" /\ StepFits(th) /\ o.val \in Contents
  <2>1. pc[th] = "write" /\ StepFits(th)
    BY <1>1, Ends DEF Ownership, Steps
  <2> QED  BY <2>1 DEF StepFits
<1>3. read \in [Threads -> SUBSET Contents] /\ \A a, b \in Contents : Combine(a, b) \in Contents
  BY NValAssumption DEF Ownership, StoreTyped, EagerTypeOK, Contents, Combine
<1>4. CASE o.kind # "hostcopy"
  <2>1. v = o.val /\ Pending(th) = {v}
    BY <1>4 DEF Pending
  <2>2. val' = [val EXCEPT ![o.dst] = v] /\ read' = read
    BY <1>1, <1>4, <2>1 DEF Create, Put
  <2>3. read[th] = {}
    BY <1>1, <1>4, IdleReadsNothing DEF Ownership, Values
  <2> QED  BY <1>2, <2>1, <2>2, <2>3
<1>5. CASE o.kind = "hostcopy"
  <2>1. PICK x \in read[th] : val' = [val EXCEPT ![o.dst] = Combine(o.val, x)]
    BY <1>1, <1>5 DEF PutRead
  <2>2. read' = [read EXCEPT ![th] = {}]
    BY <1>1, <1>5 DEF PutRead
  <2>3. ahead[th] = 0
    BY <1>2, <1>5 DEF StepFits
  <2>4. mem[th] \in read[th]
    BY <1>2, <2>1, <2>3, Arrived DEF Values
  <2>5. PICK y \in Contents : read[th] = {y}
    <3>1. ReadDue(th) /\ read[th] # {}
      BY <2>1 DEF Values, ReadsDue
    <3> QED  BY <1>5, <3>1 DEF ReadDue
  <2>6. x = mem[th] /\ x \in Contents
    BY <2>1, <2>4, <2>5
  <2>7. v = Combine(o.val, x) /\ v \in Contents
    BY <1>2, <1>3, <1>5, <2>6
  <2>8. Pending(th) = {v}
    BY <1>5, <2>1, <2>5, <2>7 DEF Pending
  <2> QED  BY <1>3, <2>1, <2>2, <2>7, <2>8
<1> QED  BY <1>4, <1>5

LEMMA WriteValues ==
  ASSUME Ownership, Values, NEW th \in Threads, Write(th)
  PROVE  Values'
<1> DEFINE o == op[th]
           b == buffer[o.dst]
           v == IF o.kind = "hostcopy" THEN Combine(o.val, mem[th]) ELSE o.val
<1>1. /\ End(th, "write") /\ staged' = Append(staged, Fill(b, v)) /\ Unmap(th, "hostcopy")
      /\ UNCHANGED <<inflight, cmds, params, buffer, ahead>>
  BY DEF Write, batch, bufs
<1>2. /\ pc[th] = "write" /\ pc'[th] = "idle" /\ op'[th] = NoOp /\ OthersStay(th)
  BY <1>1, Ends DEF Ownership
<1>3. /\ v \in Contents /\ Pending(th) = {v} /\ val' = [val EXCEPT ![o.dst] = v]
      /\ read'[th] = {} /\ \A u \in Threads \ {th} : read'[u] = read[u]
  BY WrittenValue
<1> HIDE DEF v
<1>4. /\ o.dst \in Tensors /\ b \in Buffers /\ b \in Locations /\ b \notin Threads
  BY <1>2, BufferFacts
<1>5. val'[o.dst] = v /\ \A t \in Tensors \ {o.dst} : val'[t] = val[t]
  BY <1>3, <1>4 DEF Ownership, StoreTyped, EagerTypeOK
<1>6. /\ Spares(cmds, b)
      /\ \A i \in DOMAIN cmds : cmds[i].src = b => cmds[i].dst \in Threads /\ v \in read[cmds[i].dst]
  BY <1>2, <1>3 DEF Values, WritesClear, WriteClear, Spares
<1>7. /\ cmds \in Seq(Recorded) /\ params \in Seq(Contents) /\ SlotsIn(cmds, params)
      /\ mem \in Mems /\ inflight \in Seq(Submissions) /\ staged \in Seq(HostWrites)
  BY DEF Ownership, QueueTyped, StoreTyped, Mems
<1> DEFINE new == SettledBy(mem, inflight, staged', cmds, params)
<1>8. /\ new[b] = v
      /\ \A l \in Locations \ {b} :
           (\A i \in DOMAIN cmds : cmds[i].dst = l => cmds[i].src # b) => new[l] = Settled[l]
      /\ \A u \in Threads :
           /\ \A i \in DOMAIN cmds : cmds[i].dst = u => cmds[i].src = b
           /\ \E i \in DOMAIN cmds : cmds[i].dst = u
           => new[u] = v
  <2>1. /\ new = SettledBy(mem, inflight, Append(staged, Fill(b, v)), cmds, params)
        /\ Settled = SettledBy(mem, inflight, staged, cmds, params)
        /\ \A i \in DOMAIN cmds : cmds[i].src = b => cmds[i].dst \in Threads
    BY <1>1, <1>6, SettledParts
  <2> HIDE DEF b, new, o
  <2> QED  BY <1>3, <1>4, <1>6, <1>7, <2>1, StagedWrite
<1>9. \A l \in Elsewhere(th) : Settled'[l] = new[l]
  <2> DEFINE subs == Append(inflight, [writes |-> staged', params |-> params, cmds |-> cmds])
  <2>1. subs \in Seq(Submissions)
    <3>1. Fill(b, v) \in HostWrites
      BY <1>3, <1>4 DEF HostWrites
    <3>2. staged' \in Seq(HostWrites)
      BY <1>1, <1>7, <3>1
    <3> QED  BY <1>7, <3>2 DEF Submissions
  <2>2. new = RunAll(mem, subs)
    BY DEF SettledBy
  <2>3. Settled' = RunAll(mem', subs)
    BY <1>1, SettledParts DEF SettledBy
  <2>4. mem' \in Mems /\ SameOn(mem', mem, Elsewhere(th))
    BY <1>1, UnmapTyped DEF Ownership
  <2> HIDE DEF subs, new
  <2>5. SameOn(RunAll(mem', subs), RunAll(mem, subs), Elsewhere(th))
    BY <1>7, <2>1, <2>4, RunAllAgree
  <2> QED  BY <2>2, <2>3, <2>5 DEF SameOn
<1> HIDE DEF new, b
<1>10. \A i \in DOMAIN cmds : cmds[i].dst # th
  BY <1>2 DEF Values, CopiesOwn
<1>11. CopiesOwn'
  BY <1>1, <1>2, <1>10 DEF Values, CopiesOwn, OthersStay
<1>12. WritesClear'
  <2> SUFFICES ASSUME NEW u \in Threads, NEW i \in DOMAIN cmds, pc'[u] = "write"
               PROVE  WriteClear(u, cmds[i])'
    BY <1>1 DEF WritesClear
  <2>1. u # th /\ pc[u] = "write" /\ op'[u] = op[u] /\ read'[u] = read[u]
    BY <1>2, <1>3 DEF OthersStay
  <2>2. WriteClear(u, cmds[i])
    BY <2>1 DEF Values, WritesClear
  <2>3. cmds[i].dst \in Threads => read'[cmds[i].dst] = read[cmds[i].dst]
    BY <1>3, <1>10
  <2> QED  BY <1>1, <2>1, <2>2, <2>3 DEF WriteClear, Pending
<1>13. Settles'
  <2> SUFFICES ASSUME NEW t \in Tensors, Live(t)' PROVE Settled'[buffer[t]] = val'[t]
    BY <1>1 DEF Settles
  <2>1. CASE t = o.dst
    <3>1. buffer[t] = b /\ b \in Elsewhere(th)
      BY <1>4, <2>1 DEF b, Elsewhere
    <3> QED  BY <1>5, <1>8, <1>9, <2>1, <3>1
  <2>2. CASE t # o.dst
    <3>1. Live(t) /\ val'[t] = val[t]
      BY <1>5, <2>2 DEF Live
    <3>2. buffer[t] \in Buffers /\ buffer[t] # b /\ buffer[t] \notin Threads /\ buffer[t] \in Locations
      BY <1>4, <2>2, <3>1, BufferFacts DEF b
    <3>3. \A i \in DOMAIN cmds : cmds[i].dst = buffer[t] => cmds[i].src # b
      BY <1>6, <3>2
    <3>4. new[buffer[t]] = Settled[buffer[t]]
      BY <1>8, <3>2, <3>3
    <3>5. buffer[t] \in Elsewhere(th)
      BY <3>2 DEF Elsewhere
    <3> QED  BY <1>9, <3>1, <3>4, <3>5 DEF Values, Settles
  <2> QED  BY <2>1, <2>2
<1>14. ASSUME NEW u \in Threads \ {th} PROVE ReadDue(u)'
  <2>1. /\ pc'[u] = pc[u] /\ op'[u] = op[u] /\ read'[u] = read[u] /\ ahead'[u] = ahead[u]
        /\ ReadDue(u) /\ u \in Elsewhere(th) /\ u # b
    BY <1>1, <1>2, <1>3, <1>4, BufferFacts DEF OthersStay, Values, ReadsDue, Elsewhere
  <2>2. read[u] # {} => Settled'[u] \in read[u]
    <3>1. CASE \E i \in DOMAIN cmds : cmds[i].dst = u /\ cmds[i].src = b
      <4>1. \A i \in DOMAIN cmds : cmds[i].dst = u => cmds[i].src = b
        BY <3>1 DEF Values, CopiesOwn
      <4>2. new[u] = v /\ v \in read[u]
        BY <1>6, <1>8, <3>1, <4>1
      <4> QED  BY <1>9, <2>1, <4>2
    <3>2. CASE \A i \in DOMAIN cmds : cmds[i].dst = u => cmds[i].src # b
      <4>1. new[u] = Settled[u]
        BY <1>8, <2>1, <3>2 DEF Elsewhere
      <4> QED  BY <1>9, <2>1, <4>1 DEF ReadDue
    <3> QED  BY <3>1, <3>2
  <2> QED  BY <1>1, <2>1, <2>2 DEF ReadDue
<1>15. ReadDue(th)'
  BY <1>3 DEF ReadDue
<1> QED  BY <1>11, <1>12, <1>13, <1>14, <1>15 DEF Values, ReadsDue

-----------------------------------------------------------------------------
(* Every step keeps the contents.                                          *)

LEMMA InitValues == Init => Values
<1> SUFFICES ASSUME Init PROVE Values
  OBVIOUS
<1>1. /\ val = [t \in Tensors |-> None] /\ read = [th \in Threads |-> {}]
      /\ cmds = <<>> /\ pc = [th \in Threads |-> "idle"]
  BY DEF Init, EagerInit
<1>2. CopiesOwn /\ WritesClear
  BY <1>1 DEF CopiesOwn, WritesClear
<1>3. Settles /\ ReadsDue
  BY <1>1 DEF Settles, Live, ReadsDue, ReadDue
<1> QED  BY <1>2, <1>3 DEF Values

LEMMA StartValues ==
  ASSUME Ownership, Ownership', Values, NEW th \in Threads, Start(th)
  PROVE  Values'
<1>1. CASE Flush(th) \/ AsyncFlush(th)
  BY <1>1, FlushValues, AsyncFlushValues
<1>2. ASSUME NEW t \in Tensors, Read(th, t) \/ AsyncRead(th, t)
      PROVE  Values'
  BY <1>2, ReadValues, AsyncReadValues
<1>3. ASSUME NEW t \in Tensors, NEW b \in Buffers, AllocUninit(th, t, b)
      PROVE  Values'
  BY <1>3, AllocUninitValues
<1>4. ASSUME NEW t \in Tensors, NEW b \in Buffers, NEW v \in Inputs, FromVec(th, t, b, v)
      PROVE  Values'
  BY <1>4, FromVecValues, BatchAssumption
<1>5. ASSUME NEW t \in Tensors, NEW c \in KernelsOn[t], Dispatch(th, c) \/ DispatchFull(th, c)
      PROVE  Values'
  BY <1>5, KernelsTyped, DispatchValues, DispatchFullValues
<1>6. ASSUME NEW t \in Tensors, NEW c \in StepsOn[t],
             \/ CopyBuffer(th, t, c.cmd.src)
             \/ HostFill(th, t, c.cmd.val)
             \/ HostCopy(th, c.cmd)
      PROVE  Values'
  <2>1. /\ c.cmd \in StorageCommands
        /\ c.cmd.src \in Tensors /\ c.cmd.val \in Contents
    BY StepsOnTyped DEF StorageCommands
  <2> QED  BY <1>6, <2>1, CopyBufferValues, HostFillValues, HostCopyValues
<1> QED  BY <1>1, <1>2, <1>3, <1>4, <1>5, <1>6 DEF Start

LEMMA NextValues == Ownership /\ Ownership' /\ Values /\ [Next]_vars => Values'
<1> SUFFICES ASSUME Ownership, Ownership', Values, [Next]_vars PROVE Values'
  OBVIOUS
<1>1. CASE Execute
  BY <1>1, ExecuteValues
<1>2. ASSUME NEW t \in Tensors, DropStorage(t) PROVE Values'
  BY <1>2, DropStorageValues
<1>3. ASSUME NEW th \in Threads, Start(th) PROVE Values'
  BY <1>3, StartValues
<1>4. ASSUME NEW th \in Threads, Continue(th) PROVE Values'
  BY <1>4, WriteValues, SubmitPendingValues, CompleteValues, FlushedThenRecordValues,
     FlushedThenWriteValues, FlushedThenReturnValues DEF Continue
<1>5. ASSUME NEW th \in Threads, Abandon(th) PROVE Values'
  BY <1>5, AbandonValues
<1>6. CASE UNCHANGED vars
  <2>1. UNCHANGED <<val, read, mem, inflight, staged, cmds, params, buffer, pc, op, ahead>>
    BY <1>6 DEF vars, eager, batch, bufs
  <2>2. Settled' = Settled
    BY <2>1, SettledParts
  <2>3. CopiesOwn'
    BY <2>1 DEF Values, CopiesOwn
  <2>4. WritesClear'
    BY <2>1 DEF Values, WritesClear, WriteClear, Pending
  <2>5. Settles' /\ ReadsDue'
    BY <2>1, <2>2 DEF Values, Settles, Live, ReadsDue, ReadDue
  <2> QED  BY <2>3, <2>4, <2>5 DEF Values
<1> QED  BY <1>1, <1>2, <1>3, <1>4, <1>5, <1>6 DEF Next

(* The whole inductive invariant.                                          *)
THEOREM InvariantHolds == Spec => []IInv
<1>1. Init => IInv
  BY InitOwns, InitValues DEF IInv, Values
<1>2. IInv /\ [Next]_vars => IInv'
  BY NextOwns, NextValues DEF IInv, Values
<1> QED  BY <1>1, <1>2, PTL DEF Spec

(* Deferring changes nothing a caller can see: once everything recorded    *)
(* has run, each storage holds what eager execution gave it, and each      *)
(* readback returns what was there when it was asked for or what a write   *)
(* under way then was about to store: batches, staged writes, reuse of     *)
(* buffers and readbacks together (webgpu_backend/mod.rs).                 *)
THEOREM DeferredAsEager == Spec => []AsIfEager
<1>1. IInv => AsIfEager
  <2> SUFFICES ASSUME IInv PROVE AsIfEager
    OBVIOUS
  <2>1. Ownership /\ CopiesOwn /\ Settles /\ ReadsDue
    BY DEF IInv
  <2>2. \A t \in Tensors : Live(t) => Settled[buffer[t]] = val[t]
    BY <2>1 DEF Settles
  <2>3. ASSUME NEW th \in Threads, read[th] # {}
        PROVE  /\ Settled[th] \in read[th]
               /\ pc[th] # "submit" /\ ahead[th] = 0 => mem[th] \in read[th]
    BY <2>1, <2>3, Arrived DEF ReadsDue, ReadDue
  <2> HIDE DEF Settled
  <2> QED  BY <2>2, <2>3 DEF AsIfEager
<1> QED  BY <1>1, InvariantHolds, PTL
=============================================================================
