-------------------------- MODULE DeviceOpsProofs --------------------------
(***************************************************************************)
(* What the operations over host-visible memory keep (DeviceOps), whatever *)
(* the backend does with the commands they record.                         *)
(***************************************************************************)
EXTENDS DeviceOps, GpuCommandsProofs

Names == Tensors \cup Temps

-----------------------------------------------------------------------------
(* Sequences of steps                                                      *)

StepKinds ==
  {"alloc", "scratch", "dispatch", "record", "flush", "flushused", "host", "data", "defer"}
AllSteps == [do : StepKinds, cmd : CommandsOver(Names \cup {None})]

Uses(c) == {c.dst, c.src} \cup (IF c.op = "merge" THEN {c.aux} ELSE {})
Makes(st) == Records(st) \/ st.do = "host"

(* A step of an operation from s into d.                                   *)
IsStep(st, d, s) ==
  /\ Allocates(st) => \E x \in Temps, v \in Contents : st.cmd = Fill(x, v)
  /\ st.do = "defer" => \E x \in Temps : st.cmd = Fill(x, 0)
  /\ Makes(st) => st.cmd.dst \in ({d} \ {None}) \cup Temps
  /\ Makes(st) => Uses(st.cmd) \subseteq ({d, s} \ {None}) \cup Temps
  /\ Makes(st) /\ st.cmd.op = "merge" => st.cmd.aux \in Temps
  /\ st.do = "host" => st.cmd.dst = d /\ Uses(st.cmd) \cap Temps = {}
  /\ st.do = "data" => d = None /\ s # None

(* After this flush the host may do that.                                  *)
FlushesFor(f, h, s) ==
  \/ f.do = "flush"
  \/ f.do = "flushused" /\ h.do = "host" /\ Uses(h.cmd) = {f.cmd.dst}
  \/ f.do = "flushused" /\ h.do = "data" /\ f.cmd.dst = s

(* What one step says of a later one.                                      *)
Precedes(p, i, j, d, s) ==
  /\ Allocates(p[i]) /\ Allocates(p[j]) => p[i].cmd.dst # p[j].cmd.dst
  /\ p[i].do = "defer" => p[j].do = "defer" /\ p[i].cmd.dst # p[j].cmd.dst
  /\ Makes(p[i]) /\ p[i].cmd.dst = d => ~Allocates(p[j])
  /\ p[j].do \in {"host", "data"} => i + 1 = j /\ FlushesFor(p[i], p[j], s)

(* A name a step needs: an operand, or what it frees.                      *)
Needs(st, x) == (Makes(st) /\ x \in Uses(st.cmd)) \/ (st.do = "defer" /\ x = st.cmd.dst)

Allocated(p) == {p[i].cmd.dst : i \in Counted(p, {"alloc", "scratch"})}
Deferred(p)  == {p[i].cmd.dst : i \in Counted(p, {"defer"})}

(* The temporaries in H have buffers; every other is given one before it   *)
(* is used, and each is freed at the end.                                  *)
Supplied(p, H) ==
  /\ \A i \in DOMAIN p, x \in Temps :
       Needs(p[i], x) => x \in H \/ \E j \in DOMAIN p : j < i /\ Allocates(p[j]) /\ p[j].cmd.dst = x
  /\ Allocated(p) \cap H = {}
  /\ H \cup Allocated(p) \subseteq Deferred(p)

Fits(p, d, s, H) ==
  /\ p \in Seq(AllSteps)
  /\ \A i \in DOMAIN p : IsStep(p[i], d, s)
  /\ \A i, j \in DOMAIN p : i < j => Precedes(p, i, j, d, s)
  /\ Supplied(p, H)

(* What the steps leave in d does not depend on the temporaries.           *)
Pure(p, d, s) ==
  \A m \in [Names -> Contents], n \in [Names -> Contents] :
    SameOn(m, n, {d, s} \ {None}) => Run(m, p)[d] = Run(n, p)[d]

Program(p, d, s) ==
  /\ p # <<>> /\ d \in Tensors \cup {None} /\ s \in Tensors \cup {None}
  /\ d = s => d = None
  /\ Fits(p, d, s, {})
  /\ Head(p).do \notin {"host", "data"}
  /\ d # None => Pure(p, d, s)

-----------------------------------------------------------------------------
(* Ownership                                                               *)

(* The temporaries that have a buffer and are still to be freed.           *)
HeldIn(p, temps) == {x \in Deferred(p) : temps[x] # None}
Held(th) == HeldIn(todo[th], temp[th])

(* The buffers of storages and of temporaries.                             *)
Keys == Tensors \cup (Threads \X Temps)
Place ==
  [k \in Keys |-> IF k \in Tensors THEN buffer[k]
                  ELSE IF k[2] \in Held(k[1]) THEN temp[k[1]][k[2]] ELSE None]
Key(th, x) == IF x \in Temps THEN <<th, x>> ELSE x

Operations ==
  [dst : Tensors \cup {None}, src : Tensors \cup {None}, result : Contents]

EagerTyped ==
  val \in [Tensors -> Contents \cup {None}] /\ read \in [Threads -> SUBSET Contents]
DeviceTyped ==
  /\ mem \in [Buffers -> Contents] /\ cmds \in Seq(CommandsOver(Buffers))
  /\ free_bufs \subseteq Buffers /\ pool \subseteq Buffers
  /\ buffer \in [Tensors -> Buffers \cup {None}]
  /\ ctx \in Threads \cup {None} /\ profiled \in Profiling
CallsTyped ==
  /\ op \in [Threads -> Operations] /\ todo \in [Threads -> Seq(AllSteps)]
  /\ temp \in [Threads -> [Temps -> Buffers \cup {None}]]

Remains(th) ==
  IF todo[th] = <<>> THEN op[th] = NoOp /\ temp[th] = [x \in Temps |-> None]
  ELSE /\ op[th].dst # None => Live(op[th].dst)
       /\ op[th].src # None => Live(op[th].src)
       /\ op[th].dst = op[th].src => op[th].dst = None
       /\ Fits(todo[th], op[th].dst, op[th].src, Held(th))

Stored == \A t \in Tensors : Live(t) <=> buffer[t] # None
Locked ==
  \A th, u \in Threads :
    th # u /\ op[th].dst # None => op[u].dst # op[th].dst /\ op[u].src # op[th].dst
Owners ==
  /\ \A k, l \in Keys : Place[k] # None /\ Place[k] = Place[l] => k = l
  /\ \A k \in Keys : Place[k] \notin free_bufs \cup pool
  /\ free_bufs \cap pool = {}

Discipline ==
  /\ EagerTyped /\ DeviceTyped /\ CallsTyped
  /\ (\A th \in Threads : Remains(th)) /\ Stored /\ Locked /\ Owners

-----------------------------------------------------------------------------
(* Contents, where memory will hold m once what is recorded has run, and   *)
(* the steps in p are those of the operation not recorded yet.             *)

(* With the operands that have a place in m, at loc, holding what m does,  *)
(* and whatever is in the other names, the steps make r of d.              *)
Delivers(p, d, r, loc, m) ==
  \A n \in [Names -> Contents] :
    (\A x \in DOMAIN loc : n[x] = m[loc[x]]) => Run(n, p)[d] = r

Located(d, s, H, temps) ==
  [x \in ({d, s} \ {None}) \cup H |-> IF x \in Temps THEN temps[x] ELSE buffer[x]]

Due(th, p, m) ==
  op[th].dst # None =>
    Delivers(p, op[th].dst, op[th].result,
             Located(op[th].dst, op[th].src, Held(th), temp[th]), m)

(* While an allocation may still fail the output has its old contents.     *)
Intact(th, p, m) ==
  op[th].dst # None /\ Allocated(p) # {} => m[buffer[op[th].dst]] = val[op[th].dst]

Agreement(rest, m) ==
  /\ Settles(m)
  /\ \A th \in Threads : Due(th, rest[th], m) /\ Intact(th, rest[th], m)

(* Whoever is about to touch memory directly does not meet the commands in *)
(* cs, which have not run.                                                 *)
HostReady(th, cs) ==
  /\ Next1(th, "host") =>
       \A c \in cs :
         /\ buffer[op[th].dst] \notin Uses(c)
         /\ \A y \in Uses(Head(todo[th]).cmd) : c.dst # buffer[y]
  /\ Next1(th, "data") =>
       /\ mem[buffer[op[th].src]] = val[op[th].src]
       /\ \A c \in cs : c.dst # buffer[op[th].src]

Commands(cs) == {cs[i] : i \in DOMAIN cs}

-----------------------------------------------------------------------------
(* Names, steps and what they make of contents                             *)

LEMMA NameFacts ==
  /\ Temps \subseteq Names /\ Tensors \subseteq Names /\ None \notin Names
  /\ X \in Temps /\ Y \in Temps /\ X # Y /\ \A x \in Temps : x \notin Tensors
  /\ None \notin Tensors /\ None \notin Temps /\ None \notin Buffers /\ None \notin Contents
  /\ None \notin Threads /\ 0 \in Contents /\ 1 \in Contents /\ Inputs \subseteq Contents
BY DeviceAssumption, NValAssumption DEF Names, Temps, Contents

LEMMA KeyFacts ==
  ASSUME NEW th \in Threads
  PROVE  /\ \A x \in Names : Key(th, x) \in Keys
         /\ \A x \in Tensors : Key(th, x) = x /\ x \in Keys
         /\ \A x \in Temps : Key(th, x) = <<th, x>> /\ <<th, x>> \in Keys /\ <<th, x>> \notin Tensors
         /\ \A x, y \in Names : Key(th, x) = Key(th, y) => x = y
<1>1. \A x \in Temps : <<th, x>> \in Threads \X Temps /\ <<th, x>> \notin Tensors
  BY DeviceAssumption
<1>2. \A x \in Tensors : x \notin Temps
  BY NameFacts
<1>3. \A x \in Names : Key(th, x) = IF x \in Temps THEN <<th, x>> ELSE x
  BY DEF Key
<1>4. \A x \in Names : Key(th, x) \in Keys
  BY <1>1, <1>3 DEF Keys, Names
<1>5. \A x, y \in Names : Key(th, x) = Key(th, y) => x = y
  BY <1>1, <1>3 DEF Names
<1> QED  BY <1>1, <1>2, <1>4, <1>5 DEF Key, Keys

Sound(p) ==
  /\ p \in Seq(AllSteps)
  /\ \A i \in DOMAIN p : Makes(p[i]) \/ Allocates(p[i]) => p[i].cmd \in CommandsOver(Names)

LEMMA FillTyped == \A x \in Names, v \in Contents : Fill(x, v) \in CommandsOver(Names)
BY NameFacts DEF Fill, CommandsOver

LEMMA StepFacts ==
  ASSUME NEW d \in Tensors \cup {None}, NEW s \in Tensors \cup {None}, NEW st \in AllSteps,
         IsStep(st, d, s)
  PROVE  /\ Makes(st) \/ Allocates(st) => st.cmd \in CommandsOver(Names)
         /\ Makes(st) => Uses(st.cmd) \subseteq Names /\ st.cmd.dst \in Uses(st.cmd)
         /\ Allocates(st) => st.cmd.dst \in Temps /\ st.cmd.val \in Contents
                             /\ st.cmd = Fill(st.cmd.dst, st.cmd.val)
         /\ st.do = "defer" => st.cmd.dst \in Temps
<1>1. /\ st.cmd \in [op : {"fill", "accum", "copy", "merge"}, dst : Names \cup {None}, src : Names \cup {None},
                     aux : Names \cup {None} \cup {0}, val : Contents]
      /\ st.cmd.aux \in IF st.cmd.op = "merge" THEN Names \cup {None} ELSE {0}
  BY DEF AllSteps, CommandsOver
<1>2. ASSUME Makes(st)
      PROVE  Uses(st.cmd) \subseteq Names /\ st.cmd.dst \in Uses(st.cmd) /\ st.cmd \in CommandsOver(Names)
  <2>1. ({d, s} \ {None}) \cup Temps \subseteq Names
    BY NameFacts
  <2>2. Uses(st.cmd) \subseteq Names
    BY <1>2, <2>1 DEF IsStep
  <2>3. st.cmd.dst \in Names /\ st.cmd.src \in Names /\ (st.cmd.op = "merge" => st.cmd.aux \in Names)
    BY <2>2 DEF Uses
  <2>4. st.cmd.aux \in IF st.cmd.op = "merge" THEN Names ELSE {0}
    BY <1>1, <2>3
  <2>5. st.cmd \in [op : {"fill", "accum", "copy", "merge"}, dst : Names, src : Names,
                    aux : Names \cup {0}, val : Contents]
    BY <1>1, <2>3, <2>4
  <2> QED  BY <2>2, <2>4, <2>5 DEF Uses, CommandsOver
<1>3. ASSUME Allocates(st)
      PROVE  /\ st.cmd.dst \in Temps /\ st.cmd.val \in Contents /\ st.cmd = Fill(st.cmd.dst, st.cmd.val)
             /\ st.cmd \in CommandsOver(Names)
  <2>1. PICK x \in Temps, v \in Contents : st.cmd = Fill(x, v)
    BY <1>3 DEF IsStep
  <2>2. st.cmd.dst = x /\ st.cmd.val = v
    BY <2>1 DEF Fill
  <2> QED  BY <2>1, <2>2, FillTyped, NameFacts
<1>4. ASSUME st.do = "defer" PROVE st.cmd.dst \in Temps
  <2>1. PICK x \in Temps : st.cmd = Fill(x, 0)
    BY <1>4 DEF IsStep
  <2> QED  BY <2>1 DEF Fill
<1> QED  BY <1>2, <1>3, <1>4

LEMMA FitsSound ==
  ASSUME NEW d \in Tensors \cup {None}, NEW s \in Tensors \cup {None}, NEW p, NEW H, Fits(p, d, s, H)
  PROVE  Sound(p)
<1>1. p \in Seq(AllSteps) /\ \A i \in DOMAIN p : IsStep(p[i], d, s) /\ p[i] \in AllSteps
  BY DEF Fits
<1> QED  BY <1>1, StepFacts DEF Sound

(* f is the contents after each of the first n steps.                      *)
StepTrace(m, p, n, f) ==
  f = [i \in 0 .. n |-> IF i = 0 THEN m ELSE Effect(f[i - 1], p[i])]

LEMMA StepTraceExists ==
  ASSUME NEW m, NEW p, NEW n \in Nat
  PROVE  \E f : StepTrace(m, p, n, f)
<1> DEFINE S == {k \in Nat : \E f : StepTrace(m, p, k, f)}
<1>1. 0 \in S
  <2>1. StepTrace(m, p, 0, [i \in 0 .. 0 |-> m])
    BY DEF StepTrace
  <2> QED  BY <2>1
<1>2. ASSUME NEW k \in Nat, k \in S PROVE k + 1 \in S
  <2>1. PICK f : StepTrace(m, p, k, f)
    BY <1>2
  <2> DEFINE g == [i \in 0 .. k + 1 |-> IF i = k + 1 THEN Effect(f[k], p[k + 1]) ELSE f[i]]
  <2>2. \A i \in 0 .. k : f[i] = IF i = 0 THEN m ELSE Effect(f[i - 1], p[i])
    BY <2>1 DEF StepTrace
  <2>3. \A i \in 0 .. k + 1 : g[i] = IF i = 0 THEN m ELSE Effect(g[i - 1], p[i])
    BY <2>2
  <2>4. StepTrace(m, p, k + 1, g)
    BY <2>3 DEF StepTrace
  <2> QED  BY <2>4
<1> HIDE DEF S
<1>3. Nat \subseteq S
  BY <1>1, <1>2, Induction
<1> QED  BY <1>3 DEF S

LEMMA RunTrace ==
  ASSUME NEW m, NEW p, Len(p) \in Nat
  PROVE  \E f : StepTrace(m, p, Len(p), f) /\ Run(m, p) = f[Len(p)]
<1> DEFINE F == CHOOSE f : StepTrace(m, p, Len(p), f)
<1>1. StepTrace(m, p, Len(p), F)
  BY StepTraceExists
<1>2. Run(m, p) = F[Len(p)]
  BY DEF Run, StepTrace
<1> QED  BY <1>1, <1>2

LEMMA RunEmpty == ASSUME NEW m PROVE Run(m, <<>>) = m
<1>1. Len(<<>>) = 0
  OBVIOUS
<1>2. PICK f : StepTrace(m, <<>>, 0, f) /\ Run(m, <<>>) = f[0]
  BY <1>1, RunTrace
<1> QED  BY <1>2 DEF StepTrace

LEMMA TailFacts ==
  ASSUME NEW C, NEW p \in Seq(C), p # <<>>
  PROVE  /\ Head(p) \in C /\ Head(p) = p[1] /\ Tail(p) \in Seq(C) /\ 1 \in DOMAIN p
         /\ Len(p) \in Nat /\ Len(Tail(p)) \in Nat /\ Len(p) = Len(Tail(p)) + 1
         /\ DOMAIN p = 1 .. Len(p) /\ DOMAIN Tail(p) = 1 .. Len(Tail(p))
         /\ \A i \in DOMAIN Tail(p) : i \in Nat /\ i + 1 \in DOMAIN p /\ i + 1 # 1 /\ Tail(p)[i] = p[i + 1]
         /\ \A i \in DOMAIN p : i # 1 => i - 1 \in DOMAIN Tail(p) /\ Tail(p)[i - 1] = p[i]
         /\ Tail(p) # p
<1>1. Len(Tail(p)) # Len(p)
  OBVIOUS
<1> QED  BY <1>1

(* The first step, then the others.                                        *)
LEMMA RunHead ==
  ASSUME NEW m, NEW C, NEW p \in Seq(C), p # <<>>
  PROVE  Run(m, p) = Run(Effect(m, Head(p)), Tail(p))
<1> DEFINE q == Tail(p)
           n == Len(q)
           e == Effect(m, Head(p))
<1>1. /\ n \in Nat /\ n + 1 \in Nat /\ Len(p) = n + 1 /\ Head(p) = p[1] /\ n = Len(q)
      /\ \A i \in 1 .. n : q[i] = p[i + 1]
  BY TailFacts
<1>2. PICK f : StepTrace(m, p, n + 1, f) /\ Run(m, p) = f[n + 1]
  BY <1>1, RunTrace
<1>3. PICK g : StepTrace(e, q, n, g) /\ Run(e, q) = g[n]
  BY <1>1, RunTrace
<1>e. e = Effect(m, p[1])
  BY <1>1
<1> HIDE DEF n, q, e
<1>4. /\ \A i \in 0 .. n + 1 : f[i] = IF i = 0 THEN m ELSE Effect(f[i - 1], p[i])
      /\ \A i \in 0 .. n : g[i] = IF i = 0 THEN e ELSE Effect(g[i - 1], q[i])
  BY <1>2, <1>3 DEF StepTrace
<1> DEFINE S == {i \in Nat : i <= n => g[i] = f[i + 1]}
<1>5. 0 \in S
  <2>1. 0 \in 0 .. n + 1 /\ 1 \in 0 .. n + 1 /\ 0 \in 0 .. n
    BY <1>1
  <2>2. f[1] = Effect(f[1 - 1], p[1]) /\ f[0] = m /\ g[0] = e
    BY <1>4, <2>1
  <2> QED  BY <1>e, <2>2
<1>6. ASSUME NEW i \in Nat, i \in S PROVE i + 1 \in S
  <2> SUFFICES ASSUME i + 1 <= n PROVE g[i + 1] = f[i + 1 + 1]
    OBVIOUS
  <2>1. /\ i + 1 \in 1 .. n /\ i + 1 \in 0 .. n /\ i + 1 + 1 \in 0 .. n + 1 /\ i + 1 # 0 /\ i + 1 + 1 # 0
        /\ i + 1 - 1 = i /\ i + 1 + 1 - 1 = i + 1 /\ i <= n
    BY <1>1
  <2>2. g[i] = f[i + 1]
    BY <1>6, <2>1
  <2>3. g[i + 1] = Effect(g[i], q[i + 1]) /\ f[i + 1 + 1] = Effect(f[i + 1], p[i + 1 + 1])
    BY <1>4, <2>1
  <2> QED  BY <1>1, <2>1, <2>2, <2>3
<1> HIDE DEF S
<1>7. Nat \subseteq S
  BY <1>5, <1>6, Induction
<1>8. g[n] = f[n + 1]
  BY <1>1, <1>7 DEF S
<1> QED  BY <1>2, <1>3, <1>8 DEF q, e

LEMMA EffectType ==
  ASSUME NEW m \in [Names -> Contents], NEW st \in AllSteps,
         Makes(st) \/ Allocates(st) => st.cmd \in CommandsOver(Names)
  PROVE  Effect(m, st) \in [Names -> Contents]
<1>1. CASE Records(st) \/ st.do \in {"host", "scratch"}
  <2>1. st.cmd \in CommandsOver(Names)
    BY <1>1 DEF Makes, Allocates
  <2> QED  BY <1>1, <2>1, ExecType DEF Effect
<1>2. CASE ~(Records(st) \/ st.do \in {"host", "scratch"})
  BY <1>2 DEF Effect
<1> QED  BY <1>1, <1>2

LEMMA SoundTail ==
  ASSUME NEW p, Sound(p), p # <<>>
  PROVE  /\ Sound(Tail(p)) /\ Head(p) \in AllSteps
         /\ Makes(Head(p)) \/ Allocates(Head(p)) => Head(p).cmd \in CommandsOver(Names)
<1>1. p \in Seq(AllSteps)
  BY DEF Sound
<1> QED  BY <1>1, TailFacts DEF Sound

(* A property of lists that passes from a tail to the whole is one of all. *)
LEMMA ListInduction ==
  ASSUME NEW C, NEW G, <<>> \in G,
         \A p \in Seq(C) : p # <<>> /\ Tail(p) \in G => p \in G
  PROVE  Seq(C) \subseteq G
<1> DEFINE S == {n \in Nat : \A p \in Seq(C) : Len(p) = n => p \in G}
<1>1. 0 \in S
  BY EmptySeq
<1>2. ASSUME NEW n \in Nat, n \in S PROVE n + 1 \in S
  <2> SUFFICES ASSUME NEW p \in Seq(C), Len(p) = n + 1 PROVE p \in G
    OBVIOUS
  <2>1. p # <<>>
    OBVIOUS
  <2>2. Tail(p) \in Seq(C) /\ Len(Tail(p)) = n
    BY <2>1, TailFacts
  <2>3. Tail(p) \in G
    BY <1>2, <2>2
  <2> QED  BY <2>1, <2>3
<1> HIDE DEF S
<1>3. Nat \subseteq S
  BY <1>1, <1>2, Induction
<1> SUFFICES ASSUME NEW p \in Seq(C) PROVE p \in G
  OBVIOUS
<1>4. Len(p) \in S
  BY <1>3
<1> QED  BY <1>4 DEF S

LEMMA RunType ==
  ASSUME NEW m \in [Names -> Contents], NEW p, Sound(p)
  PROVE  Run(m, p) \in [Names -> Contents]
<1> DEFINE G == {q \in Seq(AllSteps) : Sound(q) => \A n \in [Names -> Contents] : Run(n, q) \in [Names -> Contents]}
<1>1. <<>> \in G
  BY RunEmpty, EmptySeq
<1>2. ASSUME NEW q \in Seq(AllSteps), q # <<>>, Tail(q) \in G PROVE q \in G
  <2> SUFFICES ASSUME Sound(q), NEW n \in [Names -> Contents] PROVE Run(n, q) \in [Names -> Contents]
    OBVIOUS
  <2>1. Sound(Tail(q)) /\ Effect(n, Head(q)) \in [Names -> Contents]
    BY <1>2, SoundTail, EffectType
  <2>2. Run(n, q) = Run(Effect(n, Head(q)), Tail(q))
    BY <1>2, RunHead
  <2> QED  BY <1>2, <2>1, <2>2
<1> HIDE DEF G
<1>3. Seq(AllSteps) \subseteq G
  BY <1>1, <1>2, ListInduction
<1> QED  BY <1>3 DEF G, Sound

LEMMA RunDefers ==
  ASSUME NEW m, NEW p \in Seq(AllSteps), \A i \in DOMAIN p : p[i].do = "defer"
  PROVE  Run(m, p) = m
<1> DEFINE G == {q \in Seq(AllSteps) : (\A i \in DOMAIN q : q[i].do = "defer") => Run(m, q) = m}
<1>1. <<>> \in G
  BY RunEmpty, EmptySeq
<1>2. ASSUME NEW q \in Seq(AllSteps), q # <<>>, Tail(q) \in G PROVE q \in G
  <2> SUFFICES ASSUME \A i \in DOMAIN q : q[i].do = "defer" PROVE Run(m, q) = m
    OBVIOUS
  <2>1. /\ Head(q).do = "defer"
        /\ \A i \in DOMAIN Tail(q) : Tail(q)[i].do = "defer"
    BY <1>2, TailFacts
  <2>2. Run(m, q) = Run(Effect(m, Head(q)), Tail(q))
    BY <1>2, RunHead
  <2>3. Effect(m, Head(q)) = m
    BY <2>1 DEF Effect, Records
  <2> QED  BY <1>2, <2>1, <2>2, <2>3
<1> HIDE DEF G
<1>3. Seq(AllSteps) \subseteq G
  BY <1>1, <1>2, ListInduction
<1> QED  BY <1>3 DEF G

-----------------------------------------------------------------------------
(* What remains of an operation after a step                               *)

LEMMA KindFacts ==
  \A st : /\ Allocates(st) => ~Makes(st) /\ st.do \notin {"defer", "flush", "flushused", "host", "data"} /\ ~Records(st)
          /\ Makes(st) => st.do \notin {"defer", "flush", "flushused", "data"}
          /\ Records(st) => Makes(st) /\ st.do \notin {"defer", "flush", "flushused", "data", "host"}
          /\ st.do = "host" => Makes(st) /\ ~Records(st)
          /\ st.do = "defer" => ~Makes(st) /\ ~Allocates(st) /\ ~Records(st)
BY DEF Allocates, Makes, Records

LEMMA CountedFacts ==
  \A p : /\ Counted(p, {"alloc", "scratch"}) = {i \in DOMAIN p : Allocates(p[i])}
         /\ Counted(p, {"defer"}) = {i \in DOMAIN p : p[i].do = "defer"}
         /\ Allocated(p) = {p[i].cmd.dst : i \in {j \in DOMAIN p : Allocates(p[j])}}
         /\ Deferred(p) = {p[i].cmd.dst : i \in {j \in DOMAIN p : p[j].do = "defer"}}
BY DEF Counted, Allocates, Allocated, Deferred

LEMMA CountedEmpty == Allocated(<<>>) = {} /\ Deferred(<<>>) = {}
<1>1. DOMAIN <<>> = {}
  OBVIOUS
<1> QED  BY <1>1, CountedFacts

(* Allocated and Deferred by cases on the first step.                      *)
LEMMA CountedTail ==
  ASSUME NEW p \in Seq(AllSteps), p # <<>>
  PROVE  /\ Allocated(p) = Allocated(Tail(p)) \cup (IF Allocates(Head(p)) THEN {Head(p).cmd.dst} ELSE {})
         /\ Deferred(p) = Deferred(Tail(p)) \cup (IF Head(p).do = "defer" THEN {Head(p).cmd.dst} ELSE {})
<1> DEFINE q == Tail(p)
<1>1. /\ 1 \in DOMAIN p /\ p[1] = Head(p)
      /\ \A i \in DOMAIN q : i + 1 \in DOMAIN p /\ q[i] = p[i + 1]
      /\ \A i \in DOMAIN p : i = 1 \/ \E j \in DOMAIN q : q[j] = p[i]
  BY TailFacts
<1> HIDE DEF q
<1>2. \A x : x \in Allocated(p) <=> x \in Allocated(q) \/ (Allocates(Head(p)) /\ x = Head(p).cmd.dst)
  BY <1>1, CountedFacts
<1>3. \A x : x \in Deferred(p) <=> x \in Deferred(q) \/ (Head(p).do = "defer" /\ x = Head(p).cmd.dst)
  BY <1>1, CountedFacts
<1> QED  BY <1>2, <1>3 DEF q

(* The later steps, and what the first says of them.                       *)
LEMMA FitsParts ==
  ASSUME NEW d, NEW s, NEW H, NEW p, Fits(p, d, s, H), p # <<>>
  PROVE  /\ p \in Seq(AllSteps) /\ Tail(p) \in Seq(AllSteps)
         /\ Head(p) \in AllSteps /\ IsStep(Head(p), d, s)
         /\ \A i \in DOMAIN Tail(p) : IsStep(Tail(p)[i], d, s)
         /\ \A i, j \in DOMAIN Tail(p) : i < j => Precedes(Tail(p), i, j, d, s)
         /\ \A j \in DOMAIN Tail(p) :
              /\ Allocates(Head(p)) /\ Allocates(Tail(p)[j]) => Head(p).cmd.dst # Tail(p)[j].cmd.dst
              /\ Head(p).do = "defer" => Tail(p)[j].do = "defer" /\ Head(p).cmd.dst # Tail(p)[j].cmd.dst
              /\ Makes(Head(p)) /\ Head(p).cmd.dst = d => ~Allocates(Tail(p)[j])
              /\ Tail(p)[j].do \in {"host", "data"} => j = 1 /\ FlushesFor(Head(p), Tail(p)[j], s)
<1> DEFINE q == Tail(p)
<1>1. p \in Seq(AllSteps) /\ (\A i \in DOMAIN p : IsStep(p[i], d, s))
      /\ \A i, j \in DOMAIN p : i < j => Precedes(p, i, j, d, s)
  BY DEF Fits
<1>2. /\ 1 \in DOMAIN p /\ p[1] = Head(p) /\ Head(p) \in AllSteps /\ q \in Seq(AllSteps)
      /\ DOMAIN q = 1 .. Len(q) /\ Len(q) \in Nat
      /\ \A i \in DOMAIN q : i \in Nat /\ i + 1 \in DOMAIN p /\ q[i] = p[i + 1]
  BY <1>1, TailFacts
<1> HIDE DEF q
<1>3. ASSUME NEW i \in DOMAIN q, NEW j \in DOMAIN q, i < j PROVE Precedes(q, i, j, d, s)
  <2>1. i + 1 < j + 1 /\ i + 1 \in DOMAIN p /\ j + 1 \in DOMAIN p /\ (i + 1 + 1 = j + 1 => i + 1 = j)
    BY <1>2, <1>3
  <2>2. Precedes(p, i + 1, j + 1, d, s)
    BY <1>1, <2>1
  <2> QED  BY <1>2, <2>1, <2>2 DEF Precedes
<1>4. ASSUME NEW j \in DOMAIN q
      PROVE  /\ Allocates(p[1]) /\ Allocates(q[j]) => p[1].cmd.dst # q[j].cmd.dst
             /\ p[1].do = "defer" => q[j].do = "defer" /\ p[1].cmd.dst # q[j].cmd.dst
             /\ Makes(p[1]) /\ p[1].cmd.dst = d => ~Allocates(q[j])
             /\ q[j].do \in {"host", "data"} => j = 1 /\ FlushesFor(p[1], q[j], s)
  <2>1. 1 < j + 1 /\ j + 1 \in DOMAIN p /\ (1 + 1 = j + 1 => j = 1)
    BY <1>2
  <2>2. Precedes(p, 1, j + 1, d, s)
    BY <1>1, <1>2, <2>1
  <2> QED  BY <1>2, <2>1, <2>2 DEF Precedes
<1> QED  BY <1>1, <1>2, <1>3, <1>4 DEF q

(* What the temporaries with buffers are once the first step is done.      *)
HeldAfter(st, H) ==
  IF Allocates(st) THEN H \cup {st.cmd.dst} ELSE IF st.do = "defer" THEN H \ {st.cmd.dst} ELSE H

LEMMA FitsTail ==
  ASSUME NEW d \in Tensors \cup {None}, NEW s \in Tensors \cup {None}, NEW H, NEW p,
         Fits(p, d, s, H), p # <<>>
  PROVE  /\ Fits(Tail(p), d, s, HeldAfter(Head(p), H))
         /\ Allocates(Head(p)) => Head(p).cmd.dst \in Deferred(Tail(p)) \ H
         /\ Head(p).do = "defer" => Head(p).cmd.dst \in H \ Deferred(Tail(p))
         /\ Makes(Head(p)) => Uses(Head(p).cmd) \cap Temps \subseteq H
         /\ Head(p).do # "defer" => Deferred(Tail(p)) = Deferred(p)
         /\ H \subseteq Deferred(p)
<1> DEFINE q == Tail(p)
           h == Head(p)
           K == HeldAfter(h, H)
<1>1. /\ p \in Seq(AllSteps) /\ q \in Seq(AllSteps) /\ h \in AllSteps /\ IsStep(h, d, s)
      /\ \A i \in DOMAIN q : IsStep(q[i], d, s)
      /\ \A i, j \in DOMAIN q : i < j => Precedes(q, i, j, d, s)
      /\ \A j \in DOMAIN q :
           /\ Allocates(h) /\ Allocates(q[j]) => h.cmd.dst # q[j].cmd.dst
           /\ h.do = "defer" => q[j].do = "defer" /\ h.cmd.dst # q[j].cmd.dst
  BY FitsParts
<1>2. /\ Allocated(p) = Allocated(q) \cup (IF Allocates(h) THEN {h.cmd.dst} ELSE {})
      /\ Deferred(p) = Deferred(q) \cup (IF h.do = "defer" THEN {h.cmd.dst} ELSE {})
  BY <1>1, CountedTail
<1>3. /\ \A i \in DOMAIN p, x \in Temps :
            Needs(p[i], x) => x \in H \/ \E j \in DOMAIN p : j < i /\ Allocates(p[j]) /\ p[j].cmd.dst = x
      /\ Allocated(p) \cap H = {} /\ H \cup Allocated(p) \subseteq Deferred(p)
  BY DEF Fits, Supplied
<1>4. /\ 1 \in DOMAIN p /\ p[1] = h /\ DOMAIN p = 1 .. Len(p) /\ Len(p) \in Nat
      /\ \A i \in DOMAIN q : i \in Nat /\ i + 1 \in DOMAIN p /\ q[i] = p[i + 1]
      /\ \A i \in DOMAIN p : i # 1 => i - 1 \in DOMAIN q /\ q[i - 1] = p[i]
  BY <1>1, TailFacts
<1>5. /\ Allocates(h) => h.cmd.dst \in Temps
      /\ h.do = "defer" => h.cmd.dst \in Temps
  BY <1>1, StepFacts
<1>6. /\ Allocates(h) => ~Makes(h) /\ h.do # "defer"
      /\ h.do = "defer" => ~Makes(h) /\ ~Allocates(h)
  BY KindFacts
<1>k. K = IF Allocates(h) THEN H \cup {h.cmd.dst} ELSE IF h.do = "defer" THEN H \ {h.cmd.dst} ELSE H
  BY DEF HeldAfter
<1> HIDE DEF q, h, K
<1>7. ASSUME NEW x \in Temps, Needs(h, x) PROVE x \in H
  <2>1. x \in H \/ \E j \in DOMAIN p : j < 1 /\ Allocates(p[j]) /\ p[j].cmd.dst = x
    BY <1>3, <1>4, <1>7
  <2> QED  BY <1>4, <2>1
<1>8. ASSUME Allocates(h) PROVE h.cmd.dst \in Deferred(q) /\ h.cmd.dst \notin H
  BY <1>2, <1>3, <1>6, <1>8
<1>9. ASSUME h.do = "defer"
      PROVE  /\ h.cmd.dst \in H /\ h.cmd.dst \notin Deferred(q) /\ Allocated(q) = {}
             /\ \A i \in DOMAIN q : q[i].do = "defer" /\ q[i].cmd.dst # h.cmd.dst /\ ~Allocates(q[i])
  <2>1. h.cmd.dst \in H
    BY <1>5, <1>7, <1>9 DEF Needs
  <2>2. \A i \in DOMAIN q : q[i].do = "defer" /\ q[i].cmd.dst # h.cmd.dst /\ ~Allocates(q[i])
    BY <1>1, <1>9, KindFacts
  <2> QED  BY <2>1, <2>2, CountedFacts
<1>10. ASSUME NEW i \in DOMAIN q, NEW x \in Temps, Needs(q[i], x)
       PROVE  x \in K \/ \E j \in DOMAIN q : j < i /\ Allocates(q[j]) /\ q[j].cmd.dst = x
  <2>1. i + 1 \in DOMAIN p /\ q[i] = p[i + 1] /\ i \in Nat
    BY <1>4
  <2>2. x \in H \/ \E j \in DOMAIN p : j < i + 1 /\ Allocates(p[j]) /\ p[j].cmd.dst = x
    BY <1>3, <1>10, <2>1
  <2>3. CASE h.do = "defer"
    <3>1. x # h.cmd.dst
      BY <1>9, <1>10, <2>3, KindFacts DEF Needs
    <3>2. \A j \in DOMAIN p : ~Allocates(p[j])
      BY <1>4, <1>6, <1>9, <2>3
    <3> QED  BY <1>6, <1>k, <2>2, <2>3, <3>1, <3>2
  <2>4. CASE h.do # "defer"
    <3>1. H \subseteq K
      BY <1>k, <2>4
    <3>2. ASSUME NEW j \in DOMAIN p, j < i + 1, Allocates(p[j]), p[j].cmd.dst = x, x \notin H
          PROVE  x \in K \/ \E l \in DOMAIN q : l < i /\ Allocates(q[l]) /\ q[l].cmd.dst = x
      <4>1. CASE j = 1
        BY <1>4, <1>k, <3>2, <4>1
      <4>2. CASE j # 1
        <5>1. j - 1 \in DOMAIN q /\ q[j - 1] = p[j] /\ j - 1 < i
          BY <1>4, <2>1, <3>2, <4>2
        <5> QED  BY <3>2, <5>1
      <4> QED  BY <4>1, <4>2
    <3> QED  BY <2>2, <3>1, <3>2
  <2> QED  BY <2>3, <2>4
<1>11. Allocated(q) \cap K = {}
  <2>1. Allocated(q) \cap H = {}
    BY <1>2, <1>3
  <2>2. ASSUME Allocates(h) PROVE h.cmd.dst \notin Allocated(q)
    BY <1>1, <2>2, CountedFacts
  <2> QED  BY <1>k, <2>1, <2>2
<1>12. K \cup Allocated(q) \subseteq Deferred(q)
  <2>1. CASE Allocates(h)
    BY <1>2, <1>3, <1>6, <1>8, <1>k, <2>1
  <2>2. CASE h.do = "defer"
    BY <1>2, <1>3, <1>6, <1>9, <1>k, <2>2
  <2>3. CASE ~Allocates(h) /\ h.do # "defer"
    BY <1>2, <1>3, <1>k, <2>3
  <2> QED  BY <2>1, <2>2, <2>3
<1>13. Fits(q, d, s, K)
  BY <1>1, <1>10, <1>11, <1>12 DEF Fits, Supplied
<1>14. Makes(h) => Uses(h.cmd) \cap Temps \subseteq H
  BY <1>7 DEF Needs
<1>15. H \subseteq Deferred(p)
  BY <1>3
<1>16. h.do # "defer" => Deferred(q) = Deferred(p)
  BY <1>2
<1> QED  BY <1>8, <1>9, <1>13, <1>14, <1>15, <1>16 DEF q, h, K

(* Where a host access cannot come next.                                   *)
LEMMA HostAfterFlush ==
  ASSUME NEW d, NEW s, NEW H, NEW p, Fits(p, d, s, H), p # <<>>, Tail(p) # <<>>,
         Head(Tail(p)).do \in {"host", "data"}
  PROVE  FlushesFor(Head(p), Head(Tail(p)), s)
<1>1. Tail(p) \in Seq(AllSteps)
  BY FitsParts
<1>2. 1 \in DOMAIN Tail(p) /\ Tail(p)[1] = Head(Tail(p))
  BY <1>1, TailFacts
<1>3. \A j \in DOMAIN Tail(p) :
        Tail(p)[j].do \in {"host", "data"} => FlushesFor(Head(p), Tail(p)[j], s)
  BY FitsParts
<1> QED  BY <1>2, <1>3

-----------------------------------------------------------------------------
(* An operation that gives up                                              *)

(* f is the frees among the first n steps.                                 *)
KeptTrace(p, T, n, f) ==
  f = [i \in 0 .. n |->
         IF i = 0 THEN <<>>
         ELSE IF p[i].do = "defer" /\ T[p[i].cmd.dst] # None THEN Append(f[i - 1], p[i]) ELSE f[i - 1]]

LEMMA KeptTraceExists ==
  ASSUME NEW p, NEW T, NEW n \in Nat
  PROVE  \E f : KeptTrace(p, T, n, f)
<1> DEFINE S == {k \in Nat : \E f : KeptTrace(p, T, k, f)}
           Next(m, i) == IF p[i].do = "defer" /\ T[p[i].cmd.dst] # None THEN Append(m, p[i]) ELSE m
<1>1. 0 \in S
  <2>1. KeptTrace(p, T, 0, [i \in 0 .. 0 |-> <<>>])
    BY DEF KeptTrace
  <2> QED  BY <2>1
<1>2. ASSUME NEW k \in Nat, k \in S PROVE k + 1 \in S
  <2>1. PICK f : KeptTrace(p, T, k, f)
    BY <1>2
  <2> DEFINE g == [i \in 0 .. k + 1 |-> IF i = k + 1 THEN Next(f[k], k + 1) ELSE f[i]]
  <2>2. \A i \in 0 .. k : f[i] = IF i = 0 THEN <<>> ELSE Next(f[i - 1], i)
    BY <2>1 DEF KeptTrace
  <2> HIDE DEF Next
  <2>3. \A i \in 0 .. k + 1 : g[i] = IF i = 0 THEN <<>> ELSE Next(g[i - 1], i)
    BY <2>2
  <2>4. g = [i \in 0 .. k + 1 |-> IF i = 0 THEN <<>> ELSE Next(g[i - 1], i)]
    BY <2>3
  <2>5. KeptTrace(p, T, k + 1, g)
    BY <2>4 DEF KeptTrace, Next
  <2> QED  BY <2>5
<1> HIDE DEF S
<1>3. Nat \subseteq S
  BY <1>1, <1>2, Induction
<1> QED  BY <1>3 DEF S

LEMMA KeptFacts ==
  ASSUME NEW p, NEW T, Len(p) \in Nat
  PROVE  \E f : KeptTrace(p, T, Len(p), f) /\ DefersKept(p, T) = f[Len(p)]
<1> DEFINE F == CHOOSE f : KeptTrace(p, T, Len(p), f)
<1>1. KeptTrace(p, T, Len(p), F)
  BY KeptTraceExists
<1>2. DefersKept(p, T) = F[Len(p)]
  BY DEF DefersKept, KeptTrace
<1> QED  BY <1>1, <1>2

(* q is the frees among the first n steps, in order and once each.         *)
KeptOf(p, T, n, q) ==
  /\ q \in Seq(AllSteps)
  /\ \A a \in DOMAIN q : \E j \in 1 .. n :
       q[a] = p[j] /\ p[j].do = "defer" /\ T[p[j].cmd.dst] # None
  /\ \A a, b \in DOMAIN q : a < b => q[a].cmd.dst # q[b].cmd.dst
  /\ \A j \in 1 .. n : p[j].do = "defer" /\ T[p[j].cmd.dst] # None => \E a \in DOMAIN q : q[a] = p[j]

LEMMA KeptAppend ==
  ASSUME NEW p \in Seq(AllSteps), NEW T, NEW n \in Nat, n + 1 \in DOMAIN p, NEW q, KeptOf(p, T, n, q),
         \A i, j \in DOMAIN p : i < j /\ p[i].do = "defer" => p[i].cmd.dst # p[j].cmd.dst
  PROVE  /\ p[n + 1].do = "defer" /\ T[p[n + 1].cmd.dst] # None => KeptOf(p, T, n + 1, Append(q, p[n + 1]))
         /\ ~(p[n + 1].do = "defer" /\ T[p[n + 1].cmd.dst] # None) => KeptOf(p, T, n + 1, q)
<1> DEFINE st == p[n + 1]
           r == Append(q, st)
<1>1. /\ DOMAIN p = 1 .. Len(p) /\ Len(p) \in Nat /\ st \in AllSteps
      /\ 1 .. n \subseteq DOMAIN p /\ n + 1 \in 1 .. n + 1
      /\ \A j \in 1 .. n : j \in 1 .. n + 1 /\ j < n + 1
      /\ \A j \in 1 .. n + 1 : j \in 1 .. n \/ j = n + 1
  OBVIOUS
<1>2. /\ q \in Seq(AllSteps)
      /\ \A a \in DOMAIN q : \E j \in 1 .. n :
           q[a] = p[j] /\ p[j].do = "defer" /\ T[p[j].cmd.dst] # None
      /\ \A a, b \in DOMAIN q : a < b => q[a].cmd.dst # q[b].cmd.dst
      /\ \A j \in 1 .. n : p[j].do = "defer" /\ T[p[j].cmd.dst] # None => \E a \in DOMAIN q : q[a] = p[j]
  BY DEF KeptOf
<1>3. /\ r \in Seq(AllSteps) /\ DOMAIN q = 1 .. Len(q) /\ Len(q) \in Nat
      /\ \A a \in DOMAIN q : a \in DOMAIN r /\ r[a] = q[a]
      /\ Len(q) + 1 \in DOMAIN r /\ r[Len(q) + 1] = st
      /\ \A a \in DOMAIN r : a \in DOMAIN q \/ a = Len(q) + 1
      /\ \A a, b \in DOMAIN r : a < b => a \in DOMAIN q
  BY <1>1, <1>2
<1> HIDE DEF st, r
<1>4. ASSUME st.do = "defer", T[st.cmd.dst] # None PROVE KeptOf(p, T, n + 1, r)
  <2>1. \A a \in DOMAIN r : \E j \in 1 .. n + 1 : r[a] = p[j] /\ p[j].do = "defer" /\ T[p[j].cmd.dst] # None
    BY <1>1, <1>2, <1>3, <1>4 DEF st
  <2>2. \A a \in DOMAIN q : q[a].cmd.dst # st.cmd.dst
    BY <1>1, <1>2 DEF st
  <2>3. ASSUME NEW a \in DOMAIN r, NEW b \in DOMAIN r, a < b PROVE r[a].cmd.dst # r[b].cmd.dst
    <3>1. a \in DOMAIN q /\ r[a] = q[a]
      BY <1>3, <2>3
    <3>2. CASE b \in DOMAIN q
      <4>1. r[b] = q[b]
        BY <1>3, <3>2
      <4>2. q[a].cmd.dst # q[b].cmd.dst
        BY <1>2, <2>3, <3>1, <3>2
      <4> QED  BY <3>1, <4>1, <4>2
    <3>3. CASE b = Len(q) + 1
      BY <1>3, <2>2, <3>1, <3>3
    <3> QED  BY <1>3, <3>2, <3>3
  <2>4. \A j \in 1 .. n + 1 : p[j].do = "defer" /\ T[p[j].cmd.dst] # None => \E a \in DOMAIN r : r[a] = p[j]
    BY <1>1, <1>2, <1>3 DEF st
  <2> QED  BY <1>3, <2>1, <2>3, <2>4 DEF KeptOf
<1>5. ASSUME ~(st.do = "defer" /\ T[st.cmd.dst] # None) PROVE KeptOf(p, T, n + 1, q)
  BY <1>1, <1>2, <1>5 DEF KeptOf, st
<1> QED  BY <1>4, <1>5 DEF st, r

(* The frees that remain are those of the temporaries with buffers.        *)
LEMMA DefersKeptFits ==
  ASSUME NEW d \in Tensors \cup {None}, NEW s \in Tensors \cup {None}, NEW p, NEW T,
         Fits(p, d, s, HeldIn(p, T))
  PROVE  /\ Fits(DefersKept(p, T), d, s, HeldIn(DefersKept(p, T), T))
         /\ HeldIn(DefersKept(p, T), T) = HeldIn(p, T)
         /\ DefersKept(p, T) \in Seq(AllSteps)
         /\ \A i \in DOMAIN DefersKept(p, T) : DefersKept(p, T)[i].do = "defer"
<1> DEFINE q == DefersKept(p, T)
<1>1. /\ p \in Seq(AllSteps) /\ (\A i \in DOMAIN p : IsStep(p[i], d, s))
      /\ (\A i, j \in DOMAIN p : i < j => Precedes(p, i, j, d, s)) /\ Supplied(p, HeldIn(p, T))
  BY DEF Fits
<1>2. Len(p) \in Nat /\ DOMAIN p = 1 .. Len(p)
  BY <1>1
<1>3. PICK f : KeptTrace(p, T, Len(p), f) /\ q = f[Len(p)]
  BY <1>2, KeptFacts
<1> HIDE DEF q
<1>4. \A i, j \in DOMAIN p : i < j /\ p[i].do = "defer" => p[i].cmd.dst # p[j].cmd.dst
  BY <1>1 DEF Precedes
<1> DEFINE S == {n \in Nat : n <= Len(p) => KeptOf(p, T, n, f[n])}
<1>5. 0 \in S
  <2>1. f[0] = <<>>
    BY <1>2, <1>3 DEF KeptTrace
  <2>2. DOMAIN <<>> = {} /\ <<>> \in Seq(AllSteps)
    BY EmptySeq
  <2>3. KeptOf(p, T, 0, <<>>)
    BY <2>2 DEF KeptOf
  <2> QED  BY <2>1, <2>3
<1>6. ASSUME NEW n \in Nat, n \in S PROVE n + 1 \in S
  <2> SUFFICES ASSUME n + 1 <= Len(p) PROVE KeptOf(p, T, n + 1, f[n + 1])
    OBVIOUS
  <2>1. n + 1 \in DOMAIN p /\ n <= Len(p) /\ n + 1 \in 0 .. Len(p) /\ n + 1 # 0 /\ n + 1 - 1 = n
    BY <1>2
  <2>2. KeptOf(p, T, n, f[n])
    BY <1>6, <2>1
  <2> DEFINE Next(m, i) == IF p[i].do = "defer" /\ T[p[i].cmd.dst] # None THEN Append(m, p[i]) ELSE m
  <2>3. f = [i \in 0 .. Len(p) |-> IF i = 0 THEN <<>> ELSE Next(f[i - 1], i)]
    BY <1>3 DEF KeptTrace
  <2> HIDE DEF Next
  <2>4. f[n + 1] = Next(f[n], n + 1)
    BY <2>1, <2>3
  <2>5. f[n + 1] = IF p[n + 1].do = "defer" /\ T[p[n + 1].cmd.dst] # None
                   THEN Append(f[n], p[n + 1]) ELSE f[n]
    BY <2>4 DEF Next
  <2> HIDE DEF S
  <2> QED  BY <1>1, <1>4, <2>1, <2>2, <2>5, KeptAppend
<1> HIDE DEF S
<1>7. Nat \subseteq S
  BY <1>5, <1>6, Induction
<1>8. KeptOf(p, T, Len(p), q)
  BY <1>2, <1>3, <1>7 DEF S
<1>9. /\ q \in Seq(AllSteps)
      /\ \A a \in DOMAIN q : \E j \in DOMAIN p :
           q[a] = p[j] /\ p[j].do = "defer" /\ T[p[j].cmd.dst] # None
      /\ \A a, b \in DOMAIN q : a < b => q[a].cmd.dst # q[b].cmd.dst
      /\ \A j \in DOMAIN p : p[j].do = "defer" /\ T[p[j].cmd.dst] # None => \E a \in DOMAIN q : q[a] = p[j]
  BY <1>2, <1>8 DEF KeptOf
<1>10. \A a \in DOMAIN q : q[a].do = "defer" /\ IsStep(q[a], d, s) /\ ~Allocates(q[a])
  BY <1>1, <1>9, KindFacts
<1>11. Deferred(q) = HeldIn(p, T)
  <2>1. \A x : x \in Deferred(q) => x \in Deferred(p) /\ T[x] # None
    BY <1>9, CountedFacts
  <2>2. \A x : x \in Deferred(p) /\ T[x] # None => x \in Deferred(q)
    BY <1>9, CountedFacts
  <2> QED  BY <2>1, <2>2 DEF HeldIn
<1>12. HeldIn(q, T) = HeldIn(p, T)
  BY <1>11 DEF HeldIn
<1>13. Allocated(q) = {}
  BY <1>10, CountedFacts
<1>14. \A i, j \in DOMAIN q : i < j => Precedes(q, i, j, d, s)
  BY <1>9, <1>10, KindFacts DEF Precedes
<1>15. \A i \in DOMAIN q, x \in Temps : Needs(q[i], x) => x \in HeldIn(q, T)
  BY <1>10, <1>11, <1>12, KindFacts, CountedFacts DEF Needs
<1>16. Supplied(q, HeldIn(q, T))
  BY <1>11, <1>12, <1>13, <1>15 DEF Supplied
<1> QED  BY <1>9, <1>10, <1>12, <1>14, <1>16 DEF Fits, q

-----------------------------------------------------------------------------
(* What the remaining steps deliver, as steps are done                     *)

(* A command with its operands at loc.                                     *)
At(loc, c) ==
  [c EXCEPT !.dst = loc[@], !.src = loc[@], !.aux = IF c.op = "merge" THEN loc[@] ELSE @]

LEMMA AtFacts ==
  ASSUME NEW K \in SUBSET Names, NEW loc \in [K -> Buffers], NEW c \in CommandsOver(Names), Uses(c) \subseteq K
  PROVE  /\ At(loc, c) \in CommandsOver(Buffers)
         /\ At(loc, c).dst = loc[c.dst] /\ At(loc, c).src = loc[c.src]
         /\ At(loc, c).op = c.op /\ At(loc, c).val = c.val
         /\ c.op = "merge" => At(loc, c).aux = loc[c.aux]
         /\ c.dst \in K /\ c.src \in K /\ (c.op = "merge" => c.aux \in K)
         /\ Uses(At(loc, c)) = {loc[x] : x \in Uses(c)}
<1>1. /\ c \in [op : {"fill", "accum", "copy", "merge"}, dst : Names, src : Names, aux : Names \cup {0}, val : Contents]
      /\ c.aux \in IF c.op = "merge" THEN Names ELSE {0}
  BY DEF CommandsOver
<1>2. c.dst \in K /\ c.src \in K /\ (c.op = "merge" => c.aux \in K)
  BY DEF Uses
<1> DEFINE aux == IF c.op = "merge" THEN loc[c.aux] ELSE c.aux
<1> HIDE DEF aux
<1>3. At(loc, c) = [op |-> c.op, dst |-> loc[c.dst], src |-> loc[c.src], aux |-> aux, val |-> c.val]
  <2>1. At(loc, c) = [c EXCEPT !.dst = loc[c.dst], !.src = loc[c.src], !.aux = aux]
    BY DEF At, aux
  <2> QED  BY <1>1, <2>1
<1>4. aux \in IF c.op = "merge" THEN Buffers ELSE {0}
  BY <1>1, <1>2 DEF aux
<1>5. loc[c.dst] \in Buffers /\ loc[c.src] \in Buffers
  BY <1>2
<1>6. At(loc, c) \in CommandsOver(Buffers)
  BY <1>1, <1>3, <1>4, <1>5 DEF CommandsOver
<1>7. Uses(At(loc, c)) = {loc[x] : x \in Uses(c)}
  <2>1. CASE c.op = "merge"
    <3>1. Uses(c) = {c.dst, c.src, c.aux} /\ aux = loc[c.aux]
      BY <2>1 DEF Uses, aux
    <3>2. Uses(At(loc, c)) = {loc[c.dst], loc[c.src], aux}
      BY <1>3, <2>1 DEF Uses
    <3> QED  BY <3>1, <3>2
  <2>2. CASE c.op # "merge"
    <3>1. Uses(c) = {c.dst, c.src}
      BY <2>2 DEF Uses
    <3>2. Uses(At(loc, c)) = {loc[c.dst], loc[c.src]}
      BY <1>3, <2>2 DEF Uses
    <3> QED  BY <3>1, <3>2
  <2> QED  BY <2>1, <2>2
<1> QED  BY <1>2, <1>3, <1>6, <1>7 DEF aux

LEMMA AtResult ==
  ASSUME NEW K \in SUBSET Names, NEW loc \in [K -> Buffers], NEW c \in CommandsOver(Names), Uses(c) \subseteq K,
         NEW m \in [Buffers -> Contents], NEW n \in [Names -> Contents], \A x \in K : n[x] = m[loc[x]]
  PROVE  Result(m, At(loc, c)) = Result(n, c)
<1>1. /\ c.op \in {"fill", "accum", "copy", "merge"} /\ c.dst \in K /\ c.src \in K
      /\ c.op = "merge" => c.aux \in K
  BY AtFacts DEF CommandsOver
<1>2. CASE c.op = "fill"
  BY <1>2, AtFacts DEF Result
<1>3. CASE c.op = "accum"
  BY <1>1, <1>3, AtFacts DEF Result
<1>4. CASE c.op = "copy"
  BY <1>1, <1>4, AtFacts DEF Result
<1>5. CASE c.op = "merge"
  BY <1>1, <1>5, AtFacts DEF Result
<1> QED  BY <1>1, <1>2, <1>3, <1>4, <1>5

OneToOne(loc) == \A x, y \in DOMAIN loc : loc[x] = loc[y] => x = y

(* A command has been executed, or will be before what m stands for.       *)
LEMMA DeliversMade ==
  ASSUME NEW K \in SUBSET Names, NEW loc \in [K -> Buffers], OneToOne(loc), NEW p, Sound(p), p # <<>>,
         Makes(Head(p)), Uses(Head(p).cmd) \subseteq K,
         NEW m \in [Buffers -> Contents], NEW d \in K, NEW r, Delivers(p, d, r, loc, m)
  PROVE  Delivers(Tail(p), d, r, loc, Exec(m, At(loc, Head(p).cmd)))
<1> DEFINE c == Head(p).cmd
           a == At(loc, c)
           m2 == Exec(m, a)
<1>1. c \in CommandsOver(Names) /\ p \in Seq(AllSteps)
  BY SoundTail DEF Sound
<1>2. /\ a \in CommandsOver(Buffers) /\ a.dst = loc[c.dst] /\ c.dst \in K
  BY <1>1, AtFacts
<1>3. m2 = [b \in Buffers |-> IF b = a.dst THEN Result(m, a) ELSE m[b]]
  BY <1>2, ExecType
<1>4. \A n : Effect(n, Head(p)) = Exec(n, c)
  BY DEF Effect, Makes
<1>u. Uses(c) \subseteq K
  OBVIOUS
<1> SUFFICES ASSUME NEW n2 \in [Names -> Contents], \A x \in K : n2[x] = m2[loc[x]]
             PROVE  Run(n2, Tail(p))[d] = r
  BY DEF Delivers
<1> HIDE DEF c, a, m2
<1> DEFINE n == [x \in Names |-> IF x \in K THEN m[loc[x]] ELSE n2[x]]
<1>5. n \in [Names -> Contents] /\ \A x \in K : n[x] = m[loc[x]]
  <2>1. \A x \in Names : (IF x \in K THEN m[loc[x]] ELSE n2[x]) \in Contents
    OBVIOUS
  <2> QED  BY <2>1
<1>6. Result(m, a) = Result(n, c)
  <2> HIDE DEF n
  <2> QED  BY <1>1, <1>5, <1>u, AtResult DEF a
<1>7. Exec(n, c) = n2
  <2>1. Exec(n, c) = [x \in Names |-> IF x = c.dst THEN Result(n, c) ELSE n[x]]
    <3> HIDE DEF n
    <3> QED  BY <1>1, <1>5, ExecType
  <2>2. ASSUME NEW x \in Names PROVE (IF x = c.dst THEN Result(n, c) ELSE n[x]) = n2[x]
    <3>1. CASE x = c.dst
      BY <1>2, <1>3, <1>6, <3>1
    <3>2. CASE x # c.dst /\ x \in K
      <4>1. loc[x] # loc[c.dst] /\ loc[x] \in Buffers
        BY <1>2, <3>2 DEF OneToOne
      <4>2. n2[x] = m[loc[x]] /\ n[x] = m[loc[x]]
        BY <1>2, <1>3, <3>2, <4>1
      <4> QED  BY <3>2, <4>2
    <3>3. CASE x \notin K
      BY <1>2, <3>3
    <3> QED  BY <3>1, <3>2, <3>3
  <2> HIDE DEF n
  <2> QED  BY <2>1, <2>2
<1> HIDE DEF n
<1>8. Run(n, p)[d] = r
  BY <1>5 DEF Delivers
<1>9. Run(n, p) = Run(Effect(n, Head(p)), Tail(p))
  BY <1>1, RunHead
<1> QED  BY <1>4, <1>7, <1>8, <1>9

(* An allocation that leaves in the temporary what is there already.       *)
LEMMA RunAllocated ==
  ASSUME NEW p \in Seq(AllSteps), p # <<>>, Allocates(Head(p)),
         NEW x \in Names, NEW v \in Contents, Head(p).cmd = Fill(x, v),
         NEW n \in [Names -> Contents], Head(p).do = "scratch" => n[x] = v
  PROVE  Run(n, Tail(p)) = Run(n, p)
<1>1. Run(n, p) = Run(Effect(n, Head(p)), Tail(p))
  BY RunHead
<1>2. ~Records(Head(p)) /\ Head(p).do # "host"
  BY KindFacts
<1>3. CASE Head(p).do = "scratch"
  <2>1. Fill(x, v) \in CommandsOver(Names) /\ Fill(x, v).dst = x /\ Result(n, Fill(x, v)) = v
    BY FillTyped DEF Fill, Result
  <2>2. Exec(n, Fill(x, v)) = [l \in Names |-> IF l = x THEN v ELSE n[l]]
    BY <2>1, ExecType
  <2>3. Exec(n, Fill(x, v)) = n
    BY <1>3, <2>2
  <2> QED  BY <1>1, <1>3, <2>3 DEF Effect
<1>4. CASE Head(p).do # "scratch"
  BY <1>1, <1>2, <1>4 DEF Effect
<1> QED  BY <1>3, <1>4

(* The first step has no effect on contents.                               *)
LEMMA DeliversSkipped ==
  ASSUME NEW p \in Seq(AllSteps), p # <<>>, ~Makes(Head(p)), Head(p).do # "scratch",
         NEW d, NEW r, NEW loc, NEW m, Delivers(p, d, r, loc, m)
  PROVE  Delivers(Tail(p), d, r, loc, m)
<1>1. \A n : Run(n, p) = Run(Effect(n, Head(p)), Tail(p))
  BY RunHead
<1>2. \A n : Effect(n, Head(p)) = n
  BY DEF Effect, Makes
<1> QED  BY <1>1, <1>2 DEF Delivers

(* Only what is at loc matters.                                            *)
LEMMA DeliversSame ==
  ASSUME NEW p, NEW d, NEW r, NEW loc, NEW m, NEW loc2, NEW m2, Delivers(p, d, r, loc, m),
         DOMAIN loc2 = DOMAIN loc, \A x \in DOMAIN loc : m2[loc2[x]] = m[loc[x]]
  PROVE  Delivers(p, d, r, loc2, m2)
BY DEF Delivers

LEMMA DeliversDefers ==
  ASSUME NEW p \in Seq(AllSteps), \A i \in DOMAIN p : p[i].do = "defer",
         NEW loc, NEW d \in DOMAIN loc, NEW r, NEW m, m[loc[d]] = r
  PROVE  Delivers(p, d, r, loc, m)
<1>1. \A n : Run(n, p) = n
  BY RunDefers
<1> QED  BY <1>1 DEF Delivers

(* With nothing left to do d holds r; nor is a free left to do anything.   *)
LEMMA DeliversDone ==
  ASSUME NEW p \in Seq(AllSteps), \A i \in DOMAIN p : p[i].do = "defer",
         NEW K \in SUBSET Names, NEW loc \in [K -> Buffers], NEW m \in [Buffers -> Contents],
         NEW d \in K, NEW r, Delivers(p, d, r, loc, m)
  PROVE  m[loc[d]] = r
<1> DEFINE n == [x \in Names |-> IF x \in K THEN m[loc[x]] ELSE 0]
<1>1. n \in [Names -> Contents] /\ \A x \in K : n[x] = m[loc[x]]
  <2>1. \A x \in Names : (IF x \in K THEN m[loc[x]] ELSE 0) \in Contents
    BY NameFacts
  <2> QED  BY <2>1
<1> HIDE DEF n
<1>2. Run(n, p)[d] = r
  BY <1>1 DEF Delivers
<1>3. Run(n, p) = n
  BY RunDefers
<1> QED  BY <1>1, <1>2, <1>3

LEMMA DeliversAtFirst ==
  ASSUME NEW d \in Tensors, NEW s, NEW p, Pure(p, d, s), NEW v \in [Names -> Contents],
         NEW loc, DOMAIN loc = {d, s} \ {None}, NEW m, \A x \in DOMAIN loc : v[x] = m[loc[x]]
  PROVE  Delivers(p, d, Run(v, p)[d], loc, m)
BY DEF Pure, Delivers, SameOn

-----------------------------------------------------------------------------
(* Operations under way                                                    *)

LEMMA PlaceFacts ==
  ASSUME Discipline
  PROVE  /\ DOMAIN Place = Keys
         /\ \A t \in Tensors : t \in Keys /\ Place[t] = buffer[t]
         /\ \A th \in Threads, x \in Temps :
              /\ <<th, x>> \in Keys /\ <<th, x>> \notin Tensors
              /\ Place[<<th, x>>] = IF x \in Held(th) THEN temp[th][x] ELSE None
         /\ \A k \in Keys : k \in Tensors \/ \E th \in Threads, x \in Temps : k = <<th, x>>
         /\ \A k \in Keys : Place[k] \in Buffers \cup {None}
<1>1. \A t \in Tensors : t \in Keys /\ Place[t] = buffer[t]
  BY DEF Place, Keys
<1>2. \A th \in Threads, x \in Temps :
        /\ <<th, x>> \in Keys /\ <<th, x>> \notin Tensors
        /\ Place[<<th, x>>] = IF x \in Held(th) THEN temp[th][x] ELSE None
  BY KeyFacts DEF Place
<1>3. \A k \in Keys : k \in Tensors \/ \E th \in Threads, x \in Temps : k = <<th, x>>
  BY DEF Keys
<1>4. /\ \A t \in Tensors : buffer[t] \in Buffers \cup {None}
      /\ \A th \in Threads, x \in Temps : temp[th][x] \in Buffers \cup {None}
  BY DEF Discipline, DeviceTyped, CallsTyped
<1>5. ASSUME NEW k \in Keys PROVE Place[k] \in Buffers \cup {None}
  <2>1. CASE k \in Tensors
    BY <1>1, <1>4, <2>1
  <2>2. ASSUME NEW th \in Threads, NEW x \in Temps, k = <<th, x>> PROVE Place[k] \in Buffers \cup {None}
    <3>1. Place[k] = temp[th][x] \/ Place[k] = None
      BY <1>2, <2>2
    <3> QED  BY <1>4, <3>1
  <2> QED  BY <1>3, <2>1, <2>2
<1>6. DOMAIN Place = Keys
  BY DEF Place
<1> QED  BY <1>1, <1>2, <1>3, <1>5, <1>6

(* What a thread with steps to do has.                                     *)
LEMMA Busy ==
  ASSUME Discipline, NEW th \in Threads, todo[th] # <<>>
  PROVE  /\ op[th].dst \in Tensors \cup {None} /\ op[th].src \in Tensors \cup {None}
         /\ op[th].result \in Contents /\ temp[th] \in [Temps -> Buffers \cup {None}]
         /\ \A x \in ({op[th].dst, op[th].src} \ {None}) :
              x \in Tensors /\ val[x] \in Contents /\ buffer[x] \in Buffers /\ Live(x)
         /\ op[th].dst = op[th].src => op[th].dst = None
         /\ Fits(todo[th], op[th].dst, op[th].src, Held(th))
         /\ todo[th] \in Seq(AllSteps) /\ Tail(todo[th]) \in Seq(AllSteps)
         /\ Held(th) \subseteq Temps /\ Held(th) = HeldIn(todo[th], temp[th])
         /\ \A x \in Held(th) : temp[th][x] \in Buffers
<1>1. /\ op[th] \in Operations /\ temp[th] \in [Temps -> Buffers \cup {None}] /\ todo[th] \in Seq(AllSteps)
      /\ val \in [Tensors -> Contents \cup {None}] /\ buffer \in [Tensors -> Buffers \cup {None}]
      /\ Remains(th) /\ Stored
  BY DEF Discipline, CallsTyped, EagerTyped, DeviceTyped
<1>2. /\ op[th].dst # None => Live(op[th].dst)
      /\ op[th].src # None => Live(op[th].src)
      /\ op[th].dst = op[th].src => op[th].dst = None
      /\ Fits(todo[th], op[th].dst, op[th].src, Held(th))
  BY <1>1 DEF Remains
<1>3. /\ op[th].dst \in Tensors \cup {None} /\ op[th].src \in Tensors \cup {None}
      /\ op[th].result \in Contents
  BY <1>1 DEF Operations
<1>4. \A x \in ({op[th].dst, op[th].src} \ {None}) :
        x \in Tensors /\ val[x] \in Contents /\ buffer[x] \in Buffers /\ Live(x)
  BY <1>1, <1>2, <1>3 DEF Stored, Live
<1>5. Tail(todo[th]) \in Seq(AllSteps)
  BY <1>1, TailFacts
<1>6. Held(th) = HeldIn(todo[th], temp[th]) /\ \A x \in Held(th) : temp[th][x] # None
  BY DEF Held, HeldIn
<1>7. Held(th) \subseteq Temps
  <2>1. \A i \in DOMAIN todo[th] : todo[th][i].do = "defer" => todo[th][i].cmd.dst \in Temps
    <3>1. \A i \in DOMAIN todo[th] : todo[th][i] \in AllSteps /\ IsStep(todo[th][i], op[th].dst, op[th].src)
      BY <1>1, <1>2 DEF Fits
    <3> QED  BY <1>3, <3>1, StepFacts
  <2>2. Deferred(todo[th]) \subseteq Temps
    BY <2>1, CountedFacts
  <2> QED  BY <2>2, <1>6 DEF HeldIn
<1> QED  BY <1>1, <1>2, <1>3, <1>4, <1>5, <1>6, <1>7

LEMMA Idle ==
  ASSUME Discipline, NEW th \in Threads, todo[th] = <<>>
  PROVE  op[th] = NoOp /\ op[th].dst = None /\ op[th].src = None /\ Held(th) = {}
<1>1. op[th] = NoOp
  BY DEF Discipline, Remains
<1>2. Held(th) = {}
  BY CountedEmpty DEF Held, HeldIn
<1> QED  BY <1>1, <1>2 DEF NoOp

(* What a thread has to do when it goes on with the steps q, of which the  *)
(* temporaries it still holds are in T.                                    *)
Going(th, q, r, T) ==
  /\ todo[th] # <<>>
  /\ q \in Seq(AllSteps) /\ r \in Contents /\ T \in [Temps -> Buffers \cup {None}]
  /\ Fits(q, op[th].dst, op[th].src, HeldIn(q, T))
  /\ Continue(th, q, r, T)
  /\ buffer' = buffer

(* The other keys stay where they are; the temporaries are as in T.        *)
PlacesOf(th, q, T) ==
  /\ \A t \in Tensors : Place'[t] = Place[t]
  /\ \A u \in Threads \ {th}, x \in Temps : Place'[<<u, x>>] = Place[<<u, x>>]
  /\ \A x \in Temps : Place'[<<th, x>>] = IF x \in HeldIn(q, T) THEN T[x] ELSE None

LEMMA ContinueChanges ==
  ASSUME Discipline, NEW th \in Threads, NEW q, NEW r, NEW T, Going(th, q, r, T)
  PROVE  /\ todo' = [todo EXCEPT ![th] = q]
         /\ op' = [op EXCEPT ![th] = IF q = <<>> THEN NoOp ELSE [@ EXCEPT !.result = r]]
         /\ temp' = [temp EXCEPT ![th] = IF q = <<>> THEN [x \in Temps |-> None] ELSE T]
         /\ val' = IF q = <<>> /\ op[th].dst # None THEN [val EXCEPT ![op[th].dst] = r] ELSE val
         /\ read' = read /\ buffer' = buffer
<1>1. CASE q # <<>>
  BY <1>1 DEF Going, Continue, eager
<1>2. CASE q = <<>>
  BY <1>2 DEF Going, Continue, eager, Put
<1> QED  BY <1>1, <1>2

LEMMA ContinueKeeps ==
  ASSUME Discipline, NEW th \in Threads, NEW q, NEW r, NEW T, Going(th, q, r, T)
  PROVE  /\ EagerTyped' /\ CallsTyped' /\ (\A u \in Threads : Remains(u)') /\ Stored' /\ Locked'
         /\ PlacesOf(th, q, T)
<1>1. /\ todo' = [todo EXCEPT ![th] = q]
      /\ op' = [op EXCEPT ![th] = IF q = <<>> THEN NoOp ELSE [@ EXCEPT !.result = r]]
      /\ temp' = [temp EXCEPT ![th] = IF q = <<>> THEN [x \in Temps |-> None] ELSE T]
      /\ val' = IF q = <<>> /\ op[th].dst # None THEN [val EXCEPT ![op[th].dst] = r] ELSE val
      /\ read' = read /\ buffer' = buffer
  BY ContinueChanges
<1>2. /\ todo[th] # <<>> /\ q \in Seq(AllSteps) /\ r \in Contents /\ T \in [Temps -> Buffers \cup {None}]
      /\ Fits(q, op[th].dst, op[th].src, HeldIn(q, T))
  BY DEF Going
<1>3. /\ op[th].dst \in Tensors \cup {None} /\ op[th].src \in Tensors \cup {None}
      /\ \A x \in ({op[th].dst, op[th].src} \ {None}) : x \in Tensors /\ val[x] \in Contents /\ Live(x)
      /\ op[th].dst = op[th].src => op[th].dst = None
  BY <1>2, Busy
<1>4. /\ EagerTyped /\ CallsTyped /\ (\A u \in Threads : Remains(u)) /\ Stored /\ Locked
      /\ val \in [Tensors -> Contents \cup {None}] /\ buffer \in [Tensors -> Buffers \cup {None}]
      /\ op \in [Threads -> Operations] /\ todo \in [Threads -> Seq(AllSteps)]
      /\ temp \in [Threads -> [Temps -> Buffers \cup {None}]]
  BY DEF Discipline, EagerTyped, CallsTyped, DeviceTyped
<1>5. /\ todo'[th] = q
      /\ temp'[th] = IF q = <<>> THEN [x \in Temps |-> None] ELSE T
      /\ \A u \in Threads : u # th => todo'[u] = todo[u] /\ temp'[u] = temp[u] /\ op'[u] = op[u]
      /\ op'[th] = IF q = <<>> THEN NoOp ELSE [op[th] EXCEPT !.result = r]
  BY <1>1, <1>4
<1>6. NoOp \in Operations /\ NoOp.dst = None /\ NoOp.src = None
  BY NameFacts DEF NoOp, Operations
<1>7. /\ op'[th] \in Operations
      /\ op'[th].dst = IF q = <<>> THEN None ELSE op[th].dst
      /\ op'[th].src = IF q = <<>> THEN None ELSE op[th].src
  <2>1. op[th] \in Operations
    BY <1>4
  <2>2. /\ [op[th] EXCEPT !.result = r] \in Operations
        /\ [op[th] EXCEPT !.result = r].dst = op[th].dst /\ [op[th] EXCEPT !.result = r].src = op[th].src
    BY <1>2, <2>1 DEF Operations
  <2> QED  BY <1>5, <1>6, <2>2
<1>8. CallsTyped'
  <2>1. op' \in [Threads -> Operations]
    BY <1>1, <1>4, <1>5, <1>7
  <2>2. todo' \in [Threads -> Seq(AllSteps)]
    BY <1>1, <1>2, <1>4
  <2>3. temp' \in [Threads -> [Temps -> Buffers \cup {None}]]
    BY <1>1, <1>2, <1>4
  <2> QED  BY <2>1, <2>2, <2>3 DEF CallsTyped
<1>9. /\ val' \in [Tensors -> Contents \cup {None}]
      /\ \A t \in Tensors : Live(t)' <=> Live(t)
  BY <1>1, <1>2, <1>3, <1>4, NameFacts DEF Live
<1>10. EagerTyped'
  BY <1>1, <1>4, <1>9 DEF EagerTyped
<1>11. Stored'
  BY <1>1, <1>4, <1>9 DEF Stored
<1>12. \A u \in Threads : op'[u].dst \in {op[u].dst, None} /\ op'[u].src \in {op[u].src, None}
  BY <1>5, <1>7
<1>13. Locked'
  <2> SUFFICES ASSUME NEW u \in Threads, NEW w \in Threads, u # w, op'[u].dst # None
               PROVE  op'[w].dst # op'[u].dst /\ op'[w].src # op'[u].dst
    BY DEF Locked
  <2>1. op'[u].dst = op[u].dst /\ op[u].dst # None
    BY <1>12
  <2>2. op[w].dst # op[u].dst /\ op[w].src # op[u].dst
    BY <1>4, <2>1 DEF Locked
  <2> QED  BY <1>12, <2>1, <2>2
<1>14. \A u \in Threads : u # th => Held(u)' = Held(u)
  BY <1>5 DEF Held
<1>15. Held(th)' = HeldIn(q, T)
  <2>1. CASE q = <<>>
    <3>1. Held(th)' = HeldIn(<<>>, temp'[th])
      BY <1>5, <2>1 DEF Held
    <3> QED  BY <2>1, <3>1, CountedEmpty DEF HeldIn
  <2>2. CASE q # <<>>
    BY <1>5, <2>2 DEF Held
  <2> QED  BY <2>1, <2>2
<1>16. ASSUME NEW u \in Threads PROVE Remains(u)'
  <2>1. CASE u # th
    <3>1. Remains(u) /\ op[u].dst \in Tensors \cup {None} /\ op[u].src \in Tensors \cup {None}
      BY <1>4 DEF Operations
    <3>2. todo'[u] = todo[u] /\ temp'[u] = temp[u] /\ op'[u] = op[u] /\ Held(u)' = Held(u)
      BY <1>5, <1>14, <2>1
    <3> QED  BY <1>9, <3>1, <3>2 DEF Remains
  <2>2. CASE u = th /\ q = <<>>
    BY <1>5, <2>2 DEF Remains
  <2>3. CASE u = th /\ q # <<>>
    <3>1. /\ todo'[th] = q /\ op'[th].dst = op[th].dst /\ op'[th].src = op[th].src
          /\ Held(th)' = HeldIn(q, T)
      BY <1>5, <1>7, <1>15, <2>3
    <3> QED  BY <1>2, <1>3, <1>9, <2>3, <3>1 DEF Remains
  <2> QED  BY <2>1, <2>2, <2>3
<1>17. PlacesOf(th, q, T)
  <2>1. \A t \in Tensors : Place'[t] = Place[t]
    BY <1>1 DEF Place, Keys
  <2>2. ASSUME NEW u \in Threads \ {th}, NEW x \in Temps PROVE Place'[<<u, x>>] = Place[<<u, x>>]
    <3>1. <<u, x>> \in Keys /\ <<u, x>> \notin Tensors
      BY KeyFacts
    <3>2. temp'[u] = temp[u] /\ Held(u)' = Held(u)
      BY <1>5, <1>14
    <3> QED  BY <3>1, <3>2 DEF Place
  <2>3. ASSUME NEW x \in Temps PROVE Place'[<<th, x>>] = IF x \in HeldIn(q, T) THEN T[x] ELSE None
    <3>1. <<th, x>> \in Keys /\ <<th, x>> \notin Tensors
      BY KeyFacts
    <3>2. Place'[<<th, x>>] = IF x \in Held(th)' THEN temp'[th][x] ELSE None
      BY <3>1 DEF Place
    <3>3. x \in HeldIn(q, T) => temp'[th] = T
      <4>1. q = <<>> => HeldIn(q, T) = {}
        BY CountedEmpty DEF HeldIn
      <4> QED  BY <1>5, <4>1
    <3> QED  BY <1>15, <3>2, <3>3
  <2> QED  BY <2>1, <2>2, <2>3 DEF PlacesOf
<1> QED  BY <1>8, <1>10, <1>11, <1>13, <1>16, <1>17

-----------------------------------------------------------------------------
(* Buffers have one owner                                                  *)

LEMMA OwnersShrink ==
  ASSUME Discipline, \A k \in Keys : Place'[k] \in {Place[k], None},
         \A k \in Keys : Place[k] \notin free_bufs' \cup pool', free_bufs' \cap pool' = {},
         free_bufs' \subseteq Buffers, pool' \subseteq Buffers
  PROVE  Owners'
BY NameFacts DEF Discipline, Owners

LEMMA OwnersTaken ==
  ASSUME Discipline, NEW b \in pool, pool' = pool \ {b}, free_bufs' = free_bufs,
         NEW k1 \in Keys, Place'[k1] = b, \A k \in Keys \ {k1} : Place'[k] \in {Place[k], None}
  PROVE  Owners'
<1>1. pool \subseteq Buffers /\ free_bufs \subseteq Buffers
  BY DEF Discipline, DeviceTyped
<1> QED  BY <1>1, NameFacts DEF Discipline, Owners

LEMMA OwnersFreed ==
  ASSUME Discipline, NEW k1 \in Keys, free_bufs' = free_bufs \cup {Place[k1]}, pool' = pool,
         Place[k1] # None, Place'[k1] = None, \A k \in Keys \ {k1} : Place'[k] \in {Place[k], None}
  PROVE  Owners'
<1>1. pool \subseteq Buffers /\ free_bufs \subseteq Buffers
  BY DEF Discipline, DeviceTyped
<1>2. Place[k1] \in Buffers
  BY PlaceFacts
<1> QED  BY <1>1, <1>2, NameFacts DEF Discipline, Owners

(* Of the places only that of a temporary may change.                      *)
PlacesBut(K) == \A k \in Keys \ K : Place'[k] = Place[k]

LEMMA PlacesOther ==
  ASSUME Discipline, NEW th \in Threads, NEW q, NEW T, PlacesOf(th, q, T), NEW K,
         \A x \in Temps : <<th, x>> \notin K =>
           /\ x \in HeldIn(q, T) <=> x \in Held(th)
           /\ x \in Held(th) => T[x] = temp[th][x]
  PROVE  PlacesBut(K)
<1> SUFFICES ASSUME NEW k \in Keys, k \notin K PROVE Place'[k] = Place[k]
  BY DEF PlacesBut
<1>1. CASE k \in Tensors
  BY <1>1 DEF PlacesOf
<1>2. ASSUME NEW u \in Threads \ {th}, NEW x \in Temps, k = <<u, x>> PROVE Place'[k] = Place[k]
  BY <1>2 DEF PlacesOf
<1>3. ASSUME NEW x \in Temps, k = <<th, x>> PROVE Place'[k] = Place[k]
  <2>1. Place'[k] = IF x \in HeldIn(q, T) THEN T[x] ELSE None
    BY <1>3 DEF PlacesOf
  <2>2. Place[k] = IF x \in Held(th) THEN temp[th][x] ELSE None
    BY <1>3, PlaceFacts
  <2> QED  BY <1>3, <2>1, <2>2
<1> QED  BY <1>1, <1>2, <1>3, PlaceFacts

(* The tail of an operation fits what it then holds.                       *)
LEMMA TailFits ==
  ASSUME Discipline, NEW th \in Threads, todo[th] # <<>>, ~Allocates(Head(todo[th]))
  PROVE  /\ Fits(Tail(todo[th]), op[th].dst, op[th].src, HeldIn(Tail(todo[th]), temp[th]))
         /\ HeldIn(Tail(todo[th]), temp[th]) =
              IF Head(todo[th]).do = "defer" THEN Held(th) \ {Head(todo[th]).cmd.dst} ELSE Held(th)
         /\ Head(todo[th]).do = "defer" => Head(todo[th]).cmd.dst \in Held(th)
<1> DEFINE p == todo[th]
           h == Head(p)
           H == Held(th)
<1>1. /\ op[th].dst \in Tensors \cup {None} /\ op[th].src \in Tensors \cup {None}
      /\ p \in Seq(AllSteps) /\ Fits(p, op[th].dst, op[th].src, H)
      /\ H = HeldIn(p, temp[th])
  BY Busy
<1>2. p # <<>> /\ ~Allocates(h)
  OBVIOUS
<1> DEFINE d == op[th].dst
           s == op[th].src
<1> HIDE DEF p, h, H
<1>3. /\ Fits(Tail(p), op[th].dst, op[th].src, HeldAfter(Head(p), H))
      /\ Head(p).do = "defer" => Head(p).cmd.dst \in H \ Deferred(Tail(p))
      /\ Head(p).do # "defer" => Deferred(Tail(p)) = Deferred(p)
  <2>1. d \in Tensors \cup {None} /\ s \in Tensors \cup {None} /\ Fits(p, d, s, H)
    BY <1>1
  <2> HIDE DEF d, s
  <2>2. /\ Fits(Tail(p), d, s, HeldAfter(Head(p), H))
        /\ Head(p).do = "defer" => Head(p).cmd.dst \in H \ Deferred(Tail(p))
        /\ Head(p).do # "defer" => Deferred(Tail(p)) = Deferred(p)
    BY <1>2, <2>1, FitsTail
  <2> QED  BY <2>2 DEF d, s
<1>4. Deferred(p) = Deferred(Tail(p)) \cup (IF h.do = "defer" THEN {h.cmd.dst} ELSE {})
  BY <1>1, <1>2, CountedTail DEF h
<1>5. HeldIn(Tail(p), temp[th]) = IF h.do = "defer" THEN H \ {h.cmd.dst} ELSE H
  <2>1. CASE h.do = "defer"
    BY <1>1, <1>3, <1>4, <2>1 DEF HeldIn, h
  <2>2. CASE h.do # "defer"
    BY <1>1, <1>4, <2>2 DEF HeldIn
  <2> QED  BY <2>1, <2>2
<1>6. HeldAfter(h, H) = HeldIn(Tail(p), temp[th])
  BY <1>2, <1>5 DEF HeldAfter
<1> QED  BY <1>3, <1>5, <1>6 DEF p, h, H

LEMMA TailGoing ==
  ASSUME Discipline, NEW th \in Threads, todo[th] # <<>>, ~Allocates(Head(todo[th])),
         Advance(th), buffer' = buffer
  PROVE  Going(th, Tail(todo[th]), op[th].result, temp[th])
BY TailFits, Busy DEF Advance, Going

LEMMA AdvanceDisciplined ==
  ASSUME Discipline, NEW th \in Threads, todo[th] # <<>>,
         ~Allocates(Head(todo[th])), Head(todo[th]).do # "defer", Advance(th),
         DeviceTyped', buffer' = buffer,
         \A k \in Keys : Place[k] \notin free_bufs' \cup pool', free_bufs' \cap pool' = {}
  PROVE  Discipline' /\ PlacesBut({})
<1>1. Going(th, Tail(todo[th]), op[th].result, temp[th])
  BY TailGoing
<1>2. /\ EagerTyped' /\ CallsTyped' /\ (\A u \in Threads : Remains(u)') /\ Stored' /\ Locked'
      /\ PlacesOf(th, Tail(todo[th]), temp[th])
  BY <1>1, ContinueKeeps
<1>3. HeldIn(Tail(todo[th]), temp[th]) = Held(th)
  BY TailFits
<1>4. PlacesBut({})
  BY <1>2, <1>3, PlacesOther
<1>5. Owners'
  <2>1. free_bufs' \subseteq Buffers /\ pool' \subseteq Buffers
    BY DEF DeviceTyped
  <2>2. \A k \in Keys : Place'[k] \in {Place[k], None}
    BY <1>4 DEF PlacesBut
  <2> QED  BY <2>1, <2>2, OwnersShrink
<1> QED  BY <1>2, <1>4, <1>5 DEF Discipline

(* A step that leaves the operations as they are.                          *)
LEMMA StayDisciplined ==
  ASSUME Discipline, UNCHANGED <<eager, threads, buffer>>, DeviceTyped',
         \A k \in Keys : Place[k] \notin free_bufs' \cup pool', free_bufs' \cap pool' = {}
  PROVE  Discipline' /\ PlacesBut({})
<1>0. UNCHANGED <<val, read, op, todo, temp, buffer>>
  BY DEF eager, threads
<1>1. Place' = Place
  BY <1>0 DEF Place, Held, Keys
<1>2. PlacesBut({})
  BY <1>1 DEF PlacesBut
<1>3. EagerTyped' /\ CallsTyped'
  BY <1>0 DEF Discipline, EagerTyped, CallsTyped
<1>4. ASSUME NEW u \in Threads PROVE Remains(u)'
  <2>1. Remains(u)
    BY DEF Discipline
  <2>2. op[u].dst \in Tensors \cup {None} /\ op[u].src \in Tensors \cup {None}
    BY DEF Discipline, CallsTyped, Operations
  <2> QED  BY <1>0, <2>1, <2>2 DEF Remains, Live, Held
<1>5. Stored' /\ Locked'
  BY <1>0 DEF Discipline, Stored, Locked, Live
<1>6. Owners'
  <2>1. free_bufs' \subseteq Buffers /\ pool' \subseteq Buffers
    BY DEF DeviceTyped
  <2> QED  BY <1>1, <2>1, OwnersShrink
<1> QED  BY <1>2, <1>3, <1>4, <1>5, <1>6 DEF Discipline

(* The pools as they were are no one's.                                    *)
LEMMA PoolsKept ==
  ASSUME Discipline, free_bufs' \cup pool' \subseteq free_bufs \cup pool, free_bufs' \cap pool' = {}
  PROVE  \A k \in Keys : Place[k] \notin free_bufs' \cup pool'
BY DEF Discipline, Owners

LEMMA DeferDisciplined ==
  ASSUME Discipline, NEW th \in Threads, DeferFree(th), profiled' = profiled
  PROVE  /\ Discipline' /\ todo[th] # <<>> /\ Head(todo[th]).do = "defer"
         /\ Head(todo[th]).cmd.dst \in Held(th)
         /\ free_bufs' = free_bufs \cup {Place[<<th, Head(todo[th]).cmd.dst>>]}
         /\ PlacesBut({<<th, Head(todo[th]).cmd.dst>>})
         /\ Place'[<<th, Head(todo[th]).cmd.dst>>] = None
<1> DEFINE x == Head(todo[th]).cmd.dst
           T == temp[th]
           q == Tail(todo[th])
<1>1. /\ todo[th] # <<>> /\ Head(todo[th]).do = "defer" /\ Advance(th) /\ ~Allocates(Head(todo[th]))
      /\ free_bufs' = free_bufs \cup {T[x]}
      /\ UNCHANGED <<mem, cmds, ctx, pool, buffer, profiled>>
  BY KindFacts DEF DeferFree, Next1
<1>2. /\ HeldIn(q, T) = Held(th) \ {x} /\ x \in Held(th)
      /\ Held(th) \subseteq Temps /\ T[x] \in Buffers
  BY <1>1, TailFits, Busy
<1>3. Going(th, q, op[th].result, T)
  BY <1>1, TailGoing
<1>4. /\ EagerTyped' /\ CallsTyped' /\ (\A u \in Threads : Remains(u)') /\ Stored' /\ Locked'
      /\ PlacesOf(th, q, T)
  BY <1>3, ContinueKeeps
<1>5. /\ <<th, x>> \in Keys /\ Place[<<th, x>>] = T[x]
  BY <1>2, PlaceFacts
<1>6. PlacesBut({<<th, x>>})
  BY <1>2, <1>4, PlacesOther
<1>7. Place'[<<th, x>>] = None
  BY <1>2, <1>4 DEF PlacesOf
<1>8. Place[<<th, x>>] # None
  BY <1>2, <1>5, NameFacts
<1>9. Owners'
  <2>1. \A k \in Keys \ {<<th, x>>} : Place'[k] \in {Place[k], None}
    BY <1>6 DEF PlacesBut
  <2> QED  BY <1>1, <1>5, <1>7, <1>8, <2>1, OwnersFreed
<1>10. DeviceTyped'
  BY <1>1, <1>2 DEF Discipline, DeviceTyped
<1> QED  BY <1>1, <1>2, <1>4, <1>5, <1>6, <1>7, <1>9, <1>10 DEF Discipline

(* An operation gives up.                                                  *)
Given(th) == DefersKept(todo[th], temp[th])
OldContents(th) == IF op[th].dst = None THEN 0 ELSE val[op[th].dst]

LEMMA AbortGoing ==
  ASSUME Discipline, NEW th \in Threads, todo[th] # <<>>, Abort(th), buffer' = buffer
  PROVE  /\ Going(th, Given(th), OldContents(th), temp[th])
         /\ HeldIn(Given(th), temp[th]) = Held(th)
         /\ \A i \in DOMAIN Given(th) : Given(th)[i].do = "defer"
<1>1. /\ op[th].dst \in Tensors \cup {None} /\ op[th].src \in Tensors \cup {None}
      /\ temp[th] \in [Temps -> Buffers \cup {None}]
      /\ op[th].dst # None => val[op[th].dst] \in Contents
      /\ Fits(todo[th], op[th].dst, op[th].src, HeldIn(todo[th], temp[th]))
      /\ Held(th) = HeldIn(todo[th], temp[th])
  BY Busy
<1> DEFINE p == todo[th]
           T == temp[th]
           d == op[th].dst
           s == op[th].src
<1>2. /\ Fits(Given(th), d, s, HeldIn(Given(th), T))
      /\ HeldIn(Given(th), T) = Held(th)
      /\ Given(th) \in Seq(AllSteps) /\ \A i \in DOMAIN Given(th) : Given(th)[i].do = "defer"
  <2>1. /\ d \in Tensors \cup {None} /\ s \in Tensors \cup {None} /\ Fits(p, d, s, HeldIn(p, T))
        /\ Held(th) = HeldIn(p, T) /\ Given(th) = DefersKept(p, T)
    BY <1>1 DEF Given
  <2> HIDE DEF p, T, d, s
  <2>2. /\ Fits(DefersKept(p, T), d, s, HeldIn(DefersKept(p, T), T))
        /\ HeldIn(DefersKept(p, T), T) = HeldIn(p, T)
        /\ DefersKept(p, T) \in Seq(AllSteps)
        /\ \A i \in DOMAIN DefersKept(p, T) : DefersKept(p, T)[i].do = "defer"
    BY <2>1, DefersKeptFits
  <2> QED  BY <2>1, <2>2
<1>3. OldContents(th) \in Contents
  BY <1>1, NameFacts DEF OldContents
<1>4. Continue(th, Given(th), OldContents(th), temp[th])
  BY DEF Abort, Given, OldContents
<1> QED  BY <1>1, <1>2, <1>3, <1>4 DEF Going

LEMMA AbortDisciplined ==
  ASSUME Discipline, NEW th \in Threads, todo[th] # <<>>, Abort(th), bufs' = bufs, DeviceTyped'
  PROVE  Discipline' /\ PlacesBut({})
<1>0. UNCHANGED <<free_bufs, pool, buffer>>
  BY DEF bufs
<1>1. Going(th, Given(th), OldContents(th), temp[th]) /\ HeldIn(Given(th), temp[th]) = Held(th)
  BY <1>0, AbortGoing
<1>2. /\ EagerTyped' /\ CallsTyped' /\ (\A u \in Threads : Remains(u)') /\ Stored' /\ Locked'
      /\ PlacesOf(th, Given(th), temp[th])
  BY <1>1, ContinueKeeps
<1>3. PlacesBut({})
  BY <1>1, <1>2, PlacesOther
<1>4. Owners'
  <2>1. free_bufs' \subseteq Buffers /\ pool' \subseteq Buffers
    BY DEF DeviceTyped
  <2>2. \A k \in Keys : Place'[k] \in {Place[k], None}
    BY <1>3 DEF PlacesBut
  <2>3. free_bufs' \cap pool' = {} /\ \A k \in Keys : Place[k] \notin free_bufs' \cup pool'
    BY <1>0 DEF Discipline, Owners
  <2> QED  BY <2>1, <2>2, <2>3, OwnersShrink
<1> QED  BY <1>2, <1>3, <1>4 DEF Discipline

-----------------------------------------------------------------------------
(* Where an operation's operands are                                       *)

Operands(th) == ({op[th].dst, op[th].src} \ {None}) \cup Held(th)
Loc(th) == Located(op[th].dst, op[th].src, Held(th), temp[th])

LEMMA LocFacts ==
  ASSUME Discipline, NEW th \in Threads, todo[th] # <<>>
  PROVE  /\ Operands(th) \in SUBSET Names /\ Loc(th) \in [Operands(th) -> Buffers] /\ DOMAIN Loc(th) = Operands(th)
         /\ \A x \in Operands(th) : Loc(th)[x] = BufferOf(th, x)
         /\ \A x \in Operands(th) :
              /\ Key(th, x) \in Keys /\ Loc(th)[x] = Place[Key(th, x)]
              /\ Place[Key(th, x)] \in Buffers
         /\ OneToOne(Loc(th))
<1>1. /\ Held(th) \subseteq Temps /\ \A x \in Held(th) : temp[th][x] \in Buffers
      /\ \A x \in ({op[th].dst, op[th].src} \ {None}) : x \in Tensors /\ buffer[x] \in Buffers
  BY Busy
<1>2. Operands(th) \in SUBSET Names
  BY <1>1, NameFacts DEF Operands
<1>3. DOMAIN Loc(th) = Operands(th) /\ \A x \in Operands(th) : Loc(th)[x] = BufferOf(th, x)
  BY DEF Loc, Located, Operands, BufferOf
<1>4. \A x \in Operands(th) : (x \in Temps /\ x \in Held(th)) \/ (x \in Tensors /\ x \notin Temps)
  BY <1>1, NameFacts DEF Operands
<1>5. ASSUME NEW x \in Operands(th)
      PROVE  /\ Key(th, x) \in Keys /\ Loc(th)[x] = Place[Key(th, x)]
             /\ Loc(th)[x] \in Buffers
  <2>1. CASE x \in Temps /\ x \in Held(th)
    <3>1. Key(th, x) = <<th, x>> /\ <<th, x>> \in Keys
      BY <2>1, KeyFacts
    <3>2. Place[<<th, x>>] = temp[th][x]
      BY <2>1, PlaceFacts
    <3> QED  BY <1>1, <1>3, <2>1, <3>1, <3>2 DEF BufferOf
  <2>2. CASE x \in Tensors /\ x \notin Temps
    <3>1. Key(th, x) = x /\ x \in Keys
      BY <2>2, KeyFacts
    <3>2. Place[x] = buffer[x]
      BY <2>2, PlaceFacts
    <3>3. x \in ({op[th].dst, op[th].src} \ {None})
      BY <1>1, <2>2 DEF Operands
    <3> QED  BY <1>1, <1>3, <2>2, <3>1, <3>2, <3>3 DEF BufferOf
  <2> QED  BY <1>4, <2>1, <2>2
<1>6. OneToOne(Loc(th))
  <2> SUFFICES ASSUME NEW x \in Operands(th), NEW y \in Operands(th), Loc(th)[x] = Loc(th)[y]
               PROVE  x = y
    BY <1>3 DEF OneToOne
  <2>1. Place[Key(th, x)] = Place[Key(th, y)] /\ Place[Key(th, x)] # None
        /\ Key(th, x) \in Keys /\ Key(th, y) \in Keys
    BY <1>5, NameFacts
  <2>2. Key(th, x) = Key(th, y)
    BY <2>1 DEF Discipline, Owners
  <2> QED  BY <1>2, <2>2, KeyFacts
<1>7. Loc(th) \in [Operands(th) -> Buffers]
  <2>1. Loc(th) = [x \in Operands(th) |-> Loc(th)[x]]
    BY DEF Loc, Located, Operands
  <2>2. \A x \in Operands(th) : Loc(th)[x] \in Buffers
    BY <1>5
  <2> QED  BY <2>1, <2>2
<1> QED  BY <1>2, <1>3, <1>5, <1>6, <1>7

(* The command of the next step, on the operation's own names.             *)
NextOn(th) == Head(todo[th]).cmd

LEMMA CommandFacts ==
  ASSUME Discipline, NEW th \in Threads, todo[th] # <<>>, Makes(Head(todo[th]))
  PROVE  /\ NextOn(th) \in CommandsOver(Names) /\ Uses(NextOn(th)) \subseteq Operands(th)
         /\ NextOn(th).dst \in ({op[th].dst} \ {None}) \cup Held(th)
         /\ NextOn(th).op = "merge" => NextOn(th).aux \in Temps
         /\ NextCommand(th) = At(Loc(th), NextOn(th)) /\ NextCommand(th) \in CommandsOver(Buffers)
         /\ NextCommand(th).dst = Loc(th)[NextOn(th).dst] /\ NextOn(th).dst \in Operands(th)
         /\ Uses(NextCommand(th)) = {Loc(th)[x] : x \in Uses(NextOn(th))}
         /\ Head(todo[th]).do = "host" =>
              NextOn(th).dst = op[th].dst /\ op[th].dst # None /\ Uses(NextOn(th)) \cap Temps = {}
<1> DEFINE p == todo[th]
           h == Head(p)
           c == h.cmd
           d == op[th].dst
           s == op[th].src
           H == Held(th)
<1>1. /\ d \in Tensors \cup {None} /\ s \in Tensors \cup {None} /\ p \in Seq(AllSteps)
      /\ Fits(p, d, s, H) /\ p # <<>> /\ Makes(h) /\ H \subseteq Temps
  BY Busy
<1>o. Operands(th) = ({d, s} \ {None}) \cup H
  BY DEF Operands
<1> HIDE DEF p, h, c, d, s, H
<1>2. Makes(Head(p)) => Uses(Head(p).cmd) \cap Temps \subseteq H
  BY <1>1, FitsTail
<1>3. Head(p) \in AllSteps /\ IsStep(Head(p), d, s)
  BY <1>1, FitsParts
<1>4. IsStep(h, d, s) /\ h \in AllSteps /\ c = h.cmd /\ Uses(c) \cap Temps \subseteq H
  BY <1>1, <1>2, <1>3 DEF h, c
<1>5. c \in CommandsOver(Names) /\ c.dst \in Uses(c)
  BY <1>1, <1>4, StepFacts
<1>6. /\ c.dst \in ({d} \ {None}) \cup Temps
      /\ Uses(c) \subseteq ({d, s} \ {None}) \cup Temps
      /\ c.op = "merge" => c.aux \in Temps
      /\ h.do = "host" => c.dst = d /\ Uses(c) \cap Temps = {}
  BY <1>1, <1>4 DEF IsStep
<1>7. Uses(c) \subseteq Operands(th) /\ c.dst \in ({d} \ {None}) \cup H
  BY <1>4, <1>5, <1>6, <1>o
<1>8. /\ Operands(th) \in SUBSET Names /\ Loc(th) \in [Operands(th) -> Buffers]
      /\ \A x \in Operands(th) : Loc(th)[x] = BufferOf(th, x)
  BY <1>1, LocFacts DEF p
<1>9. c.dst \in Operands(th) /\ c.src \in Operands(th) /\ (c.op = "merge" => c.aux \in Operands(th))
  BY <1>7 DEF Uses
<1>10. OnBuffers(th, c) = At(Loc(th), c)
  <2>1. BufferOf(th, c.dst) = Loc(th)[c.dst] /\ BufferOf(th, c.src) = Loc(th)[c.src]
        /\ (c.op = "merge" => BufferOf(th, c.aux) = Loc(th)[c.aux])
    BY <1>8, <1>9
  <2> QED  BY <2>1 DEF OnBuffers, At
<1>11. NextCommand(th) = At(Loc(th), c)
  BY <1>10 DEF NextCommand, c, h, p
<1>12. /\ At(Loc(th), c) \in CommandsOver(Buffers) /\ At(Loc(th), c).dst = Loc(th)[c.dst]
       /\ Uses(At(Loc(th), c)) = {Loc(th)[x] : x \in Uses(c)}
  BY <1>5, <1>7, <1>8, AtFacts
<1>13. h.do = "host" => d # None
  BY <1>5, <1>6, <1>7, NameFacts DEF Operands
<1> QED  BY <1>5, <1>6, <1>7, <1>9, <1>11, <1>12, <1>13 DEF NextOn, c, h, p, d, H

-----------------------------------------------------------------------------
(* The actions both backends share keep the discipline                     *)

LEMMA NewStorageDisciplined ==
  ASSUME Discipline, NEW t \in Tensors, NEW b \in Buffers, NEW v \in Contents, NewStorage(t, b, v),
         profiled' = profiled
  PROVE  /\ Discipline' /\ PlacesBut({t}) /\ Place'[t] = b /\ b \in pool /\ buffer[t] = None
<1>1. /\ b \in pool /\ pool' = pool \ {b} /\ free_bufs' = free_bufs
      /\ val[t] = None /\ val' = [val EXCEPT ![t] = v] /\ read' = read
      /\ buffer' = [buffer EXCEPT ![t] = b] /\ mem' = [mem EXCEPT ![b] = v]
      /\ UNCHANGED <<cmds, ctx, op, todo, temp, profiled>>
  BY DEF NewStorage, Take, Create, threads
<1>2. /\ EagerTyped /\ DeviceTyped /\ CallsTyped /\ (\A u \in Threads : Remains(u)) /\ Stored /\ Locked
      /\ val \in [Tensors -> Contents \cup {None}] /\ buffer \in [Tensors -> Buffers \cup {None}]
  BY DEF Discipline, EagerTyped, DeviceTyped
<1>3. EagerTyped' /\ CallsTyped'
  BY <1>1, <1>2 DEF EagerTyped, CallsTyped
<1>4. DeviceTyped'
  BY <1>1, <1>2 DEF DeviceTyped
<1>5. \A u \in Tensors : Live(u) => Live(u)'
  BY <1>1, <1>2, NameFacts DEF Live
<1>6. ASSUME NEW u \in Threads PROVE Remains(u)'
  <2>1. op[u].dst \in Tensors \cup {None} /\ op[u].src \in Tensors \cup {None} /\ Remains(u)
    BY <1>2 DEF CallsTyped, Operations
  <2> QED  BY <1>1, <1>5, <2>1 DEF Remains, Held
<1>7. Stored' /\ Locked'
  <2>1. Locked'
    BY <1>1, <1>2 DEF Locked
  <2>2. b # None /\ v # None
    BY NameFacts
  <2>3. ASSUME NEW u \in Tensors PROVE (Live(u) <=> buffer[u] # None)'
    BY <1>1, <1>2, <2>2 DEF Stored, Live
  <2> QED  BY <2>1, <2>3 DEF Stored
<1>8. PlacesBut({t}) /\ Place'[t] = b
  <2>1. \A k \in Keys : Place'[k] = IF k \in Tensors THEN buffer'[k]
                                    ELSE IF k[2] \in Held(k[1]) THEN temp[k[1]][k[2]] ELSE None
    BY <1>1 DEF Place, Held
  <2>2. \A k \in Keys : Place[k] = IF k \in Tensors THEN buffer[k]
                                   ELSE IF k[2] \in Held(k[1]) THEN temp[k[1]][k[2]] ELSE None
    BY DEF Place
  <2>3. t \in Keys
    BY DEF Keys
  <2> QED  BY <1>1, <1>2, <2>1, <2>2, <2>3 DEF PlacesBut
<1>9. Owners'
  <2>1. t \in Keys /\ \A k \in Keys \ {t} : Place'[k] \in {Place[k], None}
    BY <1>8 DEF PlacesBut, Keys
  <2> QED  BY <1>1, <1>8, <2>1, OwnersTaken
<1>10. buffer[t] = None
  BY <1>1, <1>2 DEF Stored, Live
<1> QED  BY <1>1, <1>3, <1>4, <1>6, <1>7, <1>8, <1>9, <1>10 DEF Discipline

LEMMA DropStorageDisciplined ==
  ASSUME Discipline, NEW t \in Tensors, DropStorage(t), profiled' = profiled
  PROVE  /\ Discipline' /\ PlacesBut({t}) /\ Place'[t] = None
         /\ free_bufs' = free_bufs \cup {Place[t]} /\ Place[t] \in Buffers
<1>1. /\ Unused(t) /\ Live(t) /\ val' = [val EXCEPT ![t] = None] /\ read' = read
      /\ free_bufs' = free_bufs \cup {buffer[t]} /\ buffer' = [buffer EXCEPT ![t] = None]
      /\ UNCHANGED <<mem, cmds, ctx, pool, op, todo, temp, profiled>>
  BY DEF DropStorage, Discard, threads
<1>2. /\ EagerTyped /\ DeviceTyped /\ CallsTyped /\ (\A u \in Threads : Remains(u)) /\ Stored /\ Locked
      /\ val \in [Tensors -> Contents \cup {None}] /\ buffer \in [Tensors -> Buffers \cup {None}]
  BY DEF Discipline, EagerTyped, DeviceTyped
<1>3. buffer[t] \in Buffers
  BY <1>1, <1>2 DEF Stored
<1>4. EagerTyped' /\ CallsTyped' /\ DeviceTyped'
  BY <1>1, <1>2, <1>3 DEF EagerTyped, CallsTyped, DeviceTyped
<1>5. \A u \in Tensors : u # t => (Live(u)' <=> Live(u))
  BY <1>1, <1>2 DEF Live
<1>6. ASSUME NEW u \in Threads PROVE Remains(u)'
  <2>1. op[u].dst \in Tensors \cup {None} /\ op[u].src \in Tensors \cup {None} /\ Remains(u)
    BY <1>2 DEF CallsTyped, Operations
  <2>2. op[u].dst # t /\ op[u].src # t
    BY <1>1 DEF Unused, Readable
  <2> QED  BY <1>1, <1>5, <2>1, <2>2 DEF Remains, Held
<1>7. Stored' /\ Locked'
  <2>1. Locked'
    BY <1>1, <1>2 DEF Locked
  <2>2. ASSUME NEW u \in Tensors PROVE (Live(u) <=> buffer[u] # None)'
    BY <1>1, <1>2 DEF Stored, Live
  <2> QED  BY <2>1, <2>2 DEF Stored
<1>8. PlacesBut({t}) /\ Place'[t] = None /\ t \in Keys /\ Place[t] = buffer[t]
  <2>1. \A k \in Keys : Place'[k] = IF k \in Tensors THEN buffer'[k]
                                    ELSE IF k[2] \in Held(k[1]) THEN temp[k[1]][k[2]] ELSE None
    BY <1>1 DEF Place, Held
  <2>2. \A k \in Keys : Place[k] = IF k \in Tensors THEN buffer[k]
                                   ELSE IF k[2] \in Held(k[1]) THEN temp[k[1]][k[2]] ELSE None
    BY DEF Place
  <2>3. t \in Keys
    BY DEF Keys
  <2> QED  BY <1>1, <1>2, <2>1, <2>2, <2>3 DEF PlacesBut
<1>9. Owners'
  <2>1. t \in Keys /\ Place[t] # None /\ \A k \in Keys \ {t} : Place'[k] \in {Place[k], None}
    BY <1>3, <1>8, NameFacts DEF PlacesBut
  <2> QED  BY <1>1, <1>8, <2>1, OwnersFreed
<1> QED  BY <1>1, <1>3, <1>4, <1>6, <1>7, <1>8, <1>9 DEF Discipline

(* A temporary gets a buffer.                                              *)
Taken(th, b) == [temp[th] EXCEPT ![NextOn(th).dst] = b]

LEMMA AllocFits ==
  ASSUME Discipline, NEW th \in Threads, todo[th] # <<>>, Allocates(Head(todo[th])), NEW b \in Buffers
  PROVE  /\ Fits(Tail(todo[th]), op[th].dst, op[th].src, HeldIn(Tail(todo[th]), Taken(th, b)))
         /\ HeldIn(Tail(todo[th]), Taken(th, b)) = Held(th) \cup {NextOn(th).dst}
         /\ NextOn(th).dst \in Temps \ Held(th) /\ NextOn(th).val \in Contents
         /\ NextOn(th) = Fill(NextOn(th).dst, NextOn(th).val)
         /\ Taken(th, b) \in [Temps -> Buffers \cup {None}] /\ Taken(th, b)[NextOn(th).dst] = b
         /\ \A x \in Held(th) : Taken(th, b)[x] = temp[th][x]
<1> DEFINE p == todo[th]
           h == Head(p)
           H == Held(th)
           T == temp[th]
           d == op[th].dst
           s == op[th].src
           x == h.cmd.dst
           U == [T EXCEPT ![x] = b]
<1>1. /\ d \in Tensors \cup {None} /\ s \in Tensors \cup {None} /\ p \in Seq(AllSteps) /\ p # <<>>
      /\ Fits(p, d, s, H) /\ H = HeldIn(p, T) /\ H \subseteq Temps
      /\ T \in [Temps -> Buffers \cup {None}] /\ Allocates(h) /\ b # None
  BY Busy, NameFacts
<1>2. h.do # "defer"
  BY <1>1, KindFacts
<1>u. NextOn(th) = h.cmd /\ Taken(th, b) = U /\ U = [T EXCEPT ![x] = b] /\ x = h.cmd.dst
  BY DEF NextOn, Taken
<1>h. h = Head(p)
  OBVIOUS
<1> HIDE DEF p, h, H, T, d, s, x, U
<1>3. /\ Fits(Tail(p), d, s, HeldAfter(Head(p), H))
      /\ Allocates(Head(p)) => Head(p).cmd.dst \in Deferred(Tail(p)) \ H
      /\ Head(p).do # "defer" => Deferred(Tail(p)) = Deferred(p)
  BY <1>1, FitsTail
<1>4. Head(p) \in AllSteps /\ IsStep(Head(p), d, s)
  BY <1>1, FitsParts
<1>5. x \in Temps /\ h.cmd.val \in Contents /\ h.cmd = Fill(x, h.cmd.val)
  <2>1. h \in AllSteps /\ IsStep(h, d, s)
    BY <1>4, <1>h
  <2>2. h.cmd.dst \in Temps /\ h.cmd.val \in Contents /\ h.cmd = Fill(h.cmd.dst, h.cmd.val)
    BY <1>1, <2>1, StepFacts
  <2> QED  BY <1>u, <2>2
<1>6. x \in Deferred(Tail(p)) /\ x \notin H /\ Deferred(Tail(p)) = Deferred(p)
  BY <1>1, <1>2, <1>3, <1>h, <1>u
<1>7. /\ U \in [Temps -> Buffers \cup {None}] /\ U[x] = b
      /\ \A y \in Temps : y # x => U[y] = T[y]
  BY <1>1, <1>5, <1>u
<1>8. \A y \in Deferred(p) : y \in Temps
  <2>1. \A i \in DOMAIN p : p[i].do = "defer" => p[i].cmd.dst \in Temps
    <3>1. \A i \in DOMAIN p : p[i] \in AllSteps /\ IsStep(p[i], d, s)
      BY <1>1 DEF Fits
    <3> QED  BY <1>1, <3>1, StepFacts
  <2> QED  BY <2>1, CountedFacts
<1>9. HeldIn(Tail(p), U) = H \cup {x}
  <2>1. HeldIn(Tail(p), U) = {y \in Deferred(p) : U[y] # None}
    BY <1>6 DEF HeldIn
  <2>2. H = {y \in Deferred(p) : T[y] # None}
    BY <1>1 DEF HeldIn
  <2> QED  BY <1>1, <1>6, <1>7, <1>8, <2>1, <2>2
<1>10. HeldAfter(Head(p), H) = H \cup {x}
  BY <1>1, <1>h, <1>u DEF HeldAfter
<1>11. \A y \in H : U[y] = T[y]
  BY <1>1, <1>6, <1>7
<1>12. /\ Fits(Tail(p), d, s, HeldIn(Tail(p), U)) /\ HeldIn(Tail(p), U) = H \cup {x}
       /\ x \in Temps \ H /\ h.cmd.val \in Contents /\ h.cmd = Fill(x, h.cmd.val)
       /\ U \in [Temps -> Buffers \cup {None}] /\ U[x] = b /\ \A y \in H : U[y] = T[y]
  BY <1>3, <1>5, <1>6, <1>7, <1>9, <1>10, <1>11
<1>13. NextOn(th).dst = x
  BY <1>u
<1> QED  BY <1>12, <1>13, <1>u DEF p, H, T, d, s

LEMMA AllocTempDisciplined ==
  ASSUME Discipline, NEW th \in Threads, NEW b \in Buffers, AllocTemp(th, b), profiled' = profiled
  PROVE  /\ Discipline' /\ todo[th] # <<>> /\ Allocates(Head(todo[th]))
         /\ Going(th, Tail(todo[th]), op[th].result, Taken(th, b))
         /\ PlacesBut({<<th, NextOn(th).dst>>}) /\ Place'[<<th, NextOn(th).dst>>] = b /\ b \in pool
<1> DEFINE x == NextOn(th).dst
           q == Tail(todo[th])
           T == Taken(th, b)
<1>1. /\ todo[th] # <<>> /\ Allocates(Head(todo[th]))
      /\ b \in pool /\ pool' = pool \ {b} /\ free_bufs' = free_bufs
      /\ Continue(th, q, op[th].result, T)
      /\ \E v \in Contents : mem' = [mem EXCEPT ![b] = v]
      /\ UNCHANGED <<cmds, ctx, buffer, profiled>>
  BY DEF AllocTemp, Take, NextOn, Taken
<1>2. /\ Fits(q, op[th].dst, op[th].src, HeldIn(q, T)) /\ HeldIn(q, T) = Held(th) \cup {x}
      /\ x \in Temps \ Held(th) /\ T \in [Temps -> Buffers \cup {None}] /\ T[x] = b
      /\ \A y \in Held(th) : T[y] = temp[th][y]
  BY <1>1, AllocFits
<1>3. q \in Seq(AllSteps) /\ op[th].result \in Contents
  BY <1>1, Busy
<1> HIDE DEF q, T, x
<1>4. Going(th, q, op[th].result, T)
  BY <1>1, <1>2, <1>3 DEF Going
<1>5. /\ EagerTyped' /\ CallsTyped' /\ (\A u \in Threads : Remains(u)') /\ Stored' /\ Locked'
      /\ PlacesOf(th, q, T)
  BY <1>4, ContinueKeeps
<1>6. PlacesBut({<<th, x>>})
  BY <1>2, <1>5, PlacesOther
<1>7. Place'[<<th, x>>] = b
  BY <1>2, <1>5 DEF PlacesOf
<1>8. Owners'
  <2>1. <<th, x>> \in Keys /\ \A k \in Keys \ {<<th, x>>} : Place'[k] \in {Place[k], None}
    BY <1>2, <1>6, KeyFacts DEF PlacesBut
  <2> QED  BY <1>1, <1>7, <2>1, OwnersTaken
<1>9. DeviceTyped'
  <2>1. DeviceTyped
    BY DEF Discipline
  <2> QED  BY <1>1, <2>1 DEF DeviceTyped
<1> QED  BY <1>1, <1>4, <1>5, <1>6, <1>7, <1>8, <1>9 DEF Discipline, q, T, x

LEMMA AllocFailsDisciplined ==
  ASSUME Discipline, NEW th \in Threads, AllocFails(th), profiled' = profiled
  PROVE  /\ Discipline' /\ PlacesBut({}) /\ todo[th] # <<>> /\ Allocates(Head(todo[th]))
         /\ Abort(th) /\ UNCHANGED <<mem, cmds, ctx, bufs>>
<1>1. /\ todo[th] # <<>> /\ Allocates(Head(todo[th])) /\ Abort(th)
      /\ UNCHANGED <<mem, cmds, ctx, bufs>>
  BY DEF AllocFails
<1>2. DeviceTyped'
  BY <1>1 DEF Discipline, DeviceTyped, bufs
<1> QED  BY <1>1, <1>2, AbortDisciplined

LEMMA HostDisciplined ==
  ASSUME Discipline, NEW th \in Threads, HostAccess(th), profiled' = profiled
  PROVE  /\ Discipline' /\ PlacesBut({}) /\ todo[th] # <<>> /\ Advance(th)
         /\ Head(todo[th]).do \in {"host", "data"} /\ UNCHANGED <<cmds, ctx, bufs>>
         /\ mem' = IF Head(todo[th]).do = "host" THEN Exec(mem, NextCommand(th)) ELSE mem
<1>1. /\ todo[th] # <<>> /\ Advance(th) /\ Head(todo[th]).do \in {"host", "data"}
      /\ UNCHANGED <<cmds, ctx, bufs>>
      /\ mem' = IF Head(todo[th]).do = "host" THEN Exec(mem, NextCommand(th)) ELSE mem
  BY DEF HostAccess, Next1
<1>2. Head(todo[th]).do = "host" => NextCommand(th) \in CommandsOver(Buffers)
  BY <1>1, KindFacts, CommandFacts
<1>3. DeviceTyped'
  <2>1. DeviceTyped /\ mem \in [Buffers -> Contents]
    BY DEF Discipline, DeviceTyped
  <2>2. mem' \in [Buffers -> Contents]
    BY <1>1, <1>2, <2>1, ExecType
  <2> QED  BY <1>1, <2>1, <2>2 DEF DeviceTyped, bufs
<1>4. ~Allocates(Head(todo[th])) /\ Head(todo[th]).do # "defer"
  BY <1>1, KindFacts
<1>5. buffer' = buffer /\ free_bufs' = free_bufs /\ pool' = pool
  BY <1>1 DEF bufs
<1>6. free_bufs' \cap pool' = {} /\ \A k \in Keys : Place[k] \notin free_bufs' \cup pool'
  BY <1>5 DEF Discipline, Owners
<1> QED  BY <1>1, <1>3, <1>4, <1>5, <1>6, AdvanceDisciplined

LEMMA ValuesTyped == Discipline => Values \in [Names -> Contents]
<1> SUFFICES ASSUME Discipline PROVE Values \in [Names -> Contents]
  OBVIOUS
<1>1. val \in [Tensors -> Contents \cup {None}]
  BY DEF Discipline, EagerTyped
<1>2. Values = [x \in Names |-> IF x \in Tensors /\ Live(x) THEN val[x] ELSE 0]
  BY DEF Values, Names
<1>3. \A x \in Names : (IF x \in Tensors /\ Live(x) THEN val[x] ELSE 0) \in Contents
  BY <1>1, NameFacts DEF Live
<1> QED  BY <1>2, <1>3

LEMMA BeginDisciplined ==
  ASSUME Discipline, NEW th \in Threads, NEW d, NEW s, NEW p, Begin(th, d, s, p), Program(p, d, s),
         profiled' = profiled
  PROVE  /\ Discipline' /\ PlacesBut({}) /\ todo[th] = <<>>
         /\ todo' = [todo EXCEPT ![th] = p]
         /\ op' = [op EXCEPT ![th] = [dst |-> d, src |-> s, result |-> IF d = None THEN 0 ELSE Run(Values, p)[d]]]
         /\ UNCHANGED <<val, read, mem, cmds, ctx, free_bufs, pool, buffer, temp>>
         /\ Held(th)' = {}
<1> DEFINE r == IF d = None THEN 0 ELSE Run(Values, p)[d]
<1>1. /\ todo[th] = <<>> /\ p # <<>>
      /\ d # None => Unused(d)
      /\ s # None => Readable(s)
      /\ todo' = [todo EXCEPT ![th] = p]
      /\ op' = [op EXCEPT ![th] = [dst |-> d, src |-> s, result |-> r]]
      /\ UNCHANGED <<val, read, mem, cmds, ctx, free_bufs, pool, buffer, temp>>
  BY DEF Begin, eager, bufs
<1>2. /\ d \in Tensors \cup {None} /\ s \in Tensors \cup {None} /\ (d = s => d = None)
      /\ Fits(p, d, s, {})
  BY DEF Program
<1>3. Sound(p) /\ p \in Seq(AllSteps)
  BY <1>2, FitsSound DEF Sound
<1>4. r \in Contents
  <2>1. Run(Values, p) \in [Names -> Contents]
    BY <1>3, ValuesTyped, RunType
  <2> QED  BY <1>2, <2>1, NameFacts
<1> HIDE DEF r
<1>5. /\ EagerTyped /\ DeviceTyped /\ CallsTyped /\ (\A u \in Threads : Remains(u)) /\ Stored /\ Locked
      /\ op \in [Threads -> Operations] /\ todo \in [Threads -> Seq(AllSteps)]
      /\ temp[th] = [x \in Temps |-> None]
  BY <1>1 DEF Discipline, CallsTyped, Remains
<1>6. /\ todo'[th] = p /\ temp'[th] = temp[th]
      /\ op'[th].dst = d /\ op'[th].src = s /\ op'[th] \in Operations
      /\ \A u \in Threads : u # th => todo'[u] = todo[u] /\ op'[u] = op[u]
  BY <1>1, <1>2, <1>4, <1>5 DEF Operations
<1>7. EagerTyped' /\ DeviceTyped' /\ Stored'
  BY <1>1, <1>5 DEF EagerTyped, DeviceTyped, Stored, Live, Discipline
<1>8. CallsTyped'
  <2>1. op' \in [Threads -> Operations]
    BY <1>1, <1>5, <1>6
  <2>2. todo' \in [Threads -> Seq(AllSteps)]
    BY <1>1, <1>3, <1>5
  <2> QED  BY <1>1, <1>5, <2>1, <2>2 DEF CallsTyped
<1>9. Held(th)' = {}
  <2>1. Held(th)' = HeldIn(p, temp[th])
    BY <1>1, <1>6 DEF Held
  <2>2. \A x \in Deferred(p) : x \in Temps
    <3>1. \A i \in DOMAIN p : p[i] \in AllSteps /\ IsStep(p[i], d, s)
      BY <1>2, <1>3 DEF Fits
    <3>2. \A i \in DOMAIN p : p[i].do = "defer" => p[i].cmd.dst \in Temps
      BY <1>2, <3>1, StepFacts
    <3> QED  BY <3>2, CountedFacts
  <2> QED  BY <1>5, <2>1, <2>2 DEF HeldIn
<1>10. \A u \in Threads : u # th => Held(u)' = Held(u)
  BY <1>1, <1>6 DEF Held
<1>11. ASSUME NEW u \in Threads PROVE Remains(u)'
  <2>1. CASE u # th
    <3>1. Remains(u) /\ op[u].dst \in Tensors \cup {None} /\ op[u].src \in Tensors \cup {None}
      BY <1>5 DEF Operations
    <3> QED  BY <1>1, <1>6, <1>10, <2>1, <3>1 DEF Remains, Live
  <2>2. CASE u = th
    <3>1. (d # None => Live(d)) /\ (s # None => Live(s))
      BY <1>1 DEF Unused, Readable
    <3> QED  BY <1>1, <1>2, <1>6, <1>9, <2>2, <3>1 DEF Remains, Live
  <2> QED  BY <2>1, <2>2
<1>12. Locked'
  <2> SUFFICES ASSUME NEW u \in Threads, NEW w \in Threads, u # w, op'[u].dst # None
               PROVE  op'[w].dst # op'[u].dst /\ op'[w].src # op'[u].dst
    BY DEF Locked
  <2>1. CASE u = th
    <3>1. Unused(d) /\ d # None
      BY <1>1, <1>6, <2>1
    <3> QED  BY <1>6, <2>1, <3>1 DEF Unused, Readable
  <2>2. CASE w = th
    <3>1. op'[u].dst = op[u].dst /\ op[u].dst # None
      BY <1>6, <2>2
    <3>2. d # op[u].dst
      BY <1>1, <3>1 DEF Unused, Readable
    <3>3. s # op[u].dst
      BY <1>1, <3>1 DEF Readable
    <3> QED  BY <1>6, <2>2, <3>1, <3>2, <3>3
  <2>3. CASE u # th /\ w # th
    BY <1>5, <1>6, <2>3 DEF Locked
  <2> QED  BY <2>1, <2>2, <2>3
<1>13. \A k \in Keys : Place'[k] = Place[k]
  <2>1. Held(th) = {}
    BY <1>1, CountedEmpty DEF Held, HeldIn
  <2>2. \A u \in Threads : Held(u)' = Held(u)
    BY <1>9, <1>10, <2>1
  <2>3. \A k \in Keys : k \notin Tensors => k[1] \in Threads
    BY DEF Keys
  <2> QED  BY <1>1, <2>2, <2>3 DEF Place, Keys
<1>14. Owners'
  BY <1>1, <1>13 DEF Discipline, Owners
<1> QED  BY <1>1, <1>7, <1>8, <1>9, <1>11, <1>12, <1>13, <1>14 DEF Discipline, PlacesBut, r

LEMMA InitDisciplined == SharedInit => Discipline
<1> SUFFICES ASSUME SharedInit PROVE Discipline
  OBVIOUS
<1> USE NameFacts DEF SharedInit
<1>1. EagerTyped
  BY DEF EagerTyped, EagerInit
<1>2. DeviceTyped
  BY EmptySeq DEF DeviceTyped
<1>3. NoOp \in Operations
  BY DEF NoOp, Operations
<1>4. CallsTyped
  BY <1>3, EmptySeq DEF CallsTyped
<1>5. \A th \in Threads : Remains(th)
  BY DEF Remains
<1>6. Stored /\ Locked
  BY DEF Stored, Locked, Live, EagerInit, NoOp
<1>7. \A k \in Keys : Place[k] = None
  <2>1. \A k \in Keys : k \notin Tensors => k[1] \in Threads /\ Held(k[1]) = {}
    BY CountedEmpty DEF Keys, Held, HeldIn
  <2> QED  BY <2>1 DEF Place
<1>8. Owners
  BY <1>7 DEF Owners
<1> QED  BY <1>1, <1>2, <1>4, <1>5, <1>6, <1>8 DEF Discipline

-----------------------------------------------------------------------------
(* What memory will hold stays what the operations are to make of it       *)

LEMMA LocatedIsLoc == \A th : Loc(th) = Located(op[th].dst, op[th].src, Held(th), temp[th])
BY DEF Loc

(* What an operation is to change: its output and its temporaries.         *)
Own(th) == ({op[th].dst} \cap Tensors) \cup ({th} \X Temps)
SameBut(K, S, S2) == \A k \in Keys \ K : Place[k] # None => S2[Place[k]] = S[Place[k]]

(* The operands of another thread are not among them.                      *)
LEMMA OthersKeep ==
  ASSUME Discipline, NEW th \in Threads, NEW S, NEW S2, SameBut(Own(th), S, S2),
         NEW u \in Threads, u # th, todo[u] # <<>>
  PROVE  /\ \A x \in Operands(u) : S2[Loc(u)[x]] = S[Loc(u)[x]]
         /\ op[u].dst # None => S2[buffer[op[u].dst]] = S[buffer[op[u].dst]]
<1>1. /\ Operands(u) \in SUBSET Names
      /\ \A x \in Operands(u) : /\ Key(u, x) \in Keys /\ Loc(u)[x] = Place[Key(u, x)]
                                /\ Place[Key(u, x)] \in Buffers
  BY LocFacts
<1>2. ASSUME NEW x \in Operands(u) PROVE Key(u, x) \notin Own(th)
  <2>1. Held(u) \subseteq Temps
    BY Busy
  <2>2. CASE x \in Temps
    <3>1. Key(u, x) = <<u, x>> /\ <<u, x>> \notin Tensors
      BY <2>2, KeyFacts
    <3> QED  BY <3>1 DEF Own
  <2>3. CASE x \notin Temps
    <3>1. x \in {op[u].dst, op[u].src} /\ x \in Tensors /\ Key(u, x) = x
      BY <1>1, <2>1, <2>3 DEF Operands, Names, Key
    <3>2. x # op[th].dst
      <4>1. op[th].dst \in Tensors => op[th].dst # None
        BY NameFacts
      <4>2. op[th].dst # None => op[u].dst # op[th].dst /\ op[u].src # op[th].dst
        BY DEF Discipline, Locked
      <4> QED  BY <3>1, <4>1, <4>2
    <3>3. x \notin {th} \X Temps
      BY <3>1, KeyFacts
    <3> QED  BY <3>1, <3>2, <3>3 DEF Own
  <2> QED  BY <2>2, <2>3
<1>3. \A x \in Operands(u) : S2[Loc(u)[x]] = S[Loc(u)[x]]
  BY <1>1, <1>2, NameFacts DEF SameBut
<1>4. ASSUME op[u].dst # None PROVE S2[buffer[op[u].dst]] = S[buffer[op[u].dst]]
  <2>1. op[u].dst \in Operands(u) /\ op[u].dst \in Tensors
    BY <1>4, Busy DEF Operands
  <2>2. Loc(u)[op[u].dst] = buffer[op[u].dst]
    BY <2>1, LocFacts, NameFacts DEF BufferOf
  <2> QED  BY <1>3, <2>1, <2>2
<1> QED  BY <1>3, <1>4

(* Nor are the storages that no operation writes.                          *)
LEMMA SettledKeep ==
  ASSUME Discipline, NEW th \in Threads, NEW S, NEW S2, SameBut(Own(th), S, S2),
         NEW t \in Tensors, Live(t), op[th].dst # t
  PROVE  S2[buffer[t]] = S[buffer[t]]
<1>1. t \in Keys /\ Place[t] = buffer[t]
  BY PlaceFacts
<1>2. buffer[t] # None
  BY DEF Discipline, Stored
<1>3. t \notin Own(th)
  BY KeyFacts DEF Own
<1> QED  BY <1>1, <1>2, <1>3 DEF SameBut

(* Memory may change where no one has a buffer.                            *)
LEMMA SameSettles ==
  ASSUME Discipline, NEW R, NEW S, NEW S2, Agreement(R, S), SameBut({}, S, S2)
  PROVE  Agreement(R, S2)
<1>1. \A th : SameBut(Own(th), S, S2)
  BY DEF SameBut
<1>2. Settles(S2)
  <2>1. \A t \in Tensors : Live(t) => S2[buffer[t]] = S[buffer[t]]
    BY PlaceFacts DEF SameBut, Discipline, Stored
  <2> QED  BY <2>1 DEF Agreement, Settles
<1>3. ASSUME NEW u \in Threads, op[u].dst # None PROVE Due(u, R[u], S2) /\ Intact(u, R[u], S2)
  <2>1. todo[u] # <<>>
    BY <1>3, Idle
  <2>2. Due(u, R[u], S) /\ Intact(u, R[u], S)
    BY DEF Agreement
  <2>3. \A x \in Operands(u) : S2[Loc(u)[x]] = S[Loc(u)[x]]
    BY <2>1, LocFacts, NameFacts DEF SameBut
  <2>4. S2[buffer[op[u].dst]] = S[buffer[op[u].dst]]
    <3>1. op[u].dst \in Tensors /\ buffer[op[u].dst] \in Buffers
      BY <1>3, <2>1, Busy
    <3> QED  BY <3>1, PlaceFacts, NameFacts DEF SameBut
  <2>5. DOMAIN Loc(u) = Operands(u)
    BY <2>1, LocFacts
  <2>6. Delivers(R[u], op[u].dst, op[u].result, Loc(u), S)
    BY <1>3, <2>2 DEF Due, Loc
  <2>7. Delivers(R[u], op[u].dst, op[u].result, Loc(u), S2)
    BY <2>3, <2>5, <2>6, DeliversSame
  <2> QED  BY <2>2, <2>4, <2>7 DEF Due, Loc, Intact
<1>4. ASSUME NEW u \in Threads, op[u].dst = None PROVE Due(u, R[u], S2) /\ Intact(u, R[u], S2)
  BY <1>4 DEF Due, Intact
<1> QED  BY <1>2, <1>3, <1>4 DEF Agreement

(* The next command is recorded, or carried out.                           *)
LEMMA MadeKeeps ==
  ASSUME Discipline, NEW th \in Threads, todo[th] # <<>>, Makes(Head(todo[th])),
         NEW S \in [Buffers -> Contents]
  PROVE  /\ SameBut(Own(th), S, Exec(S, NextCommand(th))) /\ Exec(S, NextCommand(th)) \in [Buffers -> Contents]
         /\ \A b \in Buffers : b # NextCommand(th).dst => Exec(S, NextCommand(th))[b] = S[b]
         /\ NextOn(th).dst # op[th].dst /\ op[th].dst # None =>
              Exec(S, NextCommand(th))[buffer[op[th].dst]] = S[buffer[op[th].dst]]
<1> DEFINE c == NextOn(th)
           a == NextCommand(th)
<1>1. /\ a \in CommandsOver(Buffers) /\ a.dst = Loc(th)[c.dst]
      /\ c.dst \in Operands(th) /\ c.dst \in ({op[th].dst} \ {None}) \cup Held(th)
  BY CommandFacts
<1> HIDE DEF a, c
<1>2. Exec(S, a) \in [Buffers -> Contents] /\ Exec(S, a) = [b \in Buffers |-> IF b = a.dst THEN Result(S, a) ELSE S[b]]
  BY <1>1, ExecType
<1>3. Key(th, c.dst) \in Keys /\ a.dst = Place[Key(th, c.dst)] /\ Place[Key(th, c.dst)] \in Buffers
  BY <1>1, LocFacts
<1>4. Key(th, c.dst) \in Own(th)
  <2>1. Held(th) \subseteq Temps /\ (op[th].dst # None => op[th].dst \in Tensors)
    BY Busy
  <2>2. CASE c.dst \in Temps
    <3>1. Key(th, c.dst) = <<th, c.dst>>
      BY <2>2, KeyFacts
    <3> QED  BY <2>2, <3>1 DEF Own
  <2>3. CASE c.dst \notin Temps
    <3>1. c.dst = op[th].dst /\ c.dst \in Tensors
      BY <1>1, <2>1, <2>3
    <3> QED  BY <3>1, KeyFacts DEF Own
  <2> QED  BY <2>2, <2>3
<1>5. ASSUME NEW k \in Keys \ Own(th), Place[k] # None PROVE Exec(S, a)[Place[k]] = S[Place[k]]
  <2>1. Place[k] # Place[Key(th, c.dst)]
    BY <1>3, <1>4, <1>5 DEF Discipline, Owners
  <2>2. Place[k] \in Buffers
    BY <1>5, PlaceFacts
  <2> QED  BY <1>2, <1>3, <2>1, <2>2
<1>6. ASSUME c.dst # op[th].dst, op[th].dst # None
      PROVE  Exec(S, a)[buffer[op[th].dst]] = S[buffer[op[th].dst]]
  <2>1. op[th].dst \in Operands(th) /\ op[th].dst \in Tensors
    BY <1>6, Busy DEF Operands
  <2>2. Loc(th)[op[th].dst] = buffer[op[th].dst] /\ Loc(th)[op[th].dst] \in Buffers
    BY <2>1, LocFacts, NameFacts DEF BufferOf
  <2>3. Loc(th)[op[th].dst] # Loc(th)[c.dst]
    BY <1>1, <1>6, <2>1, LocFacts DEF OneToOne
  <2> QED  BY <1>1, <1>2, <2>2, <2>3
<1> QED  BY <1>2, <1>5, <1>6 DEF SameBut, a, c

LEMMA MadeSettles ==
  ASSUME Discipline, NEW R, NEW R2, NEW S \in [Buffers -> Contents], Agreement(R, S),
         NEW th \in Threads, todo[th] # <<>>, R[th] = todo[th], Makes(Head(todo[th])),
         R2[th] = Tail(todo[th]), \A u \in Threads \ {th} : R2[u] = R[u]
  PROVE  Agreement(R2, Exec(S, NextCommand(th)))
<1> DEFINE S2 == Exec(S, NextCommand(th))
           d == op[th].dst
           p == todo[th]
<1>1. /\ SameBut(Own(th), S, S2)
      /\ NextOn(th).dst # d /\ d # None => S2[buffer[d]] = S[buffer[d]]
  BY MadeKeeps
<1>2. /\ NextOn(th) \in CommandsOver(Names) /\ Uses(NextOn(th)) \subseteq Operands(th)
      /\ S2 = Exec(S, At(Loc(th), NextOn(th)))
  BY CommandFacts
<1>3. /\ Fits(p, d, op[th].src, Held(th)) /\ d \in Tensors \cup {None} /\ op[th].src \in Tensors \cup {None}
      /\ p \in Seq(AllSteps)
  BY Busy
<1> HIDE DEF S2
<1>4. Settles(S2)
  BY <1>1, SettledKeep DEF Agreement, Settles
<1>5. ASSUME NEW u \in Threads, u # th PROVE Due(u, R2[u], S2) /\ Intact(u, R2[u], S2)
  <2>1. Due(u, R2[u], S) /\ Intact(u, R2[u], S)
    BY <1>5 DEF Agreement
  <2>2. CASE op[u].dst = None
    BY <2>2 DEF Due, Intact
  <2>3. CASE op[u].dst # None
    <3>1. todo[u] # <<>>
      BY <2>3, Idle
    <3>2. /\ \A x \in Operands(u) : S2[Loc(u)[x]] = S[Loc(u)[x]]
          /\ S2[buffer[op[u].dst]] = S[buffer[op[u].dst]]
      BY <1>1, <1>5, <2>3, <3>1, OthersKeep
    <3>3. DOMAIN Loc(u) = Operands(u)
      BY <3>1, LocFacts
    <3>4. Delivers(R2[u], op[u].dst, op[u].result, Loc(u), S)
      BY <2>1, <2>3 DEF Due, Loc
    <3>5. Delivers(R2[u], op[u].dst, op[u].result, Loc(u), S2)
      BY <3>2, <3>3, <3>4, DeliversSame
    <3> QED  BY <2>1, <3>2, <3>5 DEF Due, Loc, Intact
  <2> QED  BY <2>2, <2>3
<1>6. ASSUME d # None PROVE Due(th, R2[th], S2) /\ Intact(th, R2[th], S2)
  <2>1. /\ Operands(th) \in SUBSET Names /\ Loc(th) \in [Operands(th) -> Buffers] /\ OneToOne(Loc(th))
    BY LocFacts
  <2>2. d \in Operands(th)
    BY <1>6 DEF Operands
  <2>3. Delivers(p, d, op[th].result, Loc(th), S) /\ Intact(th, p, S)
    BY <1>6 DEF Agreement, Due, Loc
  <2>4. Sound(p)
    BY <1>3, FitsSound
  <2> DEFINE L == Loc(th)
             K == Operands(th)
             r == op[th].result
             c == NextOn(th)
  <2>5. /\ K \in SUBSET Names /\ L \in [K -> Buffers] /\ OneToOne(L) /\ d \in K /\ Sound(p) /\ p # <<>>
        /\ Makes(Head(p)) /\ Head(p).cmd = c /\ Uses(c) \subseteq K /\ Delivers(p, d, r, L, S) /\ S2 = Exec(S, At(L, c))
    BY <1>2, <2>1, <2>2, <2>3, <2>4 DEF NextOn
  <2> HIDE DEF L, K, r, c, p, d
  <2>6. Delivers(Tail(p), d, r, L, S2)
    BY <2>5, DeliversMade
  <2>7. Due(th, Tail(p), S2)
    BY <2>6 DEF Due, L, r, d, Loc
  <2>8. Intact(th, Tail(p), S2)
    <3> SUFFICES ASSUME Allocated(Tail(p)) # {} PROVE S2[buffer[d]] = val[d]
      BY DEF Intact, d
    <3>1. Allocated(p) # {}
      BY <1>3, <2>5, CountedTail
    <3>2. S[buffer[d]] = val[d]
      BY <1>6, <2>3, <3>1 DEF Intact, d
    <3>3. PICK j \in DOMAIN Tail(p) : Allocates(Tail(p)[j])
      BY CountedFacts
    <3>4. c.dst # d
      BY <1>3, <2>5, <3>3, FitsParts
    <3> QED  BY <1>1, <1>6, <3>2, <3>4 DEF c
  <2> QED  BY <2>7, <2>8 DEF p
<1>7. ASSUME d = None PROVE Due(th, R2[th], S2) /\ Intact(th, R2[th], S2)
  BY <1>7 DEF Due, Intact
<1> QED  BY <1>4, <1>5, <1>6, <1>7 DEF Agreement, S2

(* A step that makes nothing and holds the same temporaries.               *)
LEMMA SkipSettles ==
  ASSUME Discipline, NEW R, NEW R2, NEW S, Agreement(R, S),
         NEW th \in Threads, todo[th] # <<>>, R[th] = todo[th],
         Head(todo[th]).do \in {"flush", "flushused", "data"},
         R2[th] = Tail(todo[th]), \A u \in Threads \ {th} : R2[u] = R[u]
  PROVE  Agreement(R2, S)
<1>1. todo[th] \in Seq(AllSteps) /\ ~Makes(Head(todo[th])) /\ Head(todo[th]).do # "scratch"
  BY Busy, KindFacts
<1>2. Due(th, todo[th], S) => Due(th, Tail(todo[th]), S)
  <2> SUFFICES ASSUME Due(th, todo[th], S), op[th].dst # None PROVE Due(th, Tail(todo[th]), S)
    BY DEF Due
  <2>1. Delivers(todo[th], op[th].dst, op[th].result, Loc(th), S)
    BY DEF Due, Loc
  <2>2. Delivers(Tail(todo[th]), op[th].dst, op[th].result, Loc(th), S)
    BY <1>1, <2>1, DeliversSkipped
  <2> QED  BY <2>2 DEF Due, Loc
<1>3. Allocated(Tail(todo[th])) \subseteq Allocated(todo[th])
  BY <1>1, CountedTail
<1> QED  BY <1>2, <1>3 DEF Agreement, Intact

(* An operation goes on, with its own part of memory changed, or returns.  *)
LEMMA ContinueAgrees ==
  ASSUME Discipline, NEW R, NEW R2, NEW S, NEW S2 \in [Buffers -> Contents], Agreement(R, S),
         NEW th \in Threads, NEW q, NEW r, NEW T, Going(th, q, r, T),
         HeldIn(q, T) \subseteq Temps, \A x \in HeldIn(q, T) : T[x] \in Buffers,
         q = <<>> => HeldIn(q, T) = {},
         SameBut(Own(th), S, S2), R2[th] = q, \A u \in Threads \ {th} : R2[u] = R[u],
         op[th].dst # None =>
           /\ Delivers(q, op[th].dst, r, Located(op[th].dst, op[th].src, HeldIn(q, T), T), S2)
           /\ Allocated(q) # {} => S2[buffer[op[th].dst]] = val[op[th].dst]
  PROVE  Agreement(R2, S2)'
<1> DEFINE d == op[th].dst
           s == op[th].src
           H == HeldIn(q, T)
           L == Located(d, s, H, T)
<1>1. /\ todo' = [todo EXCEPT ![th] = q]
      /\ op' = [op EXCEPT ![th] = IF q = <<>> THEN NoOp ELSE [@ EXCEPT !.result = r]]
      /\ temp' = [temp EXCEPT ![th] = IF q = <<>> THEN [x \in Temps |-> None] ELSE T]
      /\ val' = IF q = <<>> /\ d # None THEN [val EXCEPT ![d] = r] ELSE val
      /\ buffer' = buffer
  BY ContinueChanges
<1>2. /\ todo[th] # <<>> /\ q \in Seq(AllSteps) /\ r \in Contents
  BY DEF Going
<1>3. /\ d \in Tensors \cup {None} /\ s \in Tensors \cup {None}
      /\ \A x \in ({d, s} \ {None}) : x \in Tensors /\ buffer[x] \in Buffers /\ val[x] \in Contents
  BY <1>2, Busy
<1>4. /\ val \in [Tensors -> Contents \cup {None}] /\ DOMAIN op = Threads /\ DOMAIN todo = Threads
      /\ DOMAIN temp = Threads /\ DOMAIN op[th] = {"dst", "src", "result"}
  BY DEF Discipline, EagerTyped, CallsTyped, Operations
<1>5. /\ op'[th].dst = IF q = <<>> THEN None ELSE d
      /\ q # <<>> => op'[th].src = s /\ op'[th].result = r /\ temp'[th] = T
      /\ todo'[th] = q
      /\ \A u \in Threads : u # th => todo'[u] = todo[u] /\ temp'[u] = temp[u] /\ op'[u] = op[u]
  BY <1>1, <1>4 DEF NoOp
<1>6. L = [x \in ({d, s} \ {None}) \cup H |-> IF x \in Temps THEN T[x] ELSE buffer[x]]
  BY DEF Located
<1>7. /\ ({d, s} \ {None}) \cup H \in SUBSET Names /\ DOMAIN L = ({d, s} \ {None}) \cup H
      /\ L \in [({d, s} \ {None}) \cup H -> Buffers]
      /\ d # None => d \in DOMAIN L /\ L[d] = buffer[d]
  <2>1. ({d, s} \ {None}) \cup H \in SUBSET Names
    BY <1>3, NameFacts
  <2>2. \A x \in ({d, s} \ {None}) \cup H : (IF x \in Temps THEN T[x] ELSE buffer[x]) \in Buffers
    BY <1>3, NameFacts
  <2>3. \A x \in Temps : x \notin Tensors
    BY NameFacts
  <2> QED  BY <1>3, <1>6, <2>1, <2>2, <2>3
<1>8. d # None => Delivers(q, d, r, L, S2) /\ (Allocated(q) # {} => S2[buffer[d]] = val[d])
  OBVIOUS
<1> HIDE DEF d, s, H, L
<1>9. ASSUME NEW t \in Tensors, Live(t)', \A u \in Threads : op'[u].dst # t
      PROVE  S2[buffer'[t]] = val'[t]
  <2>1. CASE t = d
    <3>1. q = <<>> /\ d # None
      BY <1>3, <1>5, <1>9, <2>1, NameFacts
    <3>2. \A i \in DOMAIN q : q[i].do = "defer"
      BY <3>1
    <3>3. S2[L[d]] = r
      BY <1>2, <1>7, <1>8, <3>1, <3>2, DeliversDone
    <3> QED  BY <1>1, <1>4, <1>7, <2>1, <3>1, <3>3
  <2>2. CASE t # d
    <3>1. val'[t] = val[t]
      BY <1>1, <1>4, <2>2
    <3>2. Live(t)
      BY <1>9, <3>1 DEF Live
    <3>3. \A u \in Threads : op[u].dst # t
      BY <1>5, <1>9, <2>2 DEF d
    <3>4. S[buffer[t]] = val[t]
      BY <3>2, <3>3 DEF Agreement, Settles
    <3>5. S2[buffer[t]] = S[buffer[t]]
      BY <2>2, <3>2, SettledKeep DEF d
    <3> QED  BY <1>1, <3>1, <3>4, <3>5
  <2> QED  BY <2>1, <2>2
<1>10. Settles(S2)'
  BY <1>9 DEF Settles
<1>11. ASSUME NEW u \in Threads, u # th PROVE Due(u, R2[u], S2)' /\ Intact(u, R2[u], S2)'
  <2>1. Due(u, R2[u], S) /\ Intact(u, R2[u], S)
    BY <1>11 DEF Agreement
  <2>2. todo'[u] = todo[u] /\ temp'[u] = temp[u] /\ op'[u] = op[u] /\ buffer' = buffer
    BY <1>1, <1>5, <1>11
  <2>3. CASE op[u].dst = None
    BY <2>2, <2>3 DEF Due, Intact
  <2>4. CASE op[u].dst # None
    <3>1. todo[u] # <<>>
      BY <2>4, Idle
    <3>2. /\ \A x \in Operands(u) : S2[Loc(u)[x]] = S[Loc(u)[x]]
          /\ S2[buffer[op[u].dst]] = S[buffer[op[u].dst]]
      BY <1>11, <2>4, <3>1, OthersKeep
    <3>3. DOMAIN Loc(u) = Operands(u)
      BY <3>1, LocFacts
    <3>4. Delivers(R2[u], op[u].dst, op[u].result, Loc(u), S)
      BY <2>1, <2>4 DEF Due, Loc
    <3>5. Delivers(R2[u], op[u].dst, op[u].result, Loc(u), S2)
      BY <3>2, <3>3, <3>4, DeliversSame
    <3>6. Loc(u)' = Loc(u)
      BY <2>2 DEF Loc, Located, Held
    <3>7. Due(u, R2[u], S2)'
      BY <2>2, <3>5, <3>6 DEF Due, Loc
    <3>8. val'[op[u].dst] = val[op[u].dst]
      <4>1. d # None => op[u].dst # d
        BY <1>11 DEF Discipline, Locked, d
      <4> QED  BY <1>1, <1>4, <4>1
    <3>9. Intact(u, R2[u], S2)'
      BY <2>1, <2>2, <3>2, <3>8 DEF Intact
    <3> QED  BY <3>7, <3>9
  <2> QED  BY <2>3, <2>4
<1>12. Due(th, q, S2)' /\ Intact(th, q, S2)'
  <2>1. CASE q = <<>> \/ d = None
    <3>1. op'[th].dst = None
      BY <1>5, <2>1
    <3> QED  BY <3>1 DEF Due, Intact
  <2>2. CASE q # <<>> /\ d # None
    <3>1. op'[th].dst = d /\ op'[th].src = s /\ op'[th].result = r /\ temp'[th] = T /\ todo'[th] = q
      BY <1>5, <2>2
    <3>2. Held(th)' = H
      BY <3>1 DEF Held, H
    <3>3. Located(op[th].dst, op[th].src, Held(th), temp[th])' = L
      <4>1. Located(op[th].dst, op[th].src, Held(th), temp[th])'
              = [x \in ({op'[th].dst, op'[th].src} \ {None}) \cup Held(th)' |-> IF x \in Temps THEN temp'[th][x] ELSE buffer'[x]]
        BY DEF Located
      <4> QED  BY <1>1, <1>6, <3>1, <3>2, <4>1
    <3>4. Due(th, q, S2)'
      BY <1>8, <2>2, <3>1, <3>3 DEF Due
    <3>5. val' = val
      BY <1>1, <2>2
    <3> QED  BY <1>1, <1>8, <2>2, <3>1, <3>4, <3>5 DEF Intact
  <2> QED  BY <2>1, <2>2
<1> QED  BY <1>10, <1>11, <1>12 DEF Agreement

LEMMA AdvanceAgrees ==
  ASSUME Discipline, NEW R, NEW S \in [Buffers -> Contents], Agreement(R, S),
         NEW th \in Threads, todo[th] # <<>>, ~Allocates(Head(todo[th])), Head(todo[th]).do # "defer",
         R[th] = Tail(todo[th]), Advance(th), buffer' = buffer
  PROVE  Agreement(R, S)'
<1> DEFINE q == Tail(todo[th])
           T == temp[th]
           r == op[th].result
<1>1. Going(th, q, r, T)
  BY TailGoing
<1>2. HeldIn(q, T) = Held(th)
  BY TailFits
<1>3. Held(th) \subseteq Temps /\ \A x \in Held(th) : temp[th][x] \in Buffers
  BY Busy
<1>4. q = <<>> => HeldIn(q, T) = {}
  BY CountedEmpty DEF HeldIn
<1>5. op[th].dst # None =>
        /\ Delivers(q, op[th].dst, r, Located(op[th].dst, op[th].src, HeldIn(q, T), T), S)
        /\ Allocated(q) # {} => S[buffer[op[th].dst]] = val[op[th].dst]
  BY <1>2 DEF Agreement, Due, Intact
<1>6. SameBut(Own(th), S, S)
  BY DEF SameBut
<1>7. R[th] = q /\ HeldIn(q, T) \subseteq Temps /\ \A x \in HeldIn(q, T) : T[x] \in Buffers
  BY <1>2, <1>3
<1> HIDE DEF q, T, r
<1> QED  BY <1>1, <1>4, <1>5, <1>6, <1>7, ContinueAgrees

(* A free: all that remains is frees, so the output is there already.      *)
LEMMA DeferAgrees ==
  ASSUME Discipline, NEW R, NEW R2, NEW S \in [Buffers -> Contents], Agreement(R, S),
         NEW th \in Threads, DeferFree(th), R[th] = todo[th],
         R2[th] = Tail(todo[th]), \A u \in Threads \ {th} : R2[u] = R[u]
  PROVE  Agreement(R2, S)'
<1> DEFINE p == todo[th]
           q == Tail(todo[th])
           T == temp[th]
           r == op[th].result
           d == op[th].dst
           s == op[th].src
<1>1. p # <<>> /\ Head(p).do = "defer" /\ Advance(th) /\ buffer' = buffer
  BY DEF DeferFree, Next1
<1>2. ~Allocates(Head(p))
  BY <1>1, KindFacts
<1>3. Going(th, q, r, T) /\ HeldIn(q, T) \subseteq Held(th)
  BY <1>1, <1>2, TailGoing, TailFits
<1>4. /\ Fits(p, d, s, Held(th)) /\ Held(th) \subseteq Temps /\ \A x \in Held(th) : T[x] \in Buffers
      /\ p \in Seq(AllSteps) /\ q \in Seq(AllSteps)
  BY <1>1, Busy
<1>5. \A i \in DOMAIN q : q[i].do = "defer"
  BY <1>1, <1>4, FitsParts
<1>6. \A i \in DOMAIN p : p[i].do = "defer"
  <2> HIDE DEF p, q
  <2>1. q = Tail(p)
    BY DEF p, q
  <2>2. \A i \in DOMAIN p : i # 1 => i - 1 \in DOMAIN q /\ q[i - 1] = p[i]
    BY <1>1, <1>4, <2>1, TailFacts
  <2>3. p[1].do = "defer"
    BY <1>1, <1>4, TailFacts
  <2> QED  BY <1>5, <2>2, <2>3
<1>7. Allocated(q) = {}
  BY <1>5, CountedFacts, KindFacts
<1>8. q = <<>> => HeldIn(q, T) = {}
  BY CountedEmpty DEF HeldIn
<1>9. d # None => Delivers(q, d, r, Located(d, s, HeldIn(q, T), T), S)
  <2> SUFFICES ASSUME d # None PROVE Delivers(q, d, r, Located(d, s, HeldIn(q, T), T), S)
    OBVIOUS
  <2> DEFINE L == Loc(th)
             K == Operands(th)
             L2 == Located(d, s, HeldIn(q, T), T)
  <2>1. Delivers(p, d, r, L, S)
    BY DEF Agreement, Due, Loc
  <2>2. K \in SUBSET Names /\ L \in [K -> Buffers] /\ d \in K /\ d \in Tensors
    BY <1>1, LocFacts, Busy DEF Operands
  <2>3. L[d] = buffer[d]
    BY <1>1, <2>2, LocFacts, NameFacts DEF BufferOf
  <2>4. d \in DOMAIN L2 /\ L2[d] = buffer[d]
    BY <2>2, NameFacts DEF Located
  <2> HIDE DEF p, q, L, K, L2, d, r
  <2>5. S[L[d]] = r
    BY <1>4, <1>6, <2>1, <2>2, DeliversDone
  <2>6. S[L2[d]] = r
    BY <2>3, <2>4, <2>5
  <2>7. Delivers(q, d, r, L2, S)
    BY <1>4, <1>5, <2>4, <2>6, DeliversDefers
  <2> QED  BY <2>7 DEF L2
<1>10. SameBut(Own(th), S, S)
  BY DEF SameBut
<1>11. /\ HeldIn(q, T) \subseteq Temps /\ \A x \in HeldIn(q, T) : T[x] \in Buffers
       /\ R2[th] = q
  BY <1>3, <1>4
<1>12. op[th].dst # None =>
        /\ Delivers(q, op[th].dst, r, Located(op[th].dst, op[th].src, HeldIn(q, T), T), S)
        /\ Allocated(q) # {} => S[buffer[op[th].dst]] = val[op[th].dst]
  BY <1>7, <1>9
<1> HIDE DEF p, q, T, r, d, s
<1> QED  BY <1>3, <1>8, <1>10, <1>11, <1>12, ContinueAgrees

(* An allocation: the buffer holds what the host wrote, or anything.       *)
LEMMA AllocAgrees ==
  ASSUME Discipline, NEW R, NEW R2, NEW S \in [Buffers -> Contents], NEW S2 \in [Buffers -> Contents],
         Agreement(R, S), NEW th \in Threads, NEW b \in Buffers, AllocTemp(th, b), profiled' = profiled,
         R[th] = todo[th], R2[th] = Tail(todo[th]), \A u \in Threads \ {th} : R2[u] = R[u],
         \A c \in Buffers \ {b} : S2[c] = S[c],
         Head(todo[th]).do = "scratch" => S2[b] = NextOn(th).val
  PROVE  Agreement(R2, S2)'
<1> DEFINE p == todo[th]
           q == Tail(todo[th])
           T == Taken(th, b)
           r == op[th].result
           d == op[th].dst
           s == op[th].src
           x == NextOn(th).dst
           v == NextOn(th).val
           H == Held(th)
           K == Operands(th)
           L == Loc(th)
           L2 == Located(d, s, HeldIn(q, T), T)
<1>1. p # <<>> /\ Allocates(Head(p)) /\ Going(th, q, r, T) /\ b \in pool
  BY AllocTempDisciplined
<1>2. /\ HeldIn(q, T) = H \cup {x} /\ x \in Temps \ H /\ v \in Contents /\ Head(p).cmd = Fill(x, v)
      /\ T \in [Temps -> Buffers \cup {None}] /\ T[x] = b /\ \A y \in H : T[y] = temp[th][y]
  BY <1>1, AllocFits DEF NextOn
<1>3. /\ p \in Seq(AllSteps) /\ H \subseteq Temps /\ \A y \in H : temp[th][y] \in Buffers
      /\ d \in Tensors \cup {None} /\ s \in Tensors \cup {None}
  BY <1>1, Busy
<1>4. K \in SUBSET Names /\ L \in [K -> Buffers] /\ \A y \in K : L[y] \in Buffers
  BY <1>1, LocFacts
<1>5. K = ({d, s} \ {None}) \cup H
  BY DEF Operands
<1>6. L = Located(d, s, H, temp[th])
  BY DEF Loc
<1>7. \A k \in Keys : Place[k] # b
  BY <1>1 DEF Discipline, Owners
<1>8. \A y \in K : L[y] # b
  BY <1>1, <1>7, LocFacts
<1>9. SameBut(Own(th), S, S2)
  <2>1. ASSUME NEW k \in Keys, Place[k] # None PROVE S2[Place[k]] = S[Place[k]]
    <3>1. Place[k] \in Buffers \ {b}
      BY <1>7, <2>1, PlaceFacts
    <3> QED  BY <3>1
  <2> QED  BY <2>1 DEF SameBut
<1>10. DOMAIN L2 = K \cup {x} /\ L2[x] = b /\ \A y \in K : L2[y] = L[y] /\ S2[L[y]] = S[L[y]]
  <2>1. L2 = [y \in ({d, s} \ {None}) \cup HeldIn(q, T) |-> IF y \in Temps THEN T[y] ELSE buffer[y]]
    BY DEF Located
  <2>2. L = [y \in ({d, s} \ {None}) \cup H |-> IF y \in Temps THEN temp[th][y] ELSE buffer[y]]
    BY <1>6 DEF Located
  <2>3. \A y \in ({d, s} \ {None}) : y \notin Temps
    BY <1>3, NameFacts
  <2> HIDE DEF L, L2, K, H, T, x, q, d, s
  <2>4. DOMAIN L2 = K \cup {x} /\ L2[x] = b
    BY <1>2, <1>5, <2>1
  <2>5. ASSUME NEW y \in K PROVE L2[y] = L[y] /\ S2[L[y]] = S[L[y]]
    <3>1. L2[y] = L[y]
      BY <1>2, <1>5, <2>1, <2>2, <2>3
    <3>2. L[y] \in Buffers \ {b}
      BY <1>4, <1>8
    <3> QED  BY <3>1, <3>2
  <2> QED  BY <2>4, <2>5
<1>11. x \in Names \ K
  <2>1. x \in Names /\ x \notin Tensors
    BY <1>2, NameFacts
  <2> QED  BY <1>2, <1>3, <1>5, <2>1
<1>12. Head(p).do = "scratch" => S2[L2[x]] = v
  BY <1>10
<1>13. ASSUME d # None PROVE Delivers(q, d, r, L2, S2) /\ (Allocated(q) # {} => S2[buffer[d]] = val[d])
  <2>1. Delivers(p, d, r, L, S) /\ Intact(th, p, S)
    BY <1>13 DEF Agreement, Due, Loc
  <2>2. d \in Keys /\ buffer[d] = Place[d] /\ buffer[d] \in Buffers
    BY <1>1, <1>3, <1>13, Busy, PlaceFacts
  <2>3. Allocated(p) # {}
    BY <1>1, <1>3, CountedTail
  <2>4. S2[buffer[d]] = val[d]
    BY <1>7, <1>13, <2>1, <2>2, <2>3 DEF Intact
  <2>5. q = Tail(p)
    OBVIOUS
  <2>6. p \in Seq(AllSteps) /\ p # <<>> /\ Allocates(Head(p)) /\ x \in Names /\ v \in Contents /\ Head(p).cmd = Fill(x, v)
    BY <1>1, <1>2, <1>3, <1>11
  <2>7. Delivers(q, d, r, L2, S2)
    <3> SUFFICES ASSUME NEW n \in [Names -> Contents], \A y \in DOMAIN L2 : n[y] = S2[L2[y]]
                 PROVE  Run(n, q)[d] = r
      BY DEF Delivers
    <3>1. \A y \in K \cup {x} : n[y] = S2[L2[y]]
      BY <1>10
    <3>2. \A y \in DOMAIN L : n[y] = S[L[y]]
      BY <1>4, <1>10, <3>1
    <3>3. Run(n, p)[d] = r
      BY <2>1, <3>2 DEF Delivers
    <3>4. Head(p).do = "scratch" => n[x] = v
      BY <1>12, <3>1
    <3> HIDE DEF p, q, x, v, r, d
    <3>5. Run(n, Tail(p)) = Run(n, p)
      BY <2>6, <3>4, RunAllocated
    <3> QED  BY <2>5, <3>3, <3>5
  <2> QED  BY <2>4, <2>7
<1>14. q = <<>> => HeldIn(q, T) = {}
  BY CountedEmpty DEF HeldIn
<1>15. HeldIn(q, T) \subseteq Temps /\ \A y \in HeldIn(q, T) : T[y] \in Buffers
  BY <1>2, <1>3
<1>16. R2[th] = q
  OBVIOUS
<1>17. op[th].dst # None =>
         /\ Delivers(q, op[th].dst, r, Located(op[th].dst, op[th].src, HeldIn(q, T), T), S2)
         /\ Allocated(q) # {} => S2[buffer[op[th].dst]] = val[op[th].dst]
  BY <1>13
<1> HIDE DEF p, q, T, r, d, s, H, K, L, L2, x, v
<1> QED  BY <1>1, <1>9, <1>14, <1>15, <1>16, <1>17, ContinueAgrees

(* An allocation fails before the output is touched.                       *)
LEMMA AbortAgrees ==
  ASSUME Discipline, NEW R, NEW R2, NEW S \in [Buffers -> Contents], Agreement(R, S),
         NEW th \in Threads, AllocFails(th), R[th] = todo[th],
         R2[th] = Given(th), \A u \in Threads \ {th} : R2[u] = R[u]
  PROVE  Agreement(R2, S)'
<1> DEFINE p == todo[th]
           q == Given(th)
           T == temp[th]
           r == OldContents(th)
           d == op[th].dst
           s == op[th].src
           H == Held(th)
           L2 == Located(d, s, HeldIn(q, T), T)
<1>1. p # <<>> /\ Allocates(Head(p)) /\ Abort(th) /\ buffer' = buffer
  BY DEF AllocFails, bufs
<1>2. /\ Going(th, q, r, T) /\ HeldIn(q, T) = H
      /\ \A i \in DOMAIN q : q[i].do = "defer"
  BY <1>1, AbortGoing
<1>3. /\ p \in Seq(AllSteps) /\ H \subseteq Temps /\ \A y \in H : T[y] \in Buffers
  BY <1>1, Busy
<1>4. q \in Seq(AllSteps)
  BY <1>2 DEF Going
<1>5. Allocated(p) # {}
  BY <1>1, <1>3, CountedTail
<1>6. ASSUME d # None PROVE Delivers(q, d, r, L2, S)
  <2>1. S[buffer[d]] = val[d] /\ r = val[d]
    BY <1>5, <1>6 DEF Agreement, Intact, OldContents
  <2>2. d \in Tensors
    BY <1>1, <1>6, Busy
  <2>3. d \in DOMAIN L2 /\ L2[d] = buffer[d]
    BY <1>6, <2>2, NameFacts DEF Located
  <2> HIDE DEF q, L2, d, r
  <2> QED  BY <1>2, <1>4, <2>1, <2>3, DeliversDefers
<1>7. Allocated(q) = {}
  BY <1>2, CountedFacts, KindFacts
<1>8. q = <<>> => HeldIn(q, T) = {}
  BY CountedEmpty DEF HeldIn
<1>9. SameBut(Own(th), S, S)
  BY DEF SameBut
<1>10. R2[th] = q /\ HeldIn(q, T) \subseteq Temps /\ \A y \in HeldIn(q, T) : T[y] \in Buffers
  BY <1>2, <1>3
<1>11. op[th].dst # None =>
         /\ Delivers(q, op[th].dst, r, Located(op[th].dst, op[th].src, HeldIn(q, T), T), S)
         /\ Allocated(q) # {} => S[buffer[op[th].dst]] = val[op[th].dst]
  BY <1>6, <1>7
<1> HIDE DEF p, q, T, r, d, s, H, L2
<1> QED  BY <1>2, <1>8, <1>9, <1>10, <1>11, ContinueAgrees

(* A new operation: each of its operands has its contents in S.            *)
LEMMA BeginAgrees ==
  ASSUME Discipline, NEW R, NEW R2, NEW S \in [Buffers -> Contents], Agreement(R, S),
         NEW th \in Threads, NEW d, NEW s, NEW p, Begin(th, d, s, p), Program(p, d, s), profiled' = profiled,
         R2[th] = p, \A u \in Threads \ {th} : R2[u] = R[u]
  PROVE  Agreement(R2, S)'
<1>1. /\ todo[th] = <<>> /\ todo' = [todo EXCEPT ![th] = p]
      /\ op' = [op EXCEPT ![th] = [dst |-> d, src |-> s, result |-> IF d = None THEN 0 ELSE Run(Values, p)[d]]]
      /\ val' = val /\ buffer' = buffer /\ temp' = temp /\ Held(th)' = {}
  BY BeginDisciplined
<1>2. op[th].dst = None
  BY <1>1, Idle
<1>3. DOMAIN op = Threads /\ DOMAIN todo = Threads /\ val \in [Tensors -> Contents \cup {None}]
  BY DEF Discipline, CallsTyped, EagerTyped
<1>4. /\ op'[th].dst = d /\ op'[th].src = s
      /\ d # None => op'[th].result = Run(Values, p)[d]
      /\ todo'[th] = p
      /\ \A u \in Threads : u # th => op'[u] = op[u] /\ todo'[u] = todo[u]
  BY <1>1, <1>3
<1>5. d \in Tensors \cup {None} /\ s \in Tensors \cup {None}
  BY DEF Program
<1>6. \A x \in {d, s} \ {None} : x \in Tensors /\ Live(x) /\ \A u \in Threads : op[u].dst # x
  BY <1>5 DEF Begin, Unused, Readable
<1>7. \A x \in {d, s} \ {None} : S[buffer[x]] = val[x] /\ Values[x] = val[x]
  <2>1. \A x \in {d, s} \ {None} : S[buffer[x]] = val[x]
    BY <1>6 DEF Agreement, Settles
  <2>2. \A x \in Tensors : Live(x) => Values[x] = val[x]
    BY DEF Values
  <2> QED  BY <1>6, <2>1, <2>2
<1>8. Settles(S)'
  <2> SUFFICES ASSUME NEW t \in Tensors, Live(t)', \A u \in Threads : op'[u].dst # t
               PROVE  S[buffer'[t]] = val'[t]
    BY DEF Settles
  <2>1. Live(t)
    BY <1>1 DEF Live
  <2>2. \A u \in Threads : op[u].dst # t
    BY <1>2, <1>4, NameFacts
  <2> QED  BY <1>1, <2>1, <2>2 DEF Agreement, Settles
<1>9. ASSUME NEW u \in Threads, u # th PROVE Due(u, R2[u], S)' /\ Intact(u, R2[u], S)'
  <2>1. Due(u, R2[u], S) /\ Intact(u, R2[u], S)
    BY <1>9 DEF Agreement
  <2>2. todo'[u] = todo[u] /\ temp' = temp /\ op'[u] = op[u] /\ buffer' = buffer /\ val' = val
    BY <1>1, <1>4, <1>9
  <2>3. Loc(u)' = Loc(u)
    BY <2>2 DEF Loc, Located, Held
  <2>4. Due(u, R2[u], S)'
    <3> SUFFICES ASSUME op'[u].dst # None
                 PROVE  Delivers(R2[u], op'[u].dst, op'[u].result, Loc(u)', S)
      BY DEF Due, Loc
    <3>1. Delivers(R2[u], op[u].dst, op[u].result, Loc(u), S)
      BY <2>1, <2>2 DEF Due, Loc
    <3> QED  BY <2>2, <2>3, <3>1
  <2>5. Intact(u, R2[u], S)'
    BY <2>1, <2>2 DEF Intact
  <2> QED  BY <2>4, <2>5
<1>10. Due(th, p, S)'
  <2> SUFFICES ASSUME d # None
               PROVE  Delivers(p, d, Run(Values, p)[d], Located(op[th].dst, op[th].src, Held(th), temp[th])', S)
    BY <1>4 DEF Due
  <2> DEFINE L == Located(op[th].dst, op[th].src, Held(th), temp[th])'
  <2>1. L = [x \in ({op'[th].dst, op'[th].src} \ {None}) \cup Held(th)' |-> IF x \in Temps THEN temp'[th][x] ELSE buffer'[x]]
    BY DEF Located
  <2>2. DOMAIN L = {d, s} \ {None}
    BY <1>1, <1>4, <2>1
  <2>3. \A x \in {d, s} \ {None} : L[x] = buffer[x]
    BY <1>1, <1>4, <1>6, <2>1, NameFacts
  <2>4. \A x \in DOMAIN L : Values[x] = S[L[x]]
    BY <1>7, <2>2, <2>3
  <2>5. PICK v \in [Names -> Contents] : v = Values
    BY ValuesTyped
  <2>6. PICK l : l = L
    OBVIOUS
  <2>7. DOMAIN l = {d, s} \ {None} /\ \A x \in DOMAIN l : v[x] = S[l[x]]
    BY <2>2, <2>4, <2>5, <2>6
  <2>8. d \in Tensors /\ Pure(p, d, s)
    BY <1>5 DEF Program
  <2>9. Delivers(p, d, Run(v, p)[d], l, S)
    BY <2>7, <2>8, DeliversAtFirst
  <2> QED  BY <2>5, <2>6, <2>9
<1>11. Intact(th, p, S)'
  <2> SUFFICES ASSUME d # None PROVE S[buffer'[d]] = val'[d]
    BY <1>4 DEF Intact
  <2> QED  BY <1>1, <1>7
<1>12. \A u \in Threads : Due(u, R2[u], S)' /\ Intact(u, R2[u], S)'
  BY <1>9, <1>10, <1>11
<1> QED  BY <1>8, <1>12 DEF Agreement

(* A storage no operation names gets contents, or loses them.              *)
LEMMA StorageAgrees ==
  ASSUME Discipline, NEW R, NEW S, Agreement(R, S),
         NEW t \in Tensors, \A u \in Threads : op[u].dst # t /\ op[u].src # t,
         UNCHANGED threads, NEW w, val' = [val EXCEPT ![t] = w],
         NEW b, buffer' = [buffer EXCEPT ![t] = b], w # None => S[b] = w
  PROVE  Agreement(R, S)'
<1>1. /\ op' = op /\ todo' = todo /\ temp' = temp
      /\ val \in [Tensors -> Contents \cup {None}] /\ buffer \in [Tensors -> Buffers \cup {None}]
  BY DEF threads, Discipline, EagerTyped, DeviceTyped
<1>2. \A x \in Tensors : val'[x] = (IF x = t THEN w ELSE val[x]) /\ buffer'[x] = (IF x = t THEN b ELSE buffer[x])
  BY <1>1
<1>3. Settles(S)'
  <2> SUFFICES ASSUME NEW x \in Tensors, Live(x)', \A u \in Threads : op'[u].dst # x
               PROVE  S[buffer'[x]] = val'[x]
    BY DEF Settles
  <2>1. CASE x = t
    BY <1>2, <2>1 DEF Live
  <2>2. CASE x # t
    BY <1>1, <1>2, <2>2 DEF Live, Agreement, Settles
  <2> QED  BY <2>1, <2>2
<1>4. ASSUME NEW u \in Threads PROVE Due(u, R[u], S)' /\ Intact(u, R[u], S)'
  <2>1. Due(u, R[u], S) /\ Intact(u, R[u], S)
    BY DEF Agreement
  <2>2. CASE op[u].dst = None
    BY <1>1, <2>2 DEF Due, Intact
  <2>3. CASE op[u].dst # None
    <3>1. todo[u] # <<>>
      BY <2>3, Idle
    <3>2. \A x \in ({op[u].dst, op[u].src} \ {None}) : x \in Tensors \ {t}
      BY <3>1, Busy
    <3>3. \A x \in ({op[u].dst, op[u].src} \ {None}) : buffer'[x] = buffer[x] /\ val'[x] = val[x]
      BY <1>2, <3>2
    <3>4. Held(u)' = Held(u) /\ Held(u) \subseteq Temps
      BY <1>1, <3>1, Busy DEF Held
    <3>5. Loc(u)' = [x \in ({op[u].dst, op[u].src} \ {None}) \cup Held(u) |-> IF x \in Temps THEN temp[u][x] ELSE buffer'[x]]
      BY <1>1, <3>4 DEF Loc, Located
    <3>6. Loc(u)' = Loc(u)
      BY <3>3, <3>4, <3>5 DEF Loc, Located
    <3>7. Due(u, R[u], S)'
      <4>1. Delivers(R[u], op[u].dst, op[u].result, Loc(u), S)
        BY <2>1, <2>3 DEF Due, Loc
      <4>2. Delivers(R[u], op'[u].dst, op'[u].result, Loc(u)', S)
        BY <1>1, <3>6, <4>1
      <4> QED  BY <4>2 DEF Due, Loc
    <3>8. Intact(u, R[u], S)'
      BY <1>1, <2>1, <2>3, <3>3 DEF Intact
    <3> QED  BY <3>7, <3>8
  <2> QED  BY <2>2, <2>3
<1> QED  BY <1>3, <1>4 DEF Agreement

LEMMA NewStorageAgrees ==
  ASSUME Discipline, NEW R, NEW S, NEW S2, Agreement(R, S),
         NEW t \in Tensors, NEW b \in Buffers, NEW v \in Contents, NewStorage(t, b, v),
         \A c \in Buffers \ {b} : S2[c] = S[c], S2[b] = v
  PROVE  Agreement(R, S2)'
<1>1. \A k \in Keys : Place[k] # b
  BY DEF NewStorage, Take, Discipline, Owners
<1>2. \A k \in Keys : Place[k] # None => Place[k] \in Buffers \ {b}
  BY <1>1, PlaceFacts
<1>3. Agreement(R, S2)
  BY <1>2, SameSettles DEF SameBut
<1>4. /\ val' = [val EXCEPT ![t] = v] /\ buffer' = [buffer EXCEPT ![t] = b] /\ UNCHANGED threads
      /\ ~Live(t)
  BY DEF NewStorage, Create, Live
<1>5. \A u \in Threads : op[u].dst # t /\ op[u].src # t
  <2> TAKE u \in Threads
  <2>1. CASE todo[u] = <<>>
    BY <2>1, Idle, NameFacts
  <2>2. CASE todo[u] # <<>>
    BY <1>4, <2>2, Busy, NameFacts
  <2> QED  BY <2>1, <2>2
<1> QED  BY <1>3, <1>4, <1>5, StorageAgrees

LEMMA DropStorageAgrees ==
  ASSUME Discipline, NEW R, NEW S, Agreement(R, S), NEW t \in Tensors, DropStorage(t)
  PROVE  Agreement(R, S)'
<1>1. /\ val' = [val EXCEPT ![t] = None] /\ buffer' = [buffer EXCEPT ![t] = None] /\ UNCHANGED threads
      /\ \A u \in Threads : op[u].dst # t /\ op[u].src # t
  BY DEF DropStorage, Discard, Unused, Readable
<1> QED  BY <1>1, StorageAgrees

LEMMA StayAgrees ==
  ASSUME NEW R, NEW S, Agreement(R, S), UNCHANGED <<eager, threads, buffer>>
  PROVE  Agreement(R, S)'
BY DEF Agreement, Settles, Due, Intact, Live, Located, Held, eager, threads

-----------------------------------------------------------------------------
(* Direct accesses to memory                                               *)

(* A command that meets no operand of an operation.                        *)
Clear(u, c) ==
  /\ op[u].dst # None => buffer[op[u].dst] \notin Uses(c)
  /\ \A y \in {op[u].dst, op[u].src} \ {None} : c.dst # buffer[y]

(* Such is the command of another operation.                               *)
LEMMA CommandsApart ==
  ASSUME Discipline, NEW th \in Threads, NEW u \in Threads, u # th, todo[th] # <<>>, Makes(Head(todo[th]))
  PROVE  Clear(u, NextCommand(th))
<1> DEFINE c == NextOn(th)
<1>1. /\ Uses(c) \subseteq Operands(th) /\ NextCommand(th).dst = Loc(th)[c.dst] /\ c.dst \in Operands(th)
      /\ c.dst \in ({op[th].dst} \ {None}) \cup Held(th)
      /\ Uses(NextCommand(th)) = {Loc(th)[x] : x \in Uses(c)}
  BY CommandFacts
<1> HIDE DEF c
<1>2. \A x \in Operands(th) : Loc(th)[x] = Place[Key(th, x)] /\ Key(th, x) \in Keys /\ Place[Key(th, x)] \in Buffers
  BY LocFacts
<1>3. \A x \in Operands(th) : x \in Temps \/ (x \in Tensors /\ x \in {op[th].dst, op[th].src})
  BY Busy DEF Operands
<1>5. ASSUME NEW y \in {op[u].dst, op[u].src} \ {None}, NEW x \in Operands(th), x = op[th].dst => op[th].dst # y,
             x = op[th].src => op[th].src # y
      PROVE  Loc(th)[x] # buffer[y]
  <2>1. y \in Tensors /\ y \in Keys /\ Place[y] = buffer[y] /\ buffer[y] \in Buffers
    <3>1. todo[u] # <<>>
      BY Idle
    <3> QED  BY <3>1, Busy, PlaceFacts
  <2>2. Key(th, x) # y
    <3>1. CASE x \in Temps
      <4>1. Key(th, x) = <<th, x>> /\ <<th, x>> \notin Tensors
        BY <3>1, KeyFacts
      <4> QED  BY <2>1, <4>1
    <3>2. CASE x \in Tensors /\ x \in {op[th].dst, op[th].src}
      <4>1. Key(th, x) = x
        BY <3>2, KeyFacts
      <4> QED  BY <1>5, <3>2, <4>1
    <3> QED  BY <1>3, <3>1, <3>2
  <2> QED  BY <1>2, <2>1, <2>2, NameFacts DEF Discipline, Owners
<1>6. ASSUME op[u].dst # None PROVE buffer[op[u].dst] \notin Uses(NextCommand(th))
  <2>1. op[th].dst # op[u].dst /\ op[th].src # op[u].dst
    BY <1>6 DEF Discipline, Locked
  <2> QED  BY <1>1, <1>5, <1>6, <2>1
<1>7. ASSUME NEW y \in {op[u].dst, op[u].src} \ {None} PROVE NextCommand(th).dst # buffer[y]
  <2>1. op[th].dst # None => op[th].dst # y
    BY <1>7 DEF Discipline, Locked
  <2>2. op[th].dst # y
    BY <1>7, <2>1
  <2>3. c.dst = op[th].src => c.dst = op[th].dst
    <3>1. /\ op[th].src \in Tensors \cup {None} /\ Held(th) \subseteq Temps
          /\ op[th].src # None => op[th].src \in Tensors
      BY Busy
    <3> QED  BY <1>1, <3>1, NameFacts
  <2> QED  BY <1>1, <1>5, <1>7, <2>2, <2>3
<1> QED  BY <1>6, <1>7 DEF Clear

(* What a host access needs of memory and of what is recorded.             *)
LEMMA HostOperands ==
  ASSUME Discipline, NEW u \in Threads
  PROVE  /\ Next1(u, "host") =>
              /\ todo[u] # <<>> /\ Makes(Head(todo[u])) /\ ~Records(Head(todo[u]))
              /\ op[u].dst \in Tensors /\ op[u].dst # None /\ Head(todo[u]).cmd.dst = op[u].dst
              /\ Uses(Head(todo[u]).cmd) \subseteq {op[u].dst, op[u].src} \ {None}
         /\ Next1(u, "data") =>
              /\ todo[u] # <<>> /\ op[u].dst = None /\ op[u].src \in Tensors /\ op[u].src # None
              /\ buffer[op[u].src] \in Buffers /\ Live(op[u].src) /\ \A w \in Threads : op[w].dst # op[u].src
<1>1. CASE Next1(u, "host")
  <2>1. todo[u] # <<>> /\ Head(todo[u]).do = "host"
    BY <1>1 DEF Next1
  <2>2. Makes(Head(todo[u])) /\ ~Records(Head(todo[u]))
    BY <2>1, KindFacts
  <2>3. IsStep(Head(todo[u]), op[u].dst, op[u].src)
    BY <2>1, Busy, FitsParts
  <2>4. /\ Head(todo[u]).cmd.dst = op[u].dst /\ op[u].dst # None
    BY <2>1, <2>2, CommandFacts DEF NextOn
  <2>5. Uses(Head(todo[u]).cmd) \subseteq {op[u].dst, op[u].src} \ {None}
    BY <2>1, <2>2, <2>3 DEF IsStep
  <2>6. ~Next1(u, "data")
    BY <2>1 DEF Next1
  <2> QED  BY <2>1, <2>2, <2>4, <2>5, <2>6, Busy
<1>2. CASE Next1(u, "data")
  <2>1. todo[u] # <<>> /\ Head(todo[u]).do = "data"
    BY <1>2 DEF Next1
  <2>2. IsStep(Head(todo[u]), op[u].dst, op[u].src)
    BY <2>1, Busy, FitsParts
  <2>3. op[u].dst = None /\ op[u].src # None
    BY <2>1, <2>2 DEF IsStep
  <2>4. op[u].src \in Tensors /\ buffer[op[u].src] \in Buffers /\ Live(op[u].src)
    BY <2>1, <2>3, Busy
  <2>5. ASSUME NEW w \in Threads PROVE op[w].dst # op[u].src
    BY <2>3 DEF Discipline, Locked
  <2>6. ~Next1(u, "host")
    BY <2>1 DEF Next1
  <2> QED  BY <2>1, <2>3, <2>4, <2>5, <2>6
<1>3. CASE ~Next1(u, "host") /\ ~Next1(u, "data")
  BY <1>3
<1> QED  BY <1>1, <1>2, <1>3

(* Whoever is ready remains so.                                            *)
LEMMA HostStays ==
  ASSUME Discipline, NEW u \in Threads, NEW cs, NEW cs2, HostReady(u, cs),
         op'[u] = op[u], todo'[u] = todo[u],
         \A x \in {op[u].dst, op[u].src} \ {None} : buffer'[x] = buffer[x],
         Next1(u, "data") => val'[op[u].src] = val[op[u].src] /\ mem'[buffer[op[u].src]] = mem[buffer[op[u].src]],
         \A c \in cs2 : c \in cs \/ Clear(u, c)
  PROVE  HostReady(u, cs2)'
<1>1. \A do \in {"host", "data"} : Next1(u, do)' <=> Next1(u, do)
  BY DEF Next1
<1>2. ASSUME Next1(u, "host"), NEW c \in cs2
      PROVE  buffer'[op[u].dst] \notin Uses(c) /\ \A y \in Uses(Head(todo[u]).cmd) : c.dst # buffer'[y]
  <2>1. /\ op[u].dst \in Tensors /\ op[u].dst # None
        /\ Uses(Head(todo[u]).cmd) \subseteq {op[u].dst, op[u].src} \ {None}
    BY <1>2, HostOperands
  <2>2. buffer[op[u].dst] \notin Uses(c) /\ \A y \in Uses(Head(todo[u]).cmd) : c.dst # buffer[y]
    BY <1>2, <2>1 DEF HostReady, Clear
  <2> QED  BY <2>1, <2>2
<1>3. ASSUME Next1(u, "data")
      PROVE  /\ mem'[buffer'[op[u].src]] = val'[op[u].src]
             /\ \A c \in cs2 : c.dst # buffer'[op[u].src]
  <2>1. op[u].src # None
    BY <1>3, HostOperands
  <2>2. mem[buffer[op[u].src]] = val[op[u].src] /\ \A c \in cs2 : c.dst # buffer[op[u].src]
    BY <1>3, <2>1 DEF HostReady, Clear
  <2> QED  BY <1>3, <2>1, <2>2
<1> QED  BY <1>1, <1>2, <1>3 DEF HostReady

(* Another operation goes on, and only its own part of memory changes.     *)
LEMMA HostContinues ==
  ASSUME Discipline, NEW th \in Threads, NEW q, NEW r, NEW T, Going(th, q, r, T),
         SameBut(Own(th), mem, mem'), NEW u \in Threads, u # th, NEW cs, NEW cs2, HostReady(u, cs),
         \A c \in cs2 : c \in cs \/ Clear(u, c)
  PROVE  HostReady(u, cs2)'
<1>1. /\ todo' = [todo EXCEPT ![th] = q]
      /\ op' = [op EXCEPT ![th] = IF q = <<>> THEN NoOp ELSE [@ EXCEPT !.result = r]]
      /\ val' = IF q = <<>> /\ op[th].dst # None THEN [val EXCEPT ![op[th].dst] = r] ELSE val
      /\ buffer' = buffer
  BY ContinueChanges
<1>2. op'[u] = op[u] /\ todo'[u] = todo[u]
  BY <1>1 DEF Discipline, CallsTyped
<1>3. ASSUME Next1(u, "data")
      PROVE  val'[op[u].src] = val[op[u].src] /\ mem'[buffer[op[u].src]] = mem[buffer[op[u].src]]
  <2>1. /\ todo[u] # <<>> /\ op[u].dst = None /\ op[u].src \in Tensors /\ op[u].src # None
        /\ Live(op[u].src) /\ op[th].dst # op[u].src
    BY <1>3, HostOperands
  <2>2. val'[op[u].src] = val[op[u].src]
    BY <1>1, <2>1 DEF Discipline, EagerTyped
  <2>3. mem'[buffer[op[u].src]] = mem[buffer[op[u].src]]
    BY <2>1, SettledKeep
  <2> QED  BY <2>2, <2>3
<1> QED  BY <1>1, <1>2, <1>3, HostStays

(* No host access comes after a step other than a flush.                   *)
LEMMA NoHostAfter ==
  ASSUME Discipline, NEW th \in Threads, todo[th] # <<>>, Head(todo[th]).do \notin {"flush", "flushused"},
         Tail(todo[th]) # <<>>
  PROVE  Head(Tail(todo[th])).do \notin {"host", "data"}
BY Busy, HostAfterFlush DEF FlushesFor

(* Then whoever has made that step does not touch memory next.             *)
LEMMA NoHostNext ==
  ASSUME Discipline, NEW th \in Threads, NEW q, todo' = [todo EXCEPT ![th] = q],
         q # <<>> => Head(q).do \notin {"host", "data"}, NEW cs
  PROVE  HostReady(th, cs)'
<1>1. todo'[th] = q
  BY DEF Discipline, CallsTyped
<1> QED  BY <1>1 DEF HostReady, Next1

(* A flush makes ready the operation that waited for it.                   *)
LEMMA FlushReadies ==
  ASSUME Discipline, NEW th \in Threads, todo[th] # <<>>, Head(todo[th]).do \in {"flush", "flushused"},
         Advance(th), buffer' = buffer, NEW S, Settles(S), NEW cs,
         \A t \in Tensors : Live(t) /\ (Head(todo[th]).do = "flush" \/ Head(todo[th]).cmd.dst = t) =>
           mem'[buffer[t]] = S[buffer[t]] /\ \A c \in cs : buffer[t] \notin Uses(c)
  PROVE  HostReady(th, cs)'
<1> DEFINE p == todo[th]
           q == Tail(p)
           d == op[th].dst
           s == op[th].src
           r == op[th].result
           T == temp[th]
<1>1. ~Allocates(Head(p))
  BY KindFacts
<1>2. Going(th, q, r, T)
  BY <1>1, TailGoing
<1>3. /\ todo' = [todo EXCEPT ![th] = q]
      /\ op' = [op EXCEPT ![th] = IF q = <<>> THEN NoOp ELSE [@ EXCEPT !.result = r]]
      /\ val' = IF q = <<>> /\ op[th].dst # None THEN [val EXCEPT ![op[th].dst] = r] ELSE val
  <2> HIDE DEF q, r, T
  <2> QED  BY <1>2, ContinueChanges
<1>4. DOMAIN todo = Threads /\ DOMAIN op = Threads /\ op[th] \in Operations
  BY DEF Discipline, CallsTyped
<1>5. CASE q = <<>> \/ Head(q).do \notin {"host", "data"}
  BY <1>3, <1>5, NoHostNext
<1>6. CASE q # <<>> /\ Head(q).do \in {"host", "data"}
  <2>1. todo'[th] = q /\ op'[th].dst = d /\ op'[th].src = s /\ val' = val
    BY <1>3, <1>4, <1>6 DEF Operations
  <2>2. /\ Fits(p, d, s, Held(th)) /\ p \in Seq(AllSteps) /\ q \in Seq(AllSteps)
        /\ d \in Tensors \cup {None} /\ s \in Tensors \cup {None}
        /\ \A x \in {d, s} \ {None} : x \in Tensors /\ Live(x)
    BY Busy
  <2>3. FlushesFor(Head(p), Head(q), s)
    <3> HIDE DEF p, q, d, s
    <3>1. q = Tail(p) /\ p # <<>>
      BY DEF p, q
    <3> QED  BY <1>6, <2>2, <3>1, HostAfterFlush
  <2>4. IsStep(Head(q), d, s)
    <3>1. \A i \in DOMAIN q : IsStep(q[i], d, s)
      BY <2>2, FitsParts
    <3>2. 1 \in DOMAIN q /\ Head(q) = q[1]
      BY <1>6, <2>2, TailFacts
    <3> QED  BY <3>1, <3>2
  <2>5. CASE Head(q).do = "host"
    <3>1. /\ Head(q).cmd.dst = d /\ d # None /\ Uses(Head(q).cmd) \subseteq {d, s} \ {None}
      BY <2>4, <2>5, KindFacts DEF IsStep, Uses
    <3>2. d \in Tensors /\ d \in Uses(Head(q).cmd)
      BY <2>2, <3>1 DEF Uses
    <3>3. \A y \in Uses(Head(q).cmd) : Head(p).do = "flush" \/ Head(p).cmd.dst = y
      BY <2>3, <2>5 DEF FlushesFor
    <3>4. \A y \in Uses(Head(q).cmd), c \in cs : buffer[y] \notin Uses(c)
      BY <2>2, <3>1, <3>3
    <3>5. \A c \in cs : buffer[d] \notin Uses(c) /\ \A y \in Uses(Head(q).cmd) : c.dst # buffer[y]
      BY <3>2, <3>4 DEF Uses
    <3> QED  BY <2>1, <2>5, <3>5 DEF HostReady, Next1
  <2>6. CASE Head(q).do = "data"
    <3>1. d = None /\ s # None
      BY <2>4, <2>6 DEF IsStep
    <3>2. s \in Tensors /\ Live(s) /\ \A w \in Threads : op[w].dst # s
      <4>1. \A w \in Threads : op[w].dst # s
        BY <3>1 DEF Discipline, Locked
      <4> QED  BY <2>2, <3>1, <4>1
    <3>3. S[buffer[s]] = val[s]
      BY <3>2 DEF Settles
    <3>4. Head(p).do = "flush" \/ Head(p).cmd.dst = s
      BY <2>3, <2>6 DEF FlushesFor
    <3>5. mem'[buffer[s]] = S[buffer[s]] /\ \A c \in cs : buffer[s] \notin Uses(c)
      BY <3>2, <3>4
    <3>6. \A c \in cs : c.dst # buffer[s]
      BY <3>5 DEF Uses
    <3> QED  BY <2>1, <2>6, <3>3, <3>5, <3>6 DEF HostReady, Next1
  <2> QED  BY <1>6, <2>5, <2>6
<1> QED  BY <1>5, <1>6

(* The host may act before the commands it does not meet, or after them.   *)
LEMMA HostCommutes ==
  ASSUME Discipline, NEW th \in Threads, Next1(th, "host"), NEW cs \in Seq(CommandsOver(Buffers)),
         HostReady(th, Commands(cs)), NEW m \in [Buffers -> Contents]
  PROVE  ExecAll(Exec(m, NextCommand(th)), cs) = Exec(ExecAll(m, cs), NextCommand(th))
<1> DEFINE a == NextCommand(th)
           b == a.dst
           U == Uses(NextOn(th))
           m2 == Exec(m, a)
<1>1. /\ todo[th] # <<>> /\ Makes(Head(todo[th])) /\ op[th].dst \in Tensors /\ NextOn(th).dst = op[th].dst
      /\ U \subseteq {op[th].dst, op[th].src} \ {None}
  BY HostOperands DEF NextOn
<1>2. /\ a \in CommandsOver(Buffers) /\ U \subseteq Operands(th) /\ a.dst = Loc(th)[NextOn(th).dst]
      /\ Uses(a) = {Loc(th)[x] : x \in U} /\ NextOn(th).dst \in Operands(th)
  BY <1>1, CommandFacts
<1>3. \A x \in Operands(th) \cap Tensors : Loc(th)[x] = buffer[x]
  BY <1>1, LocFacts, NameFacts DEF BufferOf
<1>4. \A y \in U : y \in Tensors /\ Loc(th)[y] = buffer[y]
  BY <1>1, <1>2, <1>3, Busy
<1>5. b = buffer[op[th].dst] /\ b \in Buffers
  BY <1>1, <1>2, <1>3 DEF CommandsOver
<1>6. \A i \in DOMAIN cs : b \notin Uses(cs[i]) /\ \A l \in Uses(a) : cs[i].dst # l
  BY <1>2, <1>4, <1>5 DEF HostReady, Commands, NextOn
<1> HIDE DEF a, b, U
<1>7. m2 \in [Buffers -> Contents] /\ m2 = [l \in Buffers |-> IF l = b THEN Result(m, a) ELSE m[l]]
  BY <1>2, ExecType DEF b
<1>8. ExecAll(m, cs) \in [Buffers -> Contents] /\ ExecAll(m2, cs) \in [Buffers -> Contents]
  BY <1>7, ExecAllType
<1>9. Exec(ExecAll(m, cs), a) = [l \in Buffers |-> IF l = b THEN Result(ExecAll(m, cs), a) ELSE ExecAll(m, cs)[l]]
  BY <1>2, <1>8, ExecType DEF b
<1> HIDE DEF m2
<1>10. \A l \in Buffers \ {b} : ExecAll(m2, cs)[l] = ExecAll(m, cs)[l]
  <2> DEFINE K == Buffers \ {b}
  <2>1. SameOn(m2, m, K)
    BY <1>7 DEF SameOn
  <2>2. \A i \in DOMAIN cs : cs[i] \in CommandsOver(Buffers)
    OBVIOUS
  <2>3. \A i \in DOMAIN cs : Reads(cs[i]) \subseteq Buffers /\ Reads(cs[i]) \subseteq Uses(cs[i])
    <3> TAKE i \in DOMAIN cs
    <3> QED  BY <2>2 DEF Reads, Uses, CommandsOver
  <2>4. ClosedIn(cs, K)
    BY <1>6, <2>3 DEF ClosedIn, ClosedCommand
  <2> HIDE DEF K
  <2>5. SameOn(ExecAll(m2, cs), ExecAll(m, cs), K)
    BY <1>7, <2>1, <2>4, ExecAllAgree DEF K
  <2> QED  BY <2>5 DEF SameOn, K
<1>11. ExecAll(m2, cs)[b] = Result(m, a)
  <2>1. Spares(cs, b)
    BY <1>6 DEF Spares, Uses
  <2>2. ExecAll(m2, cs)[b] = m2[b]
    BY <1>5, <1>7, <2>1, ExecAllUnwritten
  <2> QED  BY <1>5, <1>7, <2>2
<1>12. Result(ExecAll(m, cs), a) = Result(m, a)
  <2>1. Reads(a) \subseteq Buffers /\ Reads(a) \subseteq Uses(a)
    BY <1>2 DEF Reads, Uses, CommandsOver
  <2>2. ASSUME NEW l \in Reads(a) PROVE ExecAll(m, cs)[l] = m[l]
    <3>1. Spares(cs, l)
      BY <1>6, <2>1 DEF Spares
    <3> QED  BY <2>1, <3>1, ExecAllUnwritten
  <2> QED  BY <1>2, <1>8, <2>2, ResultAgree
<1>13. ExecAll(m2, cs) = Exec(ExecAll(m, cs), a)
  BY <1>8, <1>9, <1>10, <1>11, <1>12
<1> QED  BY <1>13 DEF m2, a

-----------------------------------------------------------------------------
(* The sequences of steps operations make are programs                     *)

LEMMA RunOne ==
  ASSUME NEW m, NEW a \in AllSteps
  PROVE  Run(m, <<a>>) = Effect(m, a)
<1>1. <<a>> \in Seq(AllSteps) /\ Head(<<a>>) = a /\ Tail(<<a>>) = <<>> /\ <<a>> # <<>>
  OBVIOUS
<1> QED  BY <1>1, RunHead, RunEmpty

LEMMA RunTwo ==
  ASSUME NEW m, NEW a \in AllSteps, NEW b \in AllSteps
  PROVE  Run(m, <<a, b>>) = Effect(Effect(m, a), b)
<1>1. <<a, b>> \in Seq(AllSteps) /\ Head(<<a, b>>) = a /\ Tail(<<a, b>>) = <<b>> /\ <<a, b>> # <<>>
  OBVIOUS
<1>2. Run(m, <<a, b>>) = Run(Effect(m, a), <<b>>)
  BY <1>1, RunHead
<1> QED  BY <1>2, RunOne

LEMMA RunThree ==
  ASSUME NEW m, NEW a \in AllSteps, NEW b \in AllSteps, NEW c \in AllSteps
  PROVE  Run(m, <<a, b, c>>) = Effect(Effect(Effect(m, a), b), c)
<1>1. /\ <<a, b, c>> \in Seq(AllSteps) /\ Head(<<a, b, c>>) = a /\ Tail(<<a, b, c>>) = <<b, c>>
      /\ <<a, b, c>> # <<>>
  OBVIOUS
<1>2. Run(m, <<a, b, c>>) = Run(Effect(m, a), <<b, c>>)
  BY <1>1, RunHead
<1> QED  BY <1>2, RunTwo
LEMMA StepTypes ==
  /\ \A c \in CommandsOver(Names), do \in StepKinds : Step(do, c) \in AllSteps
  /\ \A x \in Names \cup {None} : Fill(x, 0) \in CommandsOver(Names \cup {None})
  /\ \A x \in Names, v \in Contents : Fill(x, v) \in CommandsOver(Names)
  /\ \A x \in Names, y \in Names : Copy(x, y) \in CommandsOver(Names) /\ Accum(x, y) \in CommandsOver(Names)
  /\ \A x \in Names, y \in Names, z \in Names : Merge(x, y, z) \in CommandsOver(Names)
<1>1. \A c \in CommandsOver(Names) : c \in CommandsOver(Names \cup {None})
  BY DEF CommandsOver
<1>2. \A c \in CommandsOver(Names), do \in StepKinds : Step(do, c) \in AllSteps
  BY <1>1 DEF Step, AllSteps
<1>3. \A x \in Names \cup {None} : Fill(x, 0) \in CommandsOver(Names \cup {None})
  BY NameFacts DEF CommandsOver, Fill
<1>4. \A x \in Names, y \in Names : Copy(x, y) \in CommandsOver(Names) /\ Accum(x, y) \in CommandsOver(Names)
  BY NameFacts DEF CommandsOver, Copy, Accum
<1>5. \A x \in Names, y \in Names, z \in Names : Merge(x, y, z) \in CommandsOver(Names)
  BY NameFacts DEF CommandsOver, Merge
<1> QED  BY <1>2, <1>3, <1>4, <1>5, FillTyped

LEMMA FlushTypes ==
  /\ Flush \in AllSteps /\ Flush.do = "flush"
  /\ \A x \in Names : FlushIfUsed(x) \in AllSteps /\ FlushIfUsed(x).do = "flushused" /\ FlushIfUsed(x).cmd.dst = x
  /\ \A x \in Names : Data(x) \in AllSteps /\ Data(x).do = "data"
  /\ \A x \in Names : Defer(x) \in AllSteps /\ Defer(x).do = "defer" /\ Defer(x).cmd = Fill(x, 0) /\ Defer(x).cmd.dst = x
  /\ \A x \in Names : Alloc(x) \in AllSteps /\ Alloc(x).do = "alloc" /\ Alloc(x).cmd = Fill(x, 0) /\ Alloc(x).cmd.dst = x
  /\ \A x \in Names, v \in Contents :
       /\ Scratch(x, v) \in AllSteps /\ Scratch(x, v).do = "scratch"
       /\ Scratch(x, v).cmd = Fill(x, v) /\ Scratch(x, v).cmd.dst = x
BY StepTypes, NameFacts DEF Flush, FlushIfUsed, Data, Defer, Alloc, Scratch, Step, AllSteps, StepKinds, Fill

(* A command over an output and an input.                                  *)
Between(c, d, s) ==
  /\ d \in Tensors /\ s \in Tensors \cup {None} /\ d # s
  /\ c \in CommandsOver(Names) /\ c.dst = d /\ Uses(c) \subseteq {d, s} \ {None}
  /\ c.op # "merge"

LEMMA BetweenPure ==
  ASSUME NEW d, NEW s, NEW c, Between(c, d, s), NEW m \in [Names -> Contents], NEW n \in [Names -> Contents],
         SameOn(m, n, {d, s} \ {None})
  PROVE  Exec(m, c)[d] = Exec(n, c)[d]
<1>1. Result(m, c) = Result(n, c)
  <2>1. Reads(c) \subseteq Uses(c)
    BY DEF Reads, Uses, Between, CommandsOver
  <2> QED  BY <2>1, ResultAgree DEF SameOn, Between
<1> QED  BY <1>1, NameFacts, ExecType DEF Between

LEMMA OneStepProgram ==
  ASSUME NEW d, NEW s, NEW c, Between(c, d, s), NEW st \in {Dispatch(c), Record(c)}
  PROVE  Program(<<st>>, d, s)
<1> DEFINE p == <<st>>
<1>1. st \in AllSteps /\ st.cmd = c /\ st.do \in {"dispatch", "record"}
  <2>1. c \in CommandsOver(Names) /\ "dispatch" \in StepKinds /\ "record" \in StepKinds
    BY DEF Between, StepKinds
  <2>2. Step("dispatch", c) \in AllSteps /\ Step("record", c) \in AllSteps
    BY <2>1, StepTypes
  <2> QED  BY <2>2 DEF Dispatch, Record, Step
<1>2. Records(st) /\ Makes(st) /\ ~Allocates(st) /\ st.do \notin {"defer", "host", "data"}
  BY <1>1 DEF Records, Makes, Allocates
<1>3. IsStep(st, d, s)
  BY <1>1, <1>2, NameFacts DEF IsStep, Between
<1>4. /\ p \in Seq(AllSteps) /\ DOMAIN p = {1} /\ p[1] = st /\ Head(p) = st /\ p # <<>>
  BY <1>1
<1> HIDE DEF p
<1>5. Allocated(p) = {} /\ Deferred(p) = {}
  BY <1>2, <1>4, CountedFacts
<1>6. Supplied(p, {})
  BY <1>1, <1>2, <1>4, <1>5, NameFacts DEF Supplied, Needs, Between
<1>7. Pure(p, d, s)
  <2> SUFFICES ASSUME NEW m \in [Names -> Contents], NEW n \in [Names -> Contents], SameOn(m, n, {d, s} \ {None})
               PROVE  Run(m, p)[d] = Run(n, p)[d]
    BY DEF Pure
  <2>1. \A k : Run(k, p) = Effect(k, st)
    BY <1>1, RunOne DEF p
  <2>2. \A k : Effect(k, st) = Exec(k, c)
    BY <1>1, <1>2 DEF Effect
  <2>3. Run(m, p) = Exec(m, c) /\ Run(n, p) = Exec(n, c)
    BY <2>1, <2>2
  <2> QED  BY <2>3, BetweenPure
<1>8. Fits(p, d, s, {})
  BY <1>3, <1>4, <1>6 DEF Fits
<1>9. Program(p, d, s)
  BY <1>2, <1>4, <1>7, <1>8, NameFacts DEF Program, Between
<1> QED  BY <1>9 DEF p

LEMMA HostProgram ==
  ASSUME NEW d, NEW s, NEW c, Between(c, d, s), NEW f \in {Flush, FlushIfUsed(d)},
         f = FlushIfUsed(d) => Uses(c) = {d}
  PROVE  Program(<<f, Host(c)>>, d, s)
<1> DEFINE st == Host(c)
           p == <<f, st>>
<1>1. st \in AllSteps /\ st.cmd = c /\ st.do = "host"
  BY StepTypes DEF Between, Host, Step, StepKinds
<1>2. /\ f \in AllSteps /\ f.do \in {"flush", "flushused"} /\ (f.do = "flushused" => f = FlushIfUsed(d) /\ f.cmd.dst = d)
  BY FlushTypes, NameFacts DEF Between
<1>3. Makes(st) /\ ~Allocates(st) /\ ~Records(st) /\ st.do # "defer"
  BY <1>1 DEF Records, Makes, Allocates
<1>4. ~Makes(f) /\ ~Allocates(f) /\ f.do # "defer" /\ ~Records(f)
  BY <1>2 DEF Records, Makes, Allocates
<1>5. IsStep(st, d, s) /\ IsStep(f, d, s)
  BY <1>1, <1>2, <1>3, <1>4, NameFacts DEF IsStep, Between
<1>6. FlushesFor(f, st, s)
  BY <1>1, <1>2 DEF FlushesFor
<1> HIDE DEF st
<1>7. /\ p \in Seq(AllSteps) /\ DOMAIN p = {1, 2} /\ p[1] = f /\ p[2] = st /\ Head(p) = f /\ p # <<>>
  BY <1>1, <1>2
<1> HIDE DEF p
<1>8. Allocated(p) = {} /\ Deferred(p) = {}
  BY <1>1, <1>3, <1>4, <1>7, CountedFacts
<1>9. Supplied(p, {})
  BY <1>1, <1>3, <1>4, <1>7, <1>8, NameFacts DEF Supplied, Needs, Between
<1>10. Precedes(p, 1, 2, d, s)
  BY <1>3, <1>4, <1>6, <1>7 DEF Precedes
<1>11. Fits(p, d, s, {})
  BY <1>5, <1>7, <1>9, <1>10 DEF Fits
<1>12. Pure(p, d, s)
  <2> SUFFICES ASSUME NEW m \in [Names -> Contents], NEW n \in [Names -> Contents], SameOn(m, n, {d, s} \ {None})
               PROVE  Run(m, p)[d] = Run(n, p)[d]
    BY DEF Pure
  <2>1. \A k : Run(k, p) = Effect(Effect(k, f), st)
    BY <1>1, <1>2, RunTwo DEF p
  <2>2. \A k : Effect(k, f) = k /\ Effect(k, st) = Exec(k, c)
    BY <1>1, <1>2, <1>4 DEF Effect
  <2>3. Run(m, p) = Exec(m, c) /\ Run(n, p) = Exec(n, c)
    BY <2>1, <2>2
  <2> QED  BY <2>3, BetweenPure
<1>13. Program(p, d, s)
  BY <1>2, <1>7, <1>11, <1>12, NameFacts DEF Program, Between
<1> QED  BY <1>13 DEF p, st

LEMMA DataProgram ==
  ASSUME NEW s \in Tensors, NEW f \in {Flush, FlushIfUsed(s)}
  PROVE  Program(<<f, Data(s)>>, None, s)
<1> DEFINE st == Data(s)
           p == <<f, st>>
<1>1. st \in AllSteps /\ st.do = "data"
  BY FlushTypes, NameFacts
<1>2. /\ f \in AllSteps /\ f.do \in {"flush", "flushused"} /\ (f.do = "flushused" => f.cmd.dst = s)
  BY FlushTypes, NameFacts
<1>3. ~Makes(st) /\ ~Allocates(st) /\ st.do # "defer"
  BY <1>1 DEF Records, Makes, Allocates
<1>4. ~Makes(f) /\ ~Allocates(f) /\ f.do # "defer"
  BY <1>2 DEF Records, Makes, Allocates
<1>5. IsStep(st, None, s) /\ IsStep(f, None, s)
  BY <1>1, <1>2, <1>3, <1>4, NameFacts DEF IsStep
<1>6. FlushesFor(f, st, s)
  BY <1>1, <1>2 DEF FlushesFor
<1> HIDE DEF st
<1>7. /\ p \in Seq(AllSteps) /\ DOMAIN p = {1, 2} /\ p[1] = f /\ p[2] = st /\ Head(p) = f /\ p # <<>>
  BY <1>1, <1>2
<1> HIDE DEF p
<1>8. Allocated(p) = {} /\ Deferred(p) = {}
  BY <1>1, <1>3, <1>4, <1>7, CountedFacts
<1>9. Supplied(p, {})
  BY <1>1, <1>3, <1>4, <1>7, <1>8 DEF Supplied, Needs
<1>10. Precedes(p, 1, 2, None, s)
  BY <1>1, <1>3, <1>4, <1>6, <1>7 DEF Precedes
<1>11. Fits(p, None, s, {})
  BY <1>5, <1>7, <1>9, <1>10 DEF Fits
<1>12. Program(p, None, s)
  BY <1>2, <1>7, <1>11, NameFacts DEF Program
<1> QED  BY <1>12 DEF p, st

LEMMA FlushProgram == Program(<<Flush>>, None, None)
<1> DEFINE p == <<Flush>>
<1>1. Flush \in AllSteps /\ Flush.do = "flush"
  BY FlushTypes
<1>2. ~Makes(Flush) /\ ~Allocates(Flush)
  BY <1>1 DEF Records, Makes, Allocates
<1>3. IsStep(Flush, None, None)
  BY <1>1, <1>2 DEF IsStep
<1>4. /\ p \in Seq(AllSteps) /\ DOMAIN p = {1} /\ p[1] = Flush /\ Head(p) = Flush /\ p # <<>>
  BY <1>1
<1> HIDE DEF p
<1>5. Allocated(p) = {} /\ Deferred(p) = {}
  BY <1>1, <1>2, <1>4, CountedFacts
<1>6. Supplied(p, {})
  BY <1>1, <1>2, <1>4, <1>5 DEF Supplied, Needs
<1>7. Fits(p, None, None, {})
  BY <1>3, <1>4, <1>6 DEF Fits
<1>8. Program(p, None, None)
  BY <1>1, <1>4, <1>7, NameFacts DEF Program
<1> QED  BY <1>8 DEF p
LEMMA ScratchProgram ==
  ASSUME NEW d \in Tensors, NEW s \in Tensors \cup {None}, d # s, NEW v \in Contents,
         NEW c \in CommandsOver(Names), c.dst = d, Uses(c) \subseteq ({d, s} \ {None}) \cup {X},
         c.op = "merge" => c.aux = X, NEW st \in {Dispatch(c), Record(c)}
  PROVE  Program(<<Scratch(X, v), st, Defer(X)>>, d, s)
<1> DEFINE a == Scratch(X, v)
           f == Defer(X)
           p == <<a, st, f>>
<1>1. st \in AllSteps /\ st.cmd = c /\ st.do \in {"dispatch", "record"}
  <2>1. "dispatch" \in StepKinds /\ "record" \in StepKinds
    BY DEF StepKinds
  <2>2. Step("dispatch", c) \in AllSteps /\ Step("record", c) \in AllSteps
    BY <2>1, StepTypes
  <2> QED  BY <2>2 DEF Dispatch, Record, Step
<1>2. /\ a \in AllSteps /\ a.do = "scratch" /\ a.cmd = Fill(X, v) /\ a.cmd.dst = X
      /\ f \in AllSteps /\ f.do = "defer" /\ f.cmd = Fill(X, 0) /\ f.cmd.dst = X
  BY FlushTypes, NameFacts
<1>3. /\ Records(st) /\ Makes(st) /\ ~Allocates(st) /\ st.do \notin {"defer", "host", "data"}
      /\ Allocates(a) /\ ~Makes(a) /\ ~Records(a) /\ a.do \notin {"defer", "host", "data"}
      /\ ~Allocates(f) /\ ~Makes(f) /\ ~Records(f) /\ f.do \notin {"scratch", "host", "data"}
  BY <1>1, <1>2 DEF Records, Makes, Allocates
<1>4. IsStep(a, d, s) /\ IsStep(st, d, s) /\ IsStep(f, d, s)
  <2>1. X \in Temps /\ d \notin {None}
    BY NameFacts
  <2>2. IsStep(a, d, s)
    BY <1>2, <1>3, <2>1 DEF IsStep
  <2>3. IsStep(st, d, s)
    BY <1>1, <1>3, <2>1 DEF IsStep
  <2>4. IsStep(f, d, s)
    BY <1>2, <1>3, <2>1 DEF IsStep
  <2> QED  BY <2>2, <2>3, <2>4
<1> HIDE DEF a, f
<1>5. /\ p \in Seq(AllSteps) /\ DOMAIN p = {1, 2, 3} /\ p[1] = a /\ p[2] = st /\ p[3] = f /\ Head(p) = a /\ p # <<>>
  BY <1>1, <1>2
<1> HIDE DEF p
<1>6. Allocated(p) = {X} /\ Deferred(p) = {X}
  <2>1. Allocated(p) = {X}
    BY <1>2, <1>3, <1>5, CountedFacts
  <2>2. Deferred(p) = {X}
    BY <1>2, <1>3, <1>5, CountedFacts
  <2> QED  BY <2>1, <2>2
<1>7. Supplied(p, {})
  <2>1. ASSUME NEW i \in DOMAIN p, NEW x \in Temps, Needs(p[i], x)
        PROVE  \E j \in DOMAIN p : j < i /\ Allocates(p[j]) /\ p[j].cmd.dst = x
    <3>1. i \in {2, 3} /\ x = X
      BY <1>1, <1>2, <1>3, <1>5, <2>1, NameFacts DEF Needs
    <3>2. 1 \in DOMAIN p /\ 1 < i /\ Allocates(p[1]) /\ p[1].cmd.dst = x
      BY <1>2, <1>3, <1>5, <3>1
    <3> QED  BY <3>2
  <2> QED  BY <1>6, <2>1 DEF Supplied
<1>8. Precedes(p, 1, 2, d, s) /\ Precedes(p, 1, 3, d, s) /\ Precedes(p, 2, 3, d, s)
  BY <1>3, <1>5 DEF Precedes
<1>9. \A i, j \in DOMAIN p : i < j => Precedes(p, i, j, d, s)
  BY <1>5, <1>8
<1>10. Fits(p, d, s, {})
  BY <1>4, <1>5, <1>7, <1>9 DEF Fits
<1>11. Pure(p, d, s)
  <2> SUFFICES ASSUME NEW m \in [Names -> Contents], NEW n \in [Names -> Contents], SameOn(m, n, {d, s} \ {None})
               PROVE  Run(m, p)[d] = Run(n, p)[d]
    BY DEF Pure
  <2>1. \A k : Run(k, p) = Effect(Effect(Effect(k, a), st), f)
    BY <1>1, <1>2, RunThree DEF p
  <2>2. \A k : Effect(k, a) = Exec(k, Fill(X, v)) /\ Effect(k, st) = Exec(k, c) /\ Effect(k, f) = k
    BY <1>1, <1>2, <1>3 DEF Effect
  <2>3. \A k : Run(k, p) = Exec(Exec(k, Fill(X, v)), c)
    BY <2>1, <2>2
  <2>4. Fill(X, v) \in CommandsOver(Names) /\ Fill(X, v).dst = X /\ \A k : Result(k, Fill(X, v)) = v
    BY FillTyped, NameFacts DEF Fill, Result
  <2> DEFINE m2 == Exec(m, Fill(X, v))
             n2 == Exec(n, Fill(X, v))
  <2>5. /\ m2 \in [Names -> Contents] /\ m2 = [l \in Names |-> IF l = X THEN v ELSE m[l]]
        /\ n2 \in [Names -> Contents] /\ n2 = [l \in Names |-> IF l = X THEN v ELSE n[l]]
    BY <2>4, ExecType
  <2> HIDE DEF m2, n2
  <2>6. \A l \in Uses(c) : l \in Names /\ m2[l] = n2[l]
    <3>1. Uses(c) \subseteq Names
      BY NameFacts
    <3> QED  BY <2>5, <3>1 DEF SameOn
  <2>7. Reads(c) \subseteq Uses(c)
    BY DEF Reads, Uses, CommandsOver
  <2>8. Result(m2, c) = Result(n2, c)
    BY <2>5, <2>6, <2>7, ResultAgree
  <2>9. Exec(m2, c)[d] = Exec(n2, c)[d]
    BY <2>5, <2>8, ExecType, NameFacts
  <2> QED  BY <2>3, <2>9 DEF m2, n2
<1>12. Program(p, d, s)
  BY <1>3, <1>5, <1>10, <1>11, NameFacts DEF Program
<1> QED  BY <1>12 DEF p, a, f

(* An im2col or col2im convolution: two temporaries.                       *)
Convolution(d, s) ==
  <<Alloc(X), Dispatch(Copy(X, s)), Alloc(Y), Dispatch(Copy(Y, X)), Dispatch(Copy(d, Y)), Defer(Y), Defer(X)>>

LEMMA ConvolutionProgram ==
  ASSUME NEW d \in Tensors, NEW s \in Tensors, d # s
  PROVE  Program(Convolution(d, s), d, s)
<1> DEFINE a1 == Alloc(X)
           c2 == Copy(X, s)
           a2 == Dispatch(c2)
           a3 == Alloc(Y)
           c4 == Copy(Y, X)
           a4 == Dispatch(c4)
           c5 == Copy(d, Y)
           a5 == Dispatch(c5)
           a6 == Defer(Y)
           a7 == Defer(X)
           p == <<a1, a2, a3, a4, a5, a6, a7>>
<1>1. /\ X \in Names /\ Y \in Names /\ d \in Names /\ s \in Names /\ X \in Temps /\ Y \in Temps /\ X # Y
      /\ d # None /\ s # None /\ X \notin Tensors /\ Y \notin Tensors /\ d \notin Temps /\ s \notin Temps
      /\ 0 \in Contents
  BY NameFacts
<1>2. /\ a1 \in AllSteps /\ a1.do = "alloc" /\ a1.cmd = Fill(X, 0) /\ a1.cmd.dst = X
      /\ a3 \in AllSteps /\ a3.do = "alloc" /\ a3.cmd = Fill(Y, 0) /\ a3.cmd.dst = Y
      /\ a6 \in AllSteps /\ a6.do = "defer" /\ a6.cmd = Fill(Y, 0) /\ a6.cmd.dst = Y
      /\ a7 \in AllSteps /\ a7.do = "defer" /\ a7.cmd = Fill(X, 0) /\ a7.cmd.dst = X
  BY <1>1, FlushTypes
<1>3. /\ c2 \in CommandsOver(Names) /\ c2.dst = X /\ Uses(c2) = {X, s} /\ \A k : Result(k, c2) = k[s]
      /\ c4 \in CommandsOver(Names) /\ c4.dst = Y /\ Uses(c4) = {X, Y} /\ \A k : Result(k, c4) = k[X]
      /\ c5 \in CommandsOver(Names) /\ c5.dst = d /\ Uses(c5) = {d, Y} /\ \A k : Result(k, c5) = k[Y]
      /\ c2.op = "copy" /\ c4.op = "copy" /\ c5.op = "copy"
  <2>1. c2 \in CommandsOver(Names) /\ c4 \in CommandsOver(Names) /\ c5 \in CommandsOver(Names)
    BY <1>1, StepTypes
  <2> QED  BY <2>1 DEF Copy, Uses, Result
<1>4. "dispatch" \in StepKinds
  BY DEF StepKinds
<1> HIDE DEF a1, c2, a3, c4, c5, a6, a7
<1>5. /\ a2 \in AllSteps /\ a2.do = "dispatch" /\ a2.cmd = c2
      /\ a4 \in AllSteps /\ a4.do = "dispatch" /\ a4.cmd = c4
      /\ a5 \in AllSteps /\ a5.do = "dispatch" /\ a5.cmd = c5
  <2>1. Step("dispatch", c2) \in AllSteps /\ Step("dispatch", c4) \in AllSteps /\ Step("dispatch", c5) \in AllSteps
    BY <1>3, <1>4, StepTypes
  <2> QED  BY <2>1 DEF Dispatch, Step
<1> HIDE DEF a2, a4, a5
<1>6. /\ Allocates(a1) /\ ~Makes(a1) /\ ~Records(a1) /\ a1.do \notin {"defer", "host", "data", "scratch"}
      /\ Allocates(a3) /\ ~Makes(a3) /\ ~Records(a3) /\ a3.do \notin {"defer", "host", "data", "scratch"}
      /\ \A a \in {a2, a4, a5} : Records(a) /\ Makes(a) /\ ~Allocates(a) /\ a.do \notin {"defer", "host", "data"}
      /\ \A a \in {a6, a7} : ~Allocates(a) /\ ~Makes(a) /\ ~Records(a) /\ a.do \notin {"scratch", "host", "data"}
  BY <1>2, <1>5 DEF Records, Makes, Allocates
<1>7. \A a \in {a1, a2, a3, a4, a5, a6, a7} : IsStep(a, d, s)
  <2>1. IsStep(a1, d, s) /\ IsStep(a3, d, s)
    BY <1>1, <1>2, <1>6 DEF IsStep
  <2>2. IsStep(a2, d, s) /\ IsStep(a4, d, s) /\ IsStep(a5, d, s)
    <3>1. \A a \in {a2, a4, a5} : Makes(a) /\ ~Allocates(a) /\ a.do \notin {"defer", "host", "data"}
      BY <1>6
    <3>2. \A a \in {a2, a4, a5} : a.cmd.dst \in {d, X, Y} /\ Uses(a.cmd) \subseteq {d, s, X, Y} /\ a.cmd.op = "copy"
      BY <1>3, <1>5
    <3>3. ASSUME NEW a \in {a2, a4, a5} PROVE IsStep(a, d, s)
      BY <1>1, <3>1, <3>2 DEF IsStep
    <3> QED  BY <3>3
  <2>3. IsStep(a6, d, s) /\ IsStep(a7, d, s)
    BY <1>1, <1>2, <1>6 DEF IsStep
  <2> QED  BY <2>1, <2>2, <2>3
<1>8. /\ p \in Seq(AllSteps) /\ DOMAIN p = 1 .. 7 /\ Head(p) = a1 /\ p # <<>>
      /\ p[1] = a1 /\ p[2] = a2 /\ p[3] = a3 /\ p[4] = a4 /\ p[5] = a5 /\ p[6] = a6 /\ p[7] = a7
  BY <1>2, <1>5
<1> HIDE DEF p
<1>9. \A i \in DOMAIN p : i \in {1, 2, 3, 4, 5, 6, 7}
  BY <1>8
<1>10. {i \in DOMAIN p : Allocates(p[i])} = {1, 3} /\ {i \in DOMAIN p : p[i].do = "defer"} = {6, 7}
  <2>1. \A i \in {1, 2, 3, 4, 5, 6, 7} : (Allocates(p[i]) <=> i \in {1, 3}) /\ (p[i].do = "defer" <=> i \in {6, 7})
    BY <1>2, <1>5, <1>6, <1>8
  <2>2. {1, 3} \subseteq DOMAIN p /\ {6, 7} \subseteq DOMAIN p
    BY <1>8
  <2> QED  BY <1>9, <2>1, <2>2
<1>11. Allocated(p) = {X, Y} /\ Deferred(p) = {X, Y}
  BY <1>2, <1>8, <1>10, CountedFacts
<1>12. Supplied(p, {})
  <2>1. ASSUME NEW i \in DOMAIN p, NEW x \in Temps, Needs(p[i], x)
        PROVE  \E j \in DOMAIN p : j < i /\ Allocates(p[j]) /\ p[j].cmd.dst = x
    <3>1. (x = X /\ i \in {2, 4, 7}) \/ (x = Y /\ i \in {4, 5, 6})
      BY <1>1, <1>2, <1>3, <1>5, <1>6, <1>8, <1>9, <2>1 DEF Needs
    <3>2. 1 \in DOMAIN p /\ 3 \in DOMAIN p /\ Allocates(p[1]) /\ Allocates(p[3]) /\ p[1].cmd.dst = X /\ p[3].cmd.dst = Y
      BY <1>2, <1>6, <1>8
    <3>3. CASE x = X /\ i \in {2, 4, 7}
      <4>1. 1 < i
        BY <3>3
      <4> QED  BY <3>2, <3>3, <4>1
    <3>4. CASE x = Y /\ i \in {4, 5, 6}
      <4>1. 3 < i
        BY <3>4
      <4> QED  BY <3>2, <3>4, <4>1
    <3> QED  BY <3>1, <3>3, <3>4
  <2> QED  BY <1>11, <2>1 DEF Supplied
<1>13. ASSUME NEW i \in DOMAIN p, NEW j \in DOMAIN p, i < j PROVE Precedes(p, i, j, d, s)
  <2>1. /\ \A k \in {1, 2, 3, 4, 5, 6, 7} : Allocates(p[k]) <=> k \in {1, 3}
        /\ \A k \in {1, 2, 3, 4, 5, 6, 7} : p[k].do = "defer" <=> k \in {6, 7}
        /\ \A k \in {1, 2, 3, 4, 5, 6, 7} : Makes(p[k]) /\ p[k].cmd.dst = d <=> k = 5
        /\ \A k \in {1, 2, 3, 4, 5, 6, 7} : p[k].do \notin {"host", "data"}
    BY <1>1, <1>2, <1>3, <1>5, <1>6, <1>8
  <2>2. Allocates(p[i]) /\ Allocates(p[j]) => p[i].cmd.dst # p[j].cmd.dst
    <3>1. Allocates(p[i]) /\ Allocates(p[j]) => i = 1 /\ j = 3
      BY <1>9, <1>13, <2>1
    <3> QED  BY <1>1, <1>2, <1>8, <3>1
  <2>3. p[i].do = "defer" => p[j].do = "defer" /\ p[i].cmd.dst # p[j].cmd.dst
    <3>1. p[i].do = "defer" => i = 6 /\ j = 7
      BY <1>9, <1>13, <2>1
    <3> QED  BY <1>1, <1>2, <1>8, <3>1
  <2>4. Makes(p[i]) /\ p[i].cmd.dst = d => ~Allocates(p[j])
    <3>1. Makes(p[i]) /\ p[i].cmd.dst = d => j \in {6, 7}
      BY <1>9, <1>13, <2>1
    <3> QED  BY <1>9, <2>1, <3>1
  <2> QED  BY <1>9, <2>1, <2>2, <2>3, <2>4 DEF Precedes
<1>14. Fits(p, d, s, {})
  <2>1. \A i \in DOMAIN p : IsStep(p[i], d, s)
    BY <1>7, <1>8, <1>9
  <2> QED  BY <1>8, <1>12, <1>13, <2>1 DEF Fits
<1>15. ASSUME NEW m \in [Names -> Contents] PROVE Run(m, p)[d] = m[s]
  <2>1. Run(m, p) = Effect(Effect(Effect(Effect(Effect(Effect(Effect(m, a1), a2), a3), a4), a5), a6), a7)
    <3>1. /\ a1 \in AllSteps /\ a2 \in AllSteps /\ a3 \in AllSteps /\ a4 \in AllSteps
          /\ a5 \in AllSteps /\ a6 \in AllSteps /\ a7 \in AllSteps
      BY <1>2, <1>5
    <3>2. /\ <<a1, a2, a3, a4, a5, a6, a7>> \in Seq(AllSteps) /\ Head(<<a1, a2, a3, a4, a5, a6, a7>>) = a1
          /\ Tail(<<a1, a2, a3, a4, a5, a6, a7>>) = <<a2, a3, a4, a5, a6, a7>> /\ <<a1, a2, a3, a4, a5, a6, a7>> # <<>>
      BY <3>1
    <3>3. \A k : Run(k, <<a1, a2, a3, a4, a5, a6, a7>>) = Run(Effect(k, a1), <<a2, a3, a4, a5, a6, a7>>)
      BY <3>2, RunHead
    <3>4. /\ <<a2, a3, a4, a5, a6, a7>> \in Seq(AllSteps) /\ Head(<<a2, a3, a4, a5, a6, a7>>) = a2
          /\ Tail(<<a2, a3, a4, a5, a6, a7>>) = <<a3, a4, a5, a6, a7>> /\ <<a2, a3, a4, a5, a6, a7>> # <<>>
      BY <3>1
    <3>5. \A k : Run(k, <<a2, a3, a4, a5, a6, a7>>) = Run(Effect(k, a2), <<a3, a4, a5, a6, a7>>)
      BY <3>4, RunHead
    <3>6. /\ <<a3, a4, a5, a6, a7>> \in Seq(AllSteps) /\ Head(<<a3, a4, a5, a6, a7>>) = a3
          /\ Tail(<<a3, a4, a5, a6, a7>>) = <<a4, a5, a6, a7>> /\ <<a3, a4, a5, a6, a7>> # <<>>
      BY <3>1
    <3>7. \A k : Run(k, <<a3, a4, a5, a6, a7>>) = Run(Effect(k, a3), <<a4, a5, a6, a7>>)
      BY <3>6, RunHead
    <3>8. /\ <<a4, a5, a6, a7>> \in Seq(AllSteps) /\ Head(<<a4, a5, a6, a7>>) = a4
          /\ Tail(<<a4, a5, a6, a7>>) = <<a5, a6, a7>> /\ <<a4, a5, a6, a7>> # <<>>
      BY <3>1
    <3>9. \A k : Run(k, <<a4, a5, a6, a7>>) = Run(Effect(k, a4), <<a5, a6, a7>>)
      BY <3>8, RunHead
    <3>10. \A k : Run(k, <<a5, a6, a7>>) = Effect(Effect(Effect(k, a5), a6), a7)
      BY <3>1, RunThree
    <3> QED  BY <3>3, <3>5, <3>7, <3>9, <3>10 DEF p
  <2>2. \A k : /\ Effect(k, a1) = k /\ Effect(k, a3) = k /\ Effect(k, a6) = k /\ Effect(k, a7) = k
               /\ Effect(k, a2) = Exec(k, c2) /\ Effect(k, a4) = Exec(k, c4) /\ Effect(k, a5) = Exec(k, c5)
    BY <1>2, <1>5, <1>6 DEF Effect
  <2>3. Run(m, p) = Exec(Exec(Exec(m, c2), c4), c5)
    BY <2>1, <2>2
  <2> DEFINE m1 == Exec(m, c2)
             m2 == Exec(m1, c4)
             m3 == Exec(m2, c5)
  <2>4. m1 \in [Names -> Contents] /\ m1 = [l \in Names |-> IF l = X THEN m[s] ELSE m[l]]
    BY <1>3, ExecType
  <2> HIDE DEF m1
  <2>5. m2 \in [Names -> Contents] /\ m2 = [l \in Names |-> IF l = Y THEN m1[X] ELSE m1[l]]
    <3>1. c4 \in CommandsOver(Names) /\ c4.dst = Y /\ Result(m1, c4) = m1[X]
      BY <1>3
    <3> QED  BY <2>4, <3>1, ExecType
  <2> HIDE DEF m2
  <2>6. m3 = [l \in Names |-> IF l = d THEN m2[Y] ELSE m2[l]]
    BY <1>3, <2>5, ExecType
  <2> HIDE DEF m3
  <2>7. m3[d] = m[s]
    BY <1>1, <2>4, <2>5, <2>6
  <2> QED  BY <2>3, <2>7 DEF m1, m2, m3
<1>16. Pure(p, d, s)
  BY <1>1, <1>15 DEF Pure, SameOn
<1>17. Program(p, d, s)
  BY <1>1, <1>6, <1>8, <1>14, <1>16 DEF Program
<1> QED  BY <1>17 DEF p, a1, a2, a3, a4, a5, a6, a7, c2, c4, c5, Convolution

-----------------------------------------------------------------------------
(* The steps both backends share, whatever commands cs have not run        *)

SharedStep(th) ==
  \/ DeferFree(th) \/ HostAccess(th) \/ AllocFails(th)
  \/ \E b \in Buffers : AllocTemp(th, b)

(* The buffers in the pools or in use.                                     *)
Known == free_bufs \cup pool \cup {Place[k] : k \in Keys}

LEMMA SharedStepGoes ==
  ASSUME Discipline, NEW th \in Threads, SharedStep(th), profiled' = profiled
  PROVE  /\ Discipline' /\ UNCHANGED <<cmds, ctx, buffer>> /\ pool' \subseteq pool
         /\ Known' \subseteq Known \cup {None}
         /\ todo[th] # <<>> /\ Head(todo[th]).do \in {"defer", "host", "data", "alloc", "scratch"}
         /\ SameBut(Own(th), mem, mem')
         /\ \E q, r, T : Going(th, q, r, T) /\ (q # <<>> => Head(q).do \notin {"host", "data"})
<1>1. CASE DeferFree(th)
  <2> DEFINE x == Head(todo[th]).cmd.dst
  <2>1. /\ Discipline' /\ todo[th] # <<>> /\ Head(todo[th]).do = "defer" /\ x \in Held(th)
        /\ free_bufs' = free_bufs \cup {Place[<<th, x>>]}
        /\ PlacesBut({<<th, x>>}) /\ Place'[<<th, x>>] = None
    BY <1>1, DeferDisciplined
  <2>2. Advance(th) /\ UNCHANGED <<mem, cmds, ctx, pool, buffer>>
    BY <1>1 DEF DeferFree
  <2>3. ~Allocates(Head(todo[th]))
    BY <2>1, KindFacts
  <2>4. Going(th, Tail(todo[th]), op[th].result, temp[th])
    BY <2>1, <2>2, <2>3, TailGoing
  <2>5. Tail(todo[th]) # <<>> => Head(Tail(todo[th])).do \notin {"host", "data"}
    BY <2>1, NoHostAfter
  <2>6. SameBut(Own(th), mem, mem')
    BY <2>2 DEF SameBut
  <2>7. Known' \subseteq Known \cup {None}
    <3>1. <<th, x>> \in Keys
      BY <2>1, PlaceFacts, Busy
    <3> HIDE DEF x
    <3> QED  BY <2>1, <2>2, <3>1 DEF Known, PlacesBut
  <2> QED  BY <2>1, <2>2, <2>4, <2>5, <2>6, <2>7
<1>2. CASE HostAccess(th)
  <2>1. /\ Discipline' /\ PlacesBut({}) /\ todo[th] # <<>> /\ Advance(th)
        /\ Head(todo[th]).do \in {"host", "data"} /\ UNCHANGED <<cmds, ctx, bufs>>
        /\ mem' = IF Head(todo[th]).do = "host" THEN Exec(mem, NextCommand(th)) ELSE mem
    BY <1>2, HostDisciplined
  <2>2. UNCHANGED <<free_bufs, pool, buffer>>
    BY <2>1 DEF bufs
  <2>3. ~Allocates(Head(todo[th]))
    BY <2>1, KindFacts
  <2>4. Going(th, Tail(todo[th]), op[th].result, temp[th])
    BY <2>1, <2>2, <2>3, TailGoing
  <2>5. Tail(todo[th]) # <<>> => Head(Tail(todo[th])).do \notin {"host", "data"}
    BY <2>1, NoHostAfter
  <2>6. SameBut(Own(th), mem, mem')
    <3>1. CASE Head(todo[th]).do = "host"
      <4>1. Makes(Head(todo[th])) /\ mem \in [Buffers -> Contents]
        BY <3>1, KindFacts DEF Discipline, DeviceTyped
      <4> QED  BY <2>1, <3>1, <4>1, MadeKeeps
    <3>2. CASE Head(todo[th]).do # "host"
      BY <2>1, <3>2 DEF SameBut
    <3> QED  BY <3>1, <3>2
  <2>7. Known' \subseteq Known \cup {None}
    BY <2>1, <2>2 DEF Known, PlacesBut
  <2> QED  BY <2>1, <2>2, <2>4, <2>5, <2>6, <2>7
<1>3. CASE AllocFails(th)
  <2>1. /\ Discipline' /\ PlacesBut({}) /\ todo[th] # <<>> /\ Allocates(Head(todo[th]))
        /\ Abort(th) /\ UNCHANGED <<mem, cmds, ctx, bufs>>
    BY <1>3, AllocFailsDisciplined
  <2>2. UNCHANGED <<free_bufs, pool, buffer>>
    BY <2>1 DEF bufs
  <2>3. /\ Going(th, Given(th), OldContents(th), temp[th])
        /\ \A i \in DOMAIN Given(th) : Given(th)[i].do = "defer"
    BY <2>1, <2>2, AbortGoing
  <2>4. Given(th) # <<>> => Head(Given(th)).do \notin {"host", "data"}
    <3>1. Given(th) \in Seq(AllSteps)
      BY <2>3 DEF Going
    <3>2. Given(th) # <<>> => 1 \in DOMAIN Given(th) /\ Head(Given(th)) = Given(th)[1]
      BY <3>1, TailFacts
    <3> QED  BY <2>3, <3>2
  <2>5. SameBut(Own(th), mem, mem')
    BY <2>1 DEF SameBut
  <2>6. Known' \subseteq Known \cup {None}
    BY <2>1, <2>2 DEF Known, PlacesBut
  <2>7. Head(todo[th]).do \in {"alloc", "scratch"}
    BY <2>1 DEF Allocates
  <2> QED  BY <2>1, <2>2, <2>3, <2>4, <2>5, <2>6, <2>7
<1>4. ASSUME NEW b \in Buffers, AllocTemp(th, b)
      PROVE  /\ Discipline' /\ UNCHANGED <<cmds, ctx, buffer>> /\ pool' \subseteq pool
             /\ Known' \subseteq Known \cup {None}
             /\ todo[th] # <<>> /\ Head(todo[th]).do \in {"defer", "host", "data", "alloc", "scratch"}
             /\ SameBut(Own(th), mem, mem')
             /\ \E q, r, T : Going(th, q, r, T) /\ (q # <<>> => Head(q).do \notin {"host", "data"})
  <2> DEFINE x == NextOn(th).dst
  <2>1. /\ Discipline' /\ todo[th] # <<>> /\ Allocates(Head(todo[th]))
        /\ Going(th, Tail(todo[th]), op[th].result, Taken(th, b))
        /\ PlacesBut({<<th, x>>}) /\ Place'[<<th, x>>] = b /\ b \in pool
    BY <1>4, AllocTempDisciplined
  <2>2. /\ UNCHANGED <<cmds, ctx, buffer, free_bufs>> /\ pool' = pool \ {b}
        /\ \E v : mem' = [mem EXCEPT ![b] = v]
    BY <1>4 DEF AllocTemp, Take
  <2>3. Head(todo[th]).do \in {"alloc", "scratch"}
    BY <2>1 DEF Allocates
  <2>4. Tail(todo[th]) # <<>> => Head(Tail(todo[th])).do \notin {"host", "data"}
    BY <2>1, <2>3, NoHostAfter
  <2>5. SameBut(Own(th), mem, mem')
    <3>1. \A k \in Keys : Place[k] # b
      BY <2>1 DEF Discipline, Owners
    <3>2. mem \in [Buffers -> Contents]
      BY DEF Discipline, DeviceTyped
    <3>3. \A c \in Buffers \ {b} : mem'[c] = mem[c]
      BY <2>2, <3>2
    <3> QED  BY <3>1, <3>3, PlaceFacts DEF SameBut
  <2>6. Known' \subseteq Known \cup {None}
    <3> HIDE DEF x
    <3> QED  BY <2>1, <2>2 DEF Known, PlacesBut
  <2> QED  BY <2>1, <2>2, <2>3, <2>4, <2>5, <2>6
<1> QED  BY <1>1, <1>2, <1>3, <1>4 DEF SharedStep

LEMMA SharedStepKeeps ==
  ASSUME Discipline, NEW th \in Threads, SharedStep(th), profiled' = profiled,
         NEW cs, \A u \in Threads : HostReady(u, cs)
  PROVE  /\ Discipline' /\ UNCHANGED <<cmds, ctx, buffer>> /\ pool' \subseteq pool
         /\ Known' \subseteq Known \cup {None}
         /\ todo[th] # <<>> /\ Head(todo[th]).do \in {"defer", "host", "data", "alloc", "scratch"}
         /\ \A u \in Threads \ {th} : todo'[u] = todo[u] /\ op'[u] = op[u]
         /\ DOMAIN todo' = Threads
         /\ \A u \in Threads : HostReady(u, cs)'
<1>1. /\ Discipline' /\ UNCHANGED <<cmds, ctx, buffer>> /\ pool' \subseteq pool
      /\ Known' \subseteq Known \cup {None}
      /\ todo[th] # <<>> /\ Head(todo[th]).do \in {"defer", "host", "data", "alloc", "scratch"}
      /\ SameBut(Own(th), mem, mem')
  BY SharedStepGoes
<1>2. PICK q, r, T : Going(th, q, r, T) /\ (q # <<>> => Head(q).do \notin {"host", "data"})
  BY SharedStepGoes
<1>3. /\ todo' = [todo EXCEPT ![th] = q]
      /\ op' = [op EXCEPT ![th] = IF q = <<>> THEN NoOp ELSE [@ EXCEPT !.result = r]]
  BY <1>2, ContinueChanges
<1>4. HostReady(th, cs)'
  BY <1>2, <1>3, NoHostNext
<1>5. ASSUME NEW u \in Threads, u # th PROVE HostReady(u, cs)'
  BY <1>1, <1>2, <1>5, HostContinues
<1>6. DOMAIN todo = Threads /\ DOMAIN op = Threads
  BY DEF Discipline, CallsTyped
<1> QED  BY <1>1, <1>3, <1>4, <1>5, <1>6

(* The contents of a buffer the commands do not touch is as it was made,   *)
(* and theirs do not depend on it.                                         *)
LEMMA ExecAllElsewhere ==
  ASSUME NEW cs \in Seq(CommandsOver(Buffers)), NEW b \in Buffers \ Touched(cs),
         NEW m \in [Buffers -> Contents], NEW m2 \in [Buffers -> Contents], SameOn(m2, m, Buffers \ {b})
  PROVE  ExecAll(m2, cs)[b] = m2[b] /\ SameOn(ExecAll(m2, cs), ExecAll(m, cs), Buffers \ {b})
<1> DEFINE K == Buffers \ {b}
<1>1. \A i \in DOMAIN cs : cs[i] \in CommandsOver(Buffers) /\ b \notin Uses(cs[i])
  BY DEF Touched, Uses
<1>2. \A c \in CommandsOver(Buffers) : Reads(c) \subseteq Buffers /\ Reads(c) \subseteq Uses(c) /\ c.dst \in Uses(c)
  BY DEF Reads, Uses, CommandsOver
<1>3. Spares(cs, b) /\ ClosedIn(cs, K)
  BY <1>1, <1>2 DEF Spares, ClosedIn, ClosedCommand
<1>4. ExecAll(m2, cs)[b] = m2[b]
  BY <1>3, ExecAllUnwritten
<1>5. K \in SUBSET Buffers /\ SameOn(m2, m, K)
  OBVIOUS
<1> HIDE DEF K
<1>6. SameOn(ExecAll(m2, cs), ExecAll(m, cs), K)
  BY <1>3, <1>5, ExecAllAgree
<1> QED  BY <1>4, <1>6 DEF K

LEMMA MadeElsewhere ==
  ASSUME Discipline, NEW b \in pool, NEW v \in Contents, mem' = [mem EXCEPT ![b] = v],
         NEW cs \in Seq(CommandsOver(Buffers)), pool \cap Touched(cs) = {}
  PROVE  /\ ExecAll(mem', cs)[b] = v
         /\ \A c \in Buffers \ {b} : ExecAll(mem', cs)[c] = ExecAll(mem, cs)[c]
<1>1. b \in Buffers \ Touched(cs) /\ mem \in [Buffers -> Contents]
  BY DEF Discipline, DeviceTyped
<1>2. mem' \in [Buffers -> Contents] /\ mem'[b] = v /\ SameOn(mem', mem, Buffers \ {b})
  BY <1>1 DEF SameOn
<1>3. PICK m \in [Buffers -> Contents], m2 \in [Buffers -> Contents] : m = mem /\ m2 = mem'
  BY <1>1, <1>2
<1>4. SameOn(m2, m, Buffers \ {b}) /\ m2[b] = v
  BY <1>2, <1>3
<1>5. ExecAll(m2, cs)[b] = m2[b] /\ SameOn(ExecAll(m2, cs), ExecAll(m, cs), Buffers \ {b})
  BY <1>1, <1>4, ExecAllElsewhere
<1> QED  BY <1>3, <1>4, <1>5 DEF SameOn

LEMMA SharedStepAgrees ==
  ASSUME Discipline, NEW th \in Threads, SharedStep(th), profiled' = profiled,
         NEW cs \in Seq(CommandsOver(Buffers)), pool \cap Touched(cs) = {}, HostReady(th, Commands(cs)),
         NEW R, NEW R2, NEW S, NEW S2, S = ExecAll(mem, cs), S2 = ExecAll(mem', cs), Agreement(R, S),
         R[th] = todo[th], R2[th] = todo'[th], \A u \in Threads \ {th} : R2[u] = R[u]
  PROVE  Agreement(R2, S2)'
<1>1. mem \in [Buffers -> Contents] /\ S \in [Buffers -> Contents] /\ todo[th] # <<>> /\ DOMAIN todo = Threads
  BY ExecAllType, SharedStepGoes DEF Discipline, DeviceTyped, CallsTyped
<1>2. CASE DeferFree(th)
  <2>1. mem' = mem /\ todo' = [todo EXCEPT ![th] = Tail(todo[th])]
    BY <1>2 DEF DeferFree, Advance, Continue
  <2> QED  BY <1>1, <1>2, <2>1, DeferAgrees
<1>3. CASE HostAccess(th)
  <2>1. /\ Advance(th) /\ UNCHANGED bufs
        /\ Head(todo[th]).do \in {"host", "data"}
        /\ mem' = IF Head(todo[th]).do = "host" THEN Exec(mem, NextCommand(th)) ELSE mem
    BY <1>3, HostDisciplined
  <2>2. R2[th] = Tail(todo[th]) /\ buffer' = buffer
    BY <1>1, <2>1 DEF Advance, Continue, bufs
  <2>3. ~Allocates(Head(todo[th])) /\ Head(todo[th]).do # "defer"
    BY <2>1, KindFacts
  <2>4. CASE Head(todo[th]).do = "host"
    <3>1. Next1(th, "host") /\ Makes(Head(todo[th]))
      BY <1>1, <2>4, KindFacts DEF Next1
    <3>2. S2 = Exec(S, NextCommand(th))
      BY <1>1, <2>1, <2>4, <3>1, HostCommutes
    <3>3. Agreement(R2, S2)
      BY <1>1, <2>2, <3>1, <3>2, MadeSettles
    <3>4. S2 \in [Buffers -> Contents]
      BY <1>1, <3>1, <3>2, MadeKeeps
    <3> QED  BY <1>1, <2>1, <2>2, <2>3, <3>3, <3>4, AdvanceAgrees
  <2>5. CASE Head(todo[th]).do = "data"
    <3>1. S2 = S
      BY <2>1, <2>5
    <3>2. Agreement(R2, S)
      BY <1>1, <2>2, <2>5, SkipSettles
    <3> QED  BY <1>1, <2>1, <2>2, <2>3, <3>1, <3>2, AdvanceAgrees
  <2> QED  BY <2>1, <2>4, <2>5
<1>4. CASE AllocFails(th)
  <2>1. mem' = mem /\ todo' = [todo EXCEPT ![th] = Given(th)]
    BY <1>4 DEF AllocFails, Abort, Continue, Given
  <2> QED  BY <1>1, <1>4, <2>1, AbortAgrees
<1>5. ASSUME NEW b \in Buffers, AllocTemp(th, b) PROVE Agreement(R2, S2)'
  <2>1. b \in pool /\ todo' = [todo EXCEPT ![th] = Tail(todo[th])] /\ Allocates(Head(todo[th]))
    BY <1>5 DEF AllocTemp, Take, Continue
  <2>2. PICK v \in Contents : mem' = [mem EXCEPT ![b] = v] /\ (Head(todo[th]).do = "scratch" => v = NextOn(th).val)
    BY <1>5 DEF AllocTemp, NextOn
  <2>3. PICK m2 \in [Buffers -> Contents] : m2 = mem'
    BY <1>1, <2>2
  <2>4. S2 \in [Buffers -> Contents]
    BY <2>3, ExecAllType
  <2>5. S2[b] = v /\ \A c \in Buffers \ {b} : S2[c] = S[c]
    <3>1. mem' = [mem EXCEPT ![b] = v]
      BY <2>2
    <3>2. /\ ExecAll(mem', cs)[b] = v
          /\ \A c \in Buffers \ {b} : ExecAll(mem', cs)[c] = ExecAll(mem, cs)[c]
      BY <2>1, <3>1, MadeElsewhere
    <3> QED  BY <3>2
  <2>6. R2[th] = Tail(todo[th])
    BY <1>1, <2>1
  <2>7. Head(todo[th]).do = "scratch" => S2[b] = NextOn(th).val
    BY <2>2, <2>5
  <2> QED  BY <1>1, <1>5, <2>4, <2>5, <2>6, <2>7, AllocAgrees
<1> QED  BY <1>2, <1>3, <1>4, <1>5 DEF SharedStep

LEMMA BeginKeeps ==
  ASSUME Discipline, NEW th \in Threads, NEW d, NEW s, NEW p, Begin(th, d, s, p), Program(p, d, s),
         profiled' = profiled, NEW cs, \A u \in Threads : HostReady(u, cs)
  PROVE  /\ Discipline' /\ UNCHANGED <<mem, cmds, ctx, bufs>> /\ Known' \subseteq Known
         /\ todo[th] = <<>> /\ \A u \in Threads \ {th} : todo'[u] = todo[u]
         /\ DOMAIN todo' = Threads /\ todo'[th] = p
         /\ \A u \in Threads : HostReady(u, cs)'
<1>1. /\ Discipline' /\ PlacesBut({}) /\ todo[th] = <<>> /\ todo' = [todo EXCEPT ![th] = p]
      /\ op' = [op EXCEPT ![th] = [dst |-> d, src |-> s, result |-> IF d = None THEN 0 ELSE Run(Values, p)[d]]]
      /\ UNCHANGED <<val, read, mem, cmds, ctx, free_bufs, pool, buffer, temp>>
  BY BeginDisciplined
<1>2. DOMAIN todo = Threads /\ DOMAIN op = Threads
  BY DEF Discipline, CallsTyped
<1>3. HostReady(th, cs)'
  BY <1>1, NoHostNext DEF Program
<1>4. ASSUME NEW u \in Threads, u # th PROVE HostReady(u, cs)'
  <2>1. op'[u] = op[u] /\ todo'[u] = todo[u]
    BY <1>1, <1>2, <1>4
  <2> QED  BY <1>1, <2>1, HostStays
<1>5. Known' \subseteq Known
  BY <1>1 DEF Known, PlacesBut
<1> QED  BY <1>1, <1>2, <1>3, <1>4, <1>5 DEF bufs

LEMMA NewStorageKeeps ==
  ASSUME Discipline, NEW t \in Tensors, NEW b \in Buffers, NEW v \in Contents, NewStorage(t, b, v),
         profiled' = profiled, NEW cs, \A u \in Threads : HostReady(u, cs)
  PROVE  /\ Discipline' /\ UNCHANGED <<cmds, ctx, threads>> /\ pool' \subseteq pool
         /\ Known' \subseteq Known /\ b \in pool /\ buffer' = [buffer EXCEPT ![t] = b]
         /\ \A u \in Threads : HostReady(u, cs)'
<1>1. Discipline' /\ PlacesBut({t}) /\ Place'[t] = b /\ b \in pool
  BY NewStorageDisciplined
<1>2. /\ UNCHANGED <<cmds, ctx, threads, free_bufs>> /\ pool' = pool \ {b}
      /\ buffer' = [buffer EXCEPT ![t] = b] /\ mem' = [mem EXCEPT ![b] = v] /\ val' = [val EXCEPT ![t] = v] /\ ~Live(t)
  BY DEF NewStorage, Take, Create, Live
<1>3. Known' \subseteq Known
  BY <1>1, <1>2 DEF Known, PlacesBut
<1>4. /\ mem \in [Buffers -> Contents] /\ buffer \in [Tensors -> Buffers \cup {None}]
      /\ val \in [Tensors -> Contents \cup {None}]
  BY DEF Discipline, EagerTyped, DeviceTyped
<1>5. ASSUME NEW u \in Threads PROVE HostReady(u, cs)'
  <2>1. \A x \in {op[u].dst, op[u].src} \ {None} : x \in Tensors /\ x # t
    <3>1. todo[u] = <<>> => op[u].dst = None /\ op[u].src = None
      BY Idle
    <3> QED  BY <1>2, <3>1, Busy
  <2>2. \A x \in {op[u].dst, op[u].src} \ {None} : buffer'[x] = buffer[x] /\ val'[x] = val[x]
    BY <1>2, <1>4, <2>1
  <2>3. ASSUME Next1(u, "data")
        PROVE  val'[op[u].src] = val[op[u].src] /\ mem'[buffer[op[u].src]] = mem[buffer[op[u].src]]
    <3>1. op[u].src \in Tensors /\ op[u].src # None /\ buffer[op[u].src] \in Buffers
      BY <2>3, HostOperands
    <3>2. buffer[op[u].src] # b
      BY <1>1, <3>1, PlaceFacts DEF Discipline, Owners
    <3> QED  BY <1>2, <1>4, <2>2, <3>1, <3>2
  <2>4. op' = op /\ todo' = todo
    BY <1>2 DEF threads
  <2> QED  BY <2>2, <2>3, <2>4, HostStays
<1> QED  BY <1>1, <1>2, <1>3, <1>5

LEMMA DropStorageKeeps ==
  ASSUME Discipline, NEW t \in Tensors, DropStorage(t), profiled' = profiled,
         NEW cs, \A u \in Threads : HostReady(u, cs)
  PROVE  /\ Discipline' /\ UNCHANGED <<mem, cmds, ctx, pool, threads>> /\ Known' \subseteq Known \cup {None}
         /\ buffer' = [buffer EXCEPT ![t] = None] /\ ctx = None
         /\ \A u \in Threads : HostReady(u, cs)'
<1>1. /\ Discipline' /\ PlacesBut({t}) /\ Place'[t] = None /\ free_bufs' = free_bufs \cup {Place[t]}
  BY DropStorageDisciplined
<1>2. /\ UNCHANGED <<mem, cmds, ctx, pool, threads>> /\ ctx = None
      /\ buffer' = [buffer EXCEPT ![t] = None] /\ val' = [val EXCEPT ![t] = None]
      /\ \A u \in Threads : op[u].dst # t /\ op[u].src # t
  BY DEF DropStorage, Discard, Unused, Readable
<1>3. Known' \subseteq Known \cup {None}
  BY <1>1, <1>2, PlaceFacts DEF Known, PlacesBut
<1>4. /\ buffer \in [Tensors -> Buffers \cup {None}] /\ val \in [Tensors -> Contents \cup {None}]
  BY DEF Discipline, EagerTyped, DeviceTyped
<1>5. ASSUME NEW u \in Threads PROVE HostReady(u, cs)'
  <2>1. op' = op /\ todo' = todo
    BY <1>2 DEF threads
  <2>2. \A x \in {op[u].dst, op[u].src} \ {None} : buffer'[x] = buffer[x]
    BY <1>2, <1>4
  <2>3. Next1(u, "data") => val'[op[u].src] = val[op[u].src] /\ mem'[buffer[op[u].src]] = mem[buffer[op[u].src]]
    BY <1>2, <1>4
  <2> QED  BY <2>1, <2>2, <2>3, HostStays
<1> QED  BY <1>1, <1>2, <1>3, <1>5

LEMMA NewStorageKeepsAgreement ==
  ASSUME Discipline, NEW t \in Tensors, NEW b \in Buffers, NEW v \in Contents, NewStorage(t, b, v),
         NEW cs \in Seq(CommandsOver(Buffers)), pool \cap Touched(cs) = {},
         NEW R, NEW S, NEW S2, S = ExecAll(mem, cs), S2 = ExecAll(mem', cs), Agreement(R, S)
  PROVE  Agreement(R, S2)'
<1>1. mem \in [Buffers -> Contents] /\ b \in pool /\ mem' = [mem EXCEPT ![b] = v]
  BY DEF Discipline, DeviceTyped, NewStorage, Take
<1>2. /\ ExecAll(mem', cs)[b] = v
      /\ \A c \in Buffers \ {b} : ExecAll(mem', cs)[c] = ExecAll(mem, cs)[c]
  BY <1>1, MadeElsewhere
<1>3. S2[b] = v /\ \A c \in Buffers \ {b} : S2[c] = S[c]
  BY <1>2
<1> QED  BY <1>3, NewStorageAgrees

-----------------------------------------------------------------------------
(* Recording                                                               *)

LEMMA CommandLists ==
  /\ Commands(<<>>) = {} /\ Touched(<<>>) = {}
  /\ \A cs \in Seq(CommandsOver(Buffers)) :
       /\ Touched(cs) \subseteq Buffers /\ Commands(cs) \subseteq CommandsOver(Buffers)
       /\ Touched(cs) = UNION {Uses(c) : c \in Commands(cs)}
       /\ \A c \in CommandsOver(Buffers) :
            /\ Append(cs, c) \in Seq(CommandsOver(Buffers)) /\ Append(cs, c) # <<>>
            /\ Len(Append(cs, c)) = Len(cs) + 1
            /\ Commands(Append(cs, c)) = Commands(cs) \cup {c}
            /\ Touched(Append(cs, c)) = Touched(cs) \cup Uses(c)
<1>1. Commands(<<>>) = {} /\ Touched(<<>>) = {}
  BY DEF Commands, Touched
<1>2. ASSUME NEW cs \in Seq(CommandsOver(Buffers))
      PROVE  /\ Touched(cs) \subseteq Buffers /\ Commands(cs) \subseteq CommandsOver(Buffers)
             /\ Touched(cs) = UNION {Uses(c) : c \in Commands(cs)}
  <2>1. \A i \in DOMAIN cs : cs[i] \in CommandsOver(Buffers)
    OBVIOUS
  <2>2. \A c \in CommandsOver(Buffers) : Uses(c) \subseteq Buffers
    BY DEF Uses, CommandsOver
  <2>3. Touched(cs) = UNION {Uses(cs[i]) : i \in DOMAIN cs}
    BY DEF Touched, Uses
  <2>4. UNION {Uses(cs[i]) : i \in DOMAIN cs} = UNION {Uses(c) : c \in Commands(cs)}
    BY DEF Commands
  <2>5. Commands(cs) \subseteq CommandsOver(Buffers)
    BY <2>1 DEF Commands
  <2> QED  BY <2>1, <2>2, <2>3, <2>4, <2>5
<1>3. ASSUME NEW cs \in Seq(CommandsOver(Buffers)), NEW c \in CommandsOver(Buffers)
      PROVE  /\ Append(cs, c) \in Seq(CommandsOver(Buffers)) /\ Append(cs, c) # <<>>
             /\ Len(Append(cs, c)) = Len(cs) + 1
             /\ Commands(Append(cs, c)) = Commands(cs) \cup {c}
             /\ Touched(Append(cs, c)) = Touched(cs) \cup Uses(c)
  <2> DEFINE cs2 == Append(cs, c)
  <2>1. /\ cs2 \in Seq(CommandsOver(Buffers)) /\ Len(cs2) = Len(cs) + 1 /\ Len(cs) \in Nat
        /\ DOMAIN cs = 1 .. Len(cs) /\ DOMAIN cs2 = 1 .. Len(cs) + 1
        /\ \A i \in 1 .. Len(cs) : cs2[i] = cs[i]
        /\ cs2[Len(cs) + 1] = c
    OBVIOUS
  <2> HIDE DEF cs2
  <2>2. cs2 # <<>>
    BY <2>1
  <2>3. \A i \in DOMAIN cs2 : i \in DOMAIN cs \/ i = Len(cs) + 1
    BY <2>1
  <2>4. DOMAIN cs \subseteq DOMAIN cs2 /\ Len(cs) + 1 \in DOMAIN cs2
    BY <2>1
  <2>5. Commands(cs2) = Commands(cs) \cup {c}
    BY <2>1, <2>3, <2>4 DEF Commands
  <2>6. Touched(cs2) = Touched(cs) \cup Uses(c)
    BY <1>2, <2>1, <2>5
  <2> QED  BY <2>1, <2>2, <2>5, <2>6 DEF cs2
<1> QED  BY <1>1, <1>2, <1>3

(* What a thread records names buffers of its operands.                    *)
LEMMA RecordFacts ==
  ASSUME Discipline, NEW th \in Threads, todo[th] # <<>>, Records(Head(todo[th]))
  PROVE  /\ Makes(Head(todo[th])) /\ ~Allocates(Head(todo[th]))
         /\ Head(todo[th]).do \notin {"defer", "flush", "flushused", "host", "data"}
         /\ NextCommand(th) \in CommandsOver(Buffers)
         /\ Uses(NextCommand(th)) \subseteq {Place[k] : k \in Keys}
         /\ Uses(NextCommand(th)) \cap (free_bufs \cup pool) = {}
<1>1. /\ Makes(Head(todo[th])) /\ ~Allocates(Head(todo[th]))
      /\ Head(todo[th]).do \notin {"defer", "flush", "flushused", "host", "data"}
  BY KindFacts
<1>2. /\ NextCommand(th) \in CommandsOver(Buffers) /\ Uses(NextOn(th)) \subseteq Operands(th)
      /\ Uses(NextCommand(th)) = {Loc(th)[x] : x \in Uses(NextOn(th))}
  BY <1>1, CommandFacts
<1>3. \A x \in Operands(th) : \E k \in Keys : Loc(th)[x] = Place[k]
  BY LocFacts
<1>4. Uses(NextCommand(th)) \subseteq {Place[k] : k \in Keys}
  BY <1>2, <1>3
<1>5. \A k \in Keys : Place[k] \notin free_bufs \cup pool
  BY DEF Discipline, Owners
<1> QED  BY <1>1, <1>2, <1>4, <1>5

LEMMA RecordReadies ==
  ASSUME Discipline, NEW th \in Threads, todo[th] # <<>>, Records(Head(todo[th])),
         Advance(th), buffer' = buffer, SameBut({}, mem, mem'),
         NEW cs, NEW cs2, cs2 \subseteq cs \cup {NextCommand(th)}, \A u \in Threads : HostReady(u, cs)
  PROVE  \A u \in Threads : HostReady(u, cs2)'
<1>1. /\ Makes(Head(todo[th])) /\ ~Allocates(Head(todo[th]))
      /\ Head(todo[th]).do \notin {"defer", "flush", "flushused", "host", "data"}
  BY RecordFacts
<1>2. Going(th, Tail(todo[th]), op[th].result, temp[th])
  BY <1>1, TailGoing
<1>3. Tail(todo[th]) # <<>> => Head(Tail(todo[th])).do \notin {"host", "data"}
  BY <1>1, NoHostAfter
<1>4. todo' = [todo EXCEPT ![th] = Tail(todo[th])]
  BY DEF Advance, Continue
<1>5. HostReady(th, cs2)'
  BY <1>3, <1>4, NoHostNext
<1>6. SameBut(Own(th), mem, mem')
  BY DEF SameBut
<1>7. ASSUME NEW u \in Threads, u # th PROVE HostReady(u, cs2)'
  <2>1. Clear(u, NextCommand(th))
    BY <1>1, <1>7, CommandsApart
  <2>2. \A c \in cs2 : c \in cs \/ Clear(u, c)
    BY <2>1
  <2> QED  BY <1>2, <1>6, <1>7, <2>2, HostContinues
<1> QED  BY <1>5, <1>7

LEMMA RecordAgrees ==
  ASSUME Discipline, NEW th \in Threads, todo[th] # <<>>, Records(Head(todo[th])),
         NEW R, NEW R2, NEW S \in [Buffers -> Contents], Agreement(R, S),
         R[th] = todo[th], R2[th] = Tail(todo[th]), \A u \in Threads \ {th} : R2[u] = R[u]
  PROVE  Agreement(R2, Exec(S, NextCommand(th))) /\ Exec(S, NextCommand(th)) \in [Buffers -> Contents]
<1>1. Makes(Head(todo[th]))
  BY RecordFacts
<1>2. Exec(S, NextCommand(th)) \in [Buffers -> Contents]
  BY <1>1, MadeKeeps
<1> QED  BY <1>1, <1>2, MadeSettles

LEMMA AllTyped ==
  ASSUME Discipline
  PROVE  SharedTypeOK
<1>1. /\ EagerTyped /\ DeviceTyped /\ CallsTyped /\ \A u \in Threads : Remains(u)
  BY DEF Discipline
<1>2. Touched(cmds) \subseteq Buffers
  BY <1>1, CommandLists DEF DeviceTyped
<1> QED  BY <1>1, <1>2 DEF SharedTypeOK, EagerTypeOK, EagerTyped, DeviceTyped, CallsTyped, Remains

LEMMA Readies ==
  ASSUME NEW cs, \A th \in Threads : HostReady(th, cs)
  PROVE  ReadsRight
BY DEF ReadsRight, HostReady

(* The tensors whose buffers a recorded command names.                     *)
LEMMA RecordNames ==
  ASSUME Discipline, NEW th \in Threads, todo[th] # <<>>, Records(Head(todo[th])),
         NEW t \in Tensors, buffer[t] \in Uses(NextCommand(th))
  PROVE  t \in {NextOn(th).dst, NextOn(th).src}
<1>1. Makes(Head(todo[th]))
  BY RecordFacts
<1>2. PICK x \in Uses(NextOn(th)) : buffer[t] = Loc(th)[x]
  BY <1>1, CommandFacts
<1>3. x \in Operands(th) /\ (NextOn(th).op = "merge" => NextOn(th).aux \in Temps)
  BY <1>1, <1>2, CommandFacts
<1>4. /\ Key(th, x) \in Keys /\ Loc(th)[x] = Place[Key(th, x)] /\ Place[Key(th, x)] \in Buffers
      /\ x \in Names
  BY <1>3, LocFacts
<1>5. t \in Keys /\ Place[t] = buffer[t]
  BY PlaceFacts
<1>6. t = Key(th, x)
  BY <1>2, <1>4, <1>5, NameFacts DEF Discipline, Owners
<1>7. x \notin Temps
  BY <1>6, KeyFacts
<1> QED  BY <1>2, <1>3, <1>6, <1>7 DEF Uses, Key
=============================================================================
