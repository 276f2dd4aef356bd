------------------------- MODULE CudaCaptureProofs -------------------------
(***************************************************************************)
(* The safety of graph capture in the CUDA backend, and that what it       *)
(* captures computes what eager execution would, for every number of       *)
(* threads, storages, contents and staged buffers, and for every length of *)
(* a captured workload.                                                    *)
(***************************************************************************)
EXTENDS CudaInductive

-----------------------------------------------------------------------------
(* Cells                                                                   *)

LEMMA CellFacts ==
  ASSUME NEW th \in Threads
  PROVE  /\ \A x \in Names : Cell(th, x) \in Cells
         /\ \A x, y \in Names : Cell(th, x) = Cell(th, y) => x = y
         /\ \A x \in Tensors : Cell(th, x) = x
         /\ \A x \in Temps : Cell(th, x) = <<th, x>>
         /\ \A x \in Names : Cell(th, x) \in Tensors \cup (Threads \X Temps)
<1>1. \A x \in Tensors : x \notin Temps
  BY CaptureAssumption
<1>2. \A x \in Names : Cell(th, x) = IF x \in Temps THEN <<th, x>> ELSE x
  BY DEF Cell
<1>3. \A x \in Temps : <<th, x>> \in Threads \X Temps /\ <<th, x>> \notin Tensors
  BY CaptureAssumption
<1>4. \A x \in Names : Cell(th, x) \in Tensors \cup (Threads \X Temps)
  BY <1>2, <1>3 DEF Names
<1>5. \A x, y \in Names : Cell(th, x) = Cell(th, y) => x = y
  BY <1>2, <1>3 DEF Names
<1> QED  BY <1>1, <1>2, <1>4, <1>5 DEF Cells, Names, Cell

LEMMA InCellsFacts ==
  ASSUME NEW th \in Threads, NEW c \in CommandsOver(Names)
  PROVE  /\ InCells(th, c) \in CommandsOver(Cells)
         /\ InCells(th, c).op = c.op /\ InCells(th, c).val = c.val
         /\ InCells(th, c).dst = Cell(th, c.dst) /\ InCells(th, c).src = Cell(th, c.src)
         /\ c.op = "merge" => InCells(th, c).aux = Cell(th, c.aux)
<1>1. c \in [op : {"fill", "accum", "copy", "merge"}, dst : Names, src : Names,
             aux : Names \cup {0}, val : Contents]
  BY DEF CommandsOver
<1>2. c.aux \in IF c.op = "merge" THEN Names ELSE {0}
  BY DEF CommandsOver
<1> DEFINE aux == IF c.op = "merge" THEN Cell(th, c.aux) ELSE c.aux
<1> HIDE DEF aux
<1>3. InCells(th, c) = [op |-> c.op, dst |-> Cell(th, c.dst), src |-> Cell(th, c.src),
                        aux |-> aux, val |-> c.val]
  <2>1. InCells(th, c) = [c EXCEPT !.dst = Cell(th, c.dst), !.src = Cell(th, c.src), !.aux = aux]
    BY DEF InCells, aux
  <2> QED  BY <1>1, <2>1
<1>4. aux \in IF c.op = "merge" THEN Cells ELSE {0}
  BY <1>2, CellFacts DEF aux
<1>5. Cell(th, c.dst) \in Cells /\ Cell(th, c.src) \in Cells
  BY <1>1, CellFacts
<1> QED  BY <1>1, <1>3, <1>4, <1>5 DEF CommandsOver, aux

LEMMA SeenTyped ==
  ASSUME NEW th \in Threads, NEW m \in [Cells -> Contents]
  PROVE  SeenBy(th, m) \in [Names -> Contents]
BY CellFacts DEF SeenBy

LEMMA SeenResult ==
  ASSUME NEW th \in Threads, NEW m \in [Cells -> Contents], NEW c \in CommandsOver(Names)
  PROVE  Result(m, InCells(th, c)) = Result(SeenBy(th, m), c)
<1>1. /\ c.op \in {"fill", "accum", "copy", "merge"} /\ c.dst \in Names /\ c.src \in Names
      /\ c.op = "merge" => c.aux \in Names
  BY DEF CommandsOver
<1>2. \A x \in Names : SeenBy(th, m)[x] = m[Cell(th, x)]
  BY DEF SeenBy
<1>3. CASE c.op = "fill"
  BY <1>3, InCellsFacts DEF Result
<1>4. CASE c.op = "accum"
  BY <1>1, <1>2, <1>4, InCellsFacts DEF Result
<1>5. CASE c.op = "copy"
  BY <1>1, <1>2, <1>5, InCellsFacts DEF Result
<1>6. CASE c.op = "merge"
  BY <1>1, <1>2, <1>6, InCellsFacts DEF Result
<1> QED  BY <1>1, <1>3, <1>4, <1>5, <1>6

(* A thread sees a command on its cells do what it does to the names.      *)
LEMMA SeenExec ==
  ASSUME NEW th \in Threads, NEW m \in [Cells -> Contents], NEW c \in CommandsOver(Names)
  PROVE  /\ Exec(m, InCells(th, c)) \in [Cells -> Contents]
         /\ SeenBy(th, Exec(m, InCells(th, c))) = Exec(SeenBy(th, m), c)
         /\ \A l \in Cells : l # Cell(th, c.dst) => Exec(m, InCells(th, c))[l] = m[l]
<1> DEFINE C == InCells(th, c)
           v == Result(m, C)
<1>1. c.dst \in Names
  BY DEF CommandsOver
<1>2. C \in CommandsOver(Cells) /\ C.dst = Cell(th, c.dst)
  BY InCellsFacts
<1>3. v = Result(SeenBy(th, m), c)
  BY SeenResult
<1> HIDE DEF C, v
<1>4. /\ Exec(m, C) \in [Cells -> Contents]
      /\ Exec(m, C) = [l \in Cells |-> IF l = C.dst THEN v ELSE m[l]]
  BY <1>2, ExecType DEF v
<1>5. Exec(SeenBy(th, m), c) = [x \in Names |-> IF x = c.dst THEN v ELSE SeenBy(th, m)[x]]
  BY <1>3, SeenTyped, ExecType
<1>6. \A x \in Names : Cell(th, x) \in Cells /\ (Cell(th, x) = Cell(th, c.dst) <=> x = c.dst)
  BY <1>1, CellFacts
<1>7. SeenBy(th, Exec(m, C)) = [x \in Names |-> Exec(m, C)[Cell(th, x)]]
  BY DEF SeenBy
<1>8. \A x \in Names : SeenBy(th, m)[x] = m[Cell(th, x)]
  BY DEF SeenBy
<1>9. \A x \in Names : Exec(m, C)[Cell(th, x)] = IF x = c.dst THEN v ELSE m[Cell(th, x)]
  BY <1>2, <1>4, <1>6
<1>10. SeenBy(th, Exec(m, C)) = Exec(SeenBy(th, m), c)
  BY <1>5, <1>7, <1>8, <1>9
<1> QED  BY <1>2, <1>4, <1>10 DEF C

(* Copying from where contents are staged fills with those contents.       *)
LEMMA CopyOfStaged ==
  ASSUME NEW th \in Threads, NEW m \in [Cells -> Contents], NEW x \in Names, NEW b \in Cells,
         NEW v \in Contents, m[b] = v
  PROVE  /\ Fill(x, v) \in CommandsOver(Names)
         /\ Copy(Cell(th, x), b) \in CommandsOver(Cells)
         /\ Exec(m, Copy(Cell(th, x), b)) = Exec(m, InCells(th, Fill(x, v)))
<1>1. Fill(x, v) \in CommandsOver(Names)
  BY DEF Fill, CommandsOver
<1>2. 0 \in Contents /\ Cell(th, x) \in Cells
  BY NValAssumption, CellFacts DEF Contents
<1>3. Copy(Cell(th, x), b) \in CommandsOver(Cells)
  BY <1>2 DEF Copy, CommandsOver
<1>4. Result(m, Copy(Cell(th, x), b)) = v
  BY DEF Result, Copy
<1>5. /\ InCells(th, Fill(x, v)).op = "fill" /\ InCells(th, Fill(x, v)).val = v
      /\ InCells(th, Fill(x, v)).dst = Cell(th, x)
  BY <1>1, InCellsFacts DEF Fill
<1>6. Result(m, InCells(th, Fill(x, v))) = v
  BY <1>5 DEF Result
<1>7. Copy(Cell(th, x), b).dst = Cell(th, x)
  BY DEF Copy
<1> QED  BY <1>1, <1>3, <1>4, <1>5, <1>6, <1>7 DEF Exec

-----------------------------------------------------------------------------
(* Lists of commands                                                       *)

LEMMA FirstThenRest ==
  ASSUME NEW L, NEW m, NEW c \in CommandsOver(L), NEW cs \in Seq(CommandsOver(L))
  PROVE  ExecAll(m, <<c>> \o cs) = ExecAll(Exec(m, c), cs)
<1>1. <<c>> \in Seq(CommandsOver(L)) /\ <<c>> = Append(<<>>, c) /\ <<>> \in Seq(CommandsOver(L))
  BY EmptySeq
<1>2. ExecAll(m, <<c>>) = Exec(m, c)
  <2>1. \A xs \in Seq(CommandsOver(L)) : ExecAll(m, Append(xs, c)) = Exec(ExecAll(m, xs), c)
    BY ExecAllAppend
  <2>2. ExecAll(m, Append(<<>>, c)) = Exec(ExecAll(m, <<>>), c)
    BY <1>1, <2>1, Zenon
  <2>3. ExecAll(m, <<>>) = m
    BY ExecAllEmpty
  <2> QED  BY <1>1, <2>2, <2>3, Zenon
<1>3. \A bs \in Seq(CommandsOver(L)) : ExecAll(m, bs \o cs) = ExecAll(ExecAll(m, bs), cs)
  BY ExecAllConcat
<1> QED  BY <1>1, <1>2, <1>3, Zenon

(* The first step of an operation, and the others.                         *)
Rest(d, s, p, r) ==
  /\ r \in Effective(d, s) /\ r # p
  /\ \A i \in DOMAIN r : r[i].do = "launch"
  /\ r # <<>> => Head(r).do = "launch"
  /\ Len(p) = 1 <=> r = <<>>

LEMMA CmdsFacts ==
  ASSUME NEW d, NEW s, NEW p \in Effective(d, s)
  PROVE  /\ Cmds(p) \in Seq(CommandsOver(Names)) /\ DOMAIN Cmds(p) = DOMAIN p
         /\ \A i \in DOMAIN p : Cmds(p)[i] = p[i].cmd /\ p[i] \in StepsOf(d, s)
         /\ p = <<>> => Cmds(p) = <<>>
         /\ p # <<>> =>
              /\ Head(p) \in StepsOf(d, s) /\ Head(p).cmd \in CommandsOver(Names)
              /\ Cmds(p) = <<Head(p).cmd>> \o Cmds(Tail(p))
              /\ Rest(d, s, p, Tail(p))
<1>1. p \in Seq(StepsOf(d, s)) /\ \A i \in DOMAIN p : i # 1 => p[i].do = "launch"
  BY DEF Effective
<1>2. \A st \in StepsOf(d, s) : st.cmd \in CommandsOver(Names)
  BY DEF StepsOf
<1> HIDE DEF StepsOf
<1>3. \A q \in Seq(StepsOf(d, s)) : Cmds(q) \in Seq(CommandsOver(Names)) /\ DOMAIN Cmds(q) = DOMAIN q
                                   /\ \A i \in DOMAIN q : Cmds(q)[i] = q[i].cmd /\ q[i] \in StepsOf(d, s)
  <2> SUFFICES ASSUME NEW q \in Seq(StepsOf(d, s))
               PROVE  /\ Cmds(q) \in Seq(CommandsOver(Names)) /\ DOMAIN Cmds(q) = DOMAIN q
                      /\ \A i \in DOMAIN q : Cmds(q)[i] = q[i].cmd /\ q[i] \in StepsOf(d, s)
    OBVIOUS
  <2>1. DOMAIN q = 1 .. Len(q) /\ Len(q) \in Nat /\ \A i \in 1 .. Len(q) : q[i] \in StepsOf(d, s)
    OBVIOUS
  <2>2. Cmds(q) = [i \in 1 .. Len(q) |-> q[i].cmd]
    BY <2>1 DEF Cmds
  <2>3. Cmds(q) \in [1 .. Len(q) -> CommandsOver(Names)]
    BY <1>2, <2>1, <2>2
  <2> QED  BY <2>1, <2>2, <2>3, SeqDef
<1>4. ASSUME p = <<>> PROVE Cmds(p) = <<>>
  <2>1. DOMAIN p = {}
    BY <1>4
  <2>2. Cmds(p) \in Seq(CommandsOver(Names)) /\ DOMAIN Cmds(p) = {}
    BY <1>1, <1>3, <2>1
  <2> HIDE DEF Cmds
  <2>3. Len(Cmds(p)) \in Nat /\ DOMAIN Cmds(p) = 1 .. Len(Cmds(p))
    BY <2>2
  <2>4. Len(Cmds(p)) = 0
    BY <2>2, <2>3
  <2> QED  BY <2>2, <2>4, EmptySeq
<1>5. ASSUME p # <<>>
      PROVE  /\ Head(p) \in StepsOf(d, s) /\ Tail(p) \in Seq(StepsOf(d, s))
             /\ Head(p) = p[1] /\ Len(Tail(p)) = Len(p) - 1 /\ Len(p) \in Nat /\ Len(p) > 0
             /\ \A i \in 1 .. Len(Tail(p)) : Tail(p)[i] = p[i + 1] /\ i + 1 \in DOMAIN p /\ i + 1 # 1
  BY <1>1, <1>5
<1>6. ASSUME p # <<>>
      PROVE  /\ \A i \in DOMAIN Tail(p) : Tail(p)[i].do = "launch"
             /\ Tail(p) \in Effective(d, s)
  <2>1. \A i \in DOMAIN Tail(p) : Tail(p)[i].do = "launch"
    BY <1>1, <1>5, <1>6
  <2> QED  BY <1>5, <1>6, <2>1 DEF Effective
<1>7. ASSUME p # <<>>
      PROVE  Cmds(p) = <<Head(p).cmd>> \o Cmds(Tail(p))
  <2> DEFINE r == Tail(p)
  <2>1. r \in Seq(StepsOf(d, s)) /\ Len(p) = Len(r) + 1 /\ Len(r) \in Nat
        /\ Head(p) = p[1] /\ \A i \in 1 .. Len(r) : r[i] = p[i + 1]
    BY <1>5, <1>7
  <2> HIDE DEF r
  <2>2. Cmds(r) \in Seq(CommandsOver(Names)) /\ Len(Cmds(r)) = Len(r) /\ \A i \in 1 .. Len(r) : Cmds(r)[i] = r[i].cmd
    BY <1>3, <2>1
  <2>3. Cmds(p) \in Seq(CommandsOver(Names)) /\ Len(Cmds(p)) = Len(r) + 1 /\ \A i \in 1 .. Len(r) + 1 : Cmds(p)[i] = p[i].cmd
    BY <1>1, <1>3, <2>1
  <2> DEFINE C == <<Head(p).cmd>> \o Cmds(r)
  <2>4. /\ C \in Seq(CommandsOver(Names)) /\ Len(C) = Len(r) + 1
        /\ \A i \in 1 .. Len(r) + 1 : C[i] = IF i = 1 THEN Head(p).cmd ELSE Cmds(r)[i - 1]
    BY <1>2, <1>5, <1>7, <2>2
  <2> HIDE DEF C
  <2>5. \A i \in 1 .. Len(r) + 1 : C[i] = Cmds(p)[i]
    <3>0. C[1] = Cmds(p)[1]
      BY <2>1, <2>3, <2>4
    <3> SUFFICES ASSUME NEW i \in 1 .. Len(r) + 1, i # 1 PROVE Cmds(r)[i - 1] = p[i].cmd
      BY <2>3, <2>4, <3>0
    <3>1. i - 1 \in 1 .. Len(r) /\ i - 1 + 1 = i
      BY <2>1
    <3> QED  BY <2>1, <2>2, <3>1
  <2>6. C = Cmds(p)
    BY <2>3, <2>4, <2>5, SeqEqual
  <2> QED  BY <2>6 DEF C, r
<1>8. ASSUME p # <<>>, Tail(p) # <<>> PROVE Head(Tail(p)).do = "launch"
  <2>1. 1 \in DOMAIN Tail(p) /\ Head(Tail(p)) = Tail(p)[1]
    BY <1>5, <1>8
  <2> QED  BY <1>6, <1>8, <2>1
<1>9. ASSUME p # <<>> PROVE Tail(p) # p /\ (Len(p) = 1 <=> Tail(p) = <<>>)
  <2>1. Len(Tail(p)) # Len(p) /\ (Len(p) = 1 <=> Len(Tail(p)) = 0)
    BY <1>5, <1>9
  <2>2. Tail(p) = <<>> <=> Len(Tail(p)) = 0
    BY <1>5, <1>9, EmptySeq
  <2> QED  BY <2>1, <2>2
<1>10. ASSUME p # <<>> PROVE Rest(d, s, p, Tail(p))
  BY <1>6, <1>8, <1>9, <1>10 DEF Rest
<1> HIDE DEF Cmds
<1> QED  BY <1>1, <1>2, <1>3, <1>4, <1>5, <1>7, <1>10

LEMMA StepThenRest ==
  ASSUME NEW d, NEW s, NEW p \in Effective(d, s), p # <<>>, NEW m
  PROVE  ExecAll(m, Cmds(p)) = ExecAll(Exec(m, Head(p).cmd), Cmds(Tail(p)))
<1>0. Rest(d, s, p, Tail(p))
  BY CmdsFacts
<1>1. /\ Head(p).cmd \in CommandsOver(Names) /\ Cmds(p) = <<Head(p).cmd>> \o Cmds(Tail(p))
      /\ Tail(p) \in Effective(d, s)
  BY <1>0, CmdsFacts DEF Rest
<1>2. Cmds(Tail(p)) \in Seq(CommandsOver(Names))
  BY <1>1, CmdsFacts
<1>3. ExecAll(m, <<Head(p).cmd>> \o Cmds(Tail(p))) = ExecAll(Exec(m, Head(p).cmd), Cmds(Tail(p)))
  BY <1>1, <1>2, FirstThenRest
<1> QED  BY <1>1, <1>3

(* What a list does to the storages depends only on what is in K.          *)
Steady(cs, K) ==
  \A m \in [Names -> Contents], n \in [Names -> Contents] :
    SameOn(m, n, K) => SameOn(ExecAll(m, cs), ExecAll(n, cs), Tensors)

LEMMA SteadyStep ==
  ASSUME NEW d, NEW s, NEW p \in Effective(d, s), p # <<>>,
         NEW K \in SUBSET Names, Reads(Head(p).cmd) \subseteq K,
         Steady(Cmds(Tail(p)), K \cup {Head(p).cmd.dst})
  PROVE  Steady(Cmds(p), K)
<1> DEFINE c == Head(p).cmd
           T == Cmds(Tail(p))
<1>1. c \in CommandsOver(Names) /\ Reads(c) \subseteq K /\ Steady(T, K \cup {c.dst})
  BY CmdsFacts
<1>2. \A m : ExecAll(m, Cmds(p)) = ExecAll(Exec(m, c), T)
  BY StepThenRest
<1> HIDE DEF c, T
<1> SUFFICES ASSUME NEW m \in [Names -> Contents], NEW n \in [Names -> Contents], SameOn(m, n, K)
             PROVE  SameOn(ExecAll(m, Cmds(p)), ExecAll(n, Cmds(p)), Tensors)
  BY DEF Steady
<1>3. Result(m, c) = Result(n, c)
  <2>1. \A l \in Reads(c) : m[l] = n[l]
    BY <1>1 DEF SameOn
  <2> QED  BY <1>1, <2>1, ResultAgree
<1>4. /\ Exec(m, c) \in [Names -> Contents] /\ Exec(n, c) \in [Names -> Contents]
      /\ Exec(m, c) = [l \in Names |-> IF l = c.dst THEN Result(m, c) ELSE m[l]]
      /\ Exec(n, c) = [l \in Names |-> IF l = c.dst THEN Result(n, c) ELSE n[l]]
  BY <1>1, ExecType
<1>5. c.dst \in Names
  BY <1>1 DEF CommandsOver
<1>6. SameOn(Exec(m, c), Exec(n, c), K \cup {c.dst})
  BY <1>3, <1>4, <1>5 DEF SameOn
<1>7. SameOn(ExecAll(Exec(m, c), T), ExecAll(Exec(n, c), T), Tensors)
  BY <1>1, <1>4, <1>6 DEF Steady
<1> QED  BY <1>2, <1>7

LEMMA SteadyEmpty == ASSUME NEW K, Tensors \subseteq K PROVE Steady(<<>>, K)
<1> SUFFICES ASSUME NEW m \in [Names -> Contents], NEW n \in [Names -> Contents], SameOn(m, n, K)
             PROVE  SameOn(ExecAll(m, <<>>), ExecAll(n, <<>>), Tensors)
  BY DEF Steady
<1>1. ExecAll(m, <<>>) = m /\ ExecAll(n, <<>>) = n
  BY ExecAllEmpty
<1> QED  BY <1>1 DEF SameOn

LEMMA NamesOf == /\ Tensors \subseteq Names /\ Temps \subseteq Names
                 /\ X \in Temps /\ Y \in Temps /\ X \in Names /\ Y \in Names
                 /\ \A d, s : \A a \in StepsOf(d, s) : a.cmd.dst \in Names
BY DEF Names, Temps, StepsOf, CommandsOver

LEMMA OneStep ==
  ASSUME NEW d \in Tensors, NEW s, NEW a \in StepsOf(d, s),
         NEW K \in SUBSET Names, Tensors \subseteq K, Reads(a.cmd) \subseteq K
  PROVE  <<a>> \in Effective(d, s) /\ Steady(Cmds(<<a>>), K)
<1> DEFINE p == <<a>>
<1> HIDE DEF StepsOf
<1>1. p \in Effective(d, s)
  BY DEF Effective
<1>2. p # <<>> /\ Head(p) = a /\ Tail(p) = <<>>
  OBVIOUS
<1> HIDE DEF p
<1>3. <<>> \in Effective(d, s)
  BY EmptySeq DEF Effective
<1>4. Cmds(<<>>) = <<>>
  BY <1>3, CmdsFacts
<1>5. Steady(Cmds(Tail(p)), K \cup {Head(p).cmd.dst})
  BY <1>2, <1>4, SteadyEmpty
<1> QED  BY <1>1, <1>2, <1>5, SteadyStep DEF p

LEMMA TwoSteps ==
  ASSUME NEW d \in Tensors, NEW s, NEW a \in StepsOf(d, s), NEW b \in StepsOf(d, s),
         b.do = "launch",
         NEW K \in SUBSET Names, Tensors \subseteq K, Reads(a.cmd) \subseteq K,
         Reads(b.cmd) \subseteq K \cup {a.cmd.dst}
  PROVE  <<a, b>> \in Effective(d, s) /\ Steady(Cmds(<<a, b>>), K)
<1> DEFINE p == <<a, b>>
<1> HIDE DEF StepsOf
<1>1. p \in Effective(d, s)
  BY DEF Effective
<1>2. p # <<>> /\ Head(p) = a /\ Tail(p) = <<b>>
  OBVIOUS
<1> HIDE DEF p
<1>3. K \cup {a.cmd.dst} \in SUBSET Names /\ Tensors \subseteq K \cup {a.cmd.dst}
  BY NamesOf
<1>4. Steady(Cmds(Tail(p)), K \cup {Head(p).cmd.dst})
  BY <1>2, <1>3, OneStep
<1> QED  BY <1>1, <1>2, <1>4, SteadyStep DEF p

LEMMA ThreeSteps ==
  ASSUME NEW d \in Tensors, NEW s, NEW a \in StepsOf(d, s), NEW b \in StepsOf(d, s),
         NEW c \in StepsOf(d, s), b.do = "launch", c.do = "launch",
         Reads(a.cmd) \subseteq Tensors,
         Reads(b.cmd) \subseteq Tensors \cup {a.cmd.dst},
         Reads(c.cmd) \subseteq Tensors \cup {a.cmd.dst} \cup {b.cmd.dst}
  PROVE  <<a, b, c>> \in Effective(d, s) /\ Steady(Cmds(<<a, b, c>>), Tensors)
<1> DEFINE p == <<a, b, c>>
           K == Tensors \cup {a.cmd.dst}
<1> HIDE DEF StepsOf
<1>1. p \in Effective(d, s)
  BY DEF Effective
<1>2. p # <<>> /\ Head(p) = a /\ Tail(p) = <<b, c>>
  OBVIOUS
<1> HIDE DEF p
<1>3. K \in SUBSET Names /\ Tensors \subseteq K /\ Tensors \in SUBSET Names
  BY NamesOf
<1>4. Steady(Cmds(<<b, c>>), K)
  <2>1. Reads(b.cmd) \subseteq K /\ Reads(c.cmd) \subseteq K \cup {b.cmd.dst}
    OBVIOUS
  <2> HIDE DEF K
  <2> QED  BY <1>3, <2>1, TwoSteps
<1>5. Steady(Cmds(Tail(p)), Tensors \cup {Head(p).cmd.dst})
  BY <1>2, <1>4
<1> QED  BY <1>1, <1>2, <1>3, <1>5, SteadyStep DEF p

-----------------------------------------------------------------------------
(* The operations of CudaOps                                               *)

LEMMA CommandTypes ==
  ASSUME NEW x \in Names, NEW y \in Names
  PROVE  /\ Copy(x, y) \in CommandsOver(Names) /\ Accum(x, y) \in CommandsOver(Names)
         /\ \A z \in Names : Merge(x, y, z) \in CommandsOver(Names)
         /\ \A v \in Contents : Fill(x, v) \in CommandsOver(Names)
<1>1. 0 \in Contents
  BY NValAssumption DEF Contents
<1> QED  BY <1>1 DEF Fill, Accum, Copy, Merge, CommandsOver

LEMMA CommandReads ==
  \A x, y, z, v :
    /\ Reads(Copy(x, y)) = {y} /\ Copy(x, y).dst = x
    /\ Reads(Accum(x, y)) = {x, y} /\ Accum(x, y).dst = x
    /\ Reads(Merge(x, y, z)) = {y, z} /\ Merge(x, y, z).dst = x
    /\ Reads(Fill(x, v)) = {} /\ Fill(x, v).dst = x /\ Fill(x, v).val = v
BY DEF Reads, Copy, Accum, Merge, Fill

LEMMA StepKinds ==
  ASSUME NEW d \in Tensors, NEW s
  PROVE  /\ \A c \in CommandsOver(Names) :
              c.dst \in {d} \cup Temps /\ Reads(c) \subseteq {d, s} \cup Temps =>
                Launch(c) \in StepsOf(d, s) /\ Launch(c).do = "launch" /\ Launch(c).cmd = c
         /\ \A v \in Inputs :
              Upload(X, v) \in StepsOf(d, s) /\ Upload(X, v).cmd = Fill(X, v)
         /\ HostCopy(X, 0) \in StepsOf(d, s) /\ HostCopy(X, 0).cmd = Fill(X, 0)
<1>1. \A c \in CommandsOver(Names) :
        c.dst \in {d} \cup Temps /\ Reads(c) \subseteq {d, s} \cup Temps =>
          Launch(c) \in StepsOf(d, s) /\ Launch(c).do = "launch" /\ Launch(c).cmd = c
  BY DEF Launch, Step, StepsOf
<1>2. 0 \in Contents /\ Inputs \subseteq Contents
  BY NValAssumption, CaptureAssumption DEF Contents
<1>3. \A v \in Contents : /\ Fill(X, v) \in CommandsOver(Names) /\ Fill(X, v).dst \in {d} \cup Temps
                          /\ Reads(Fill(X, v)) \subseteq {d, s} \cup Temps /\ Fill(X, v).val = v
  BY CommandTypes, CommandReads, NamesOf
<1>4. ASSUME NEW v \in Inputs
      PROVE  Upload(X, v) \in StepsOf(d, s) /\ Upload(X, v).cmd = Fill(X, v)
  <2>1. Upload(X, v) = [do |-> "upload", cmd |-> Fill(X, v)]
    BY DEF Upload, Step
  <2>2. v \in Contents
    BY <1>2
  <2> QED  BY <1>3, <2>1, <2>2, NamesOf DEF StepsOf
<1>5. HostCopy(X, 0) \in StepsOf(d, s) /\ HostCopy(X, 0).cmd = Fill(X, 0)
  <2>1. HostCopy(X, 0) = [do |-> "hostcopy", cmd |-> Fill(X, 0)]
    BY DEF HostCopy, Step
  <2> QED  BY <1>2, <1>3, <2>1, NamesOf DEF StepsOf
<1> QED  BY <1>1, <1>4, <1>5

(* Operations of one, two and three steps.                                 *)
Fits(d, s, p) == p \in Effective(d, s) /\ Pure(Cmds(p))

LEMMA PureIsSteady == \A cs : Pure(cs) <=> Steady(cs, Tensors)
BY DEF Pure, Steady

LEMMA OnGpuFits ==
  ASSUME NEW d \in Tensors, NEW s, NEW c \in CommandsOver(Names), c.dst = d,
         Reads(c) \subseteq {d, s} \cap Tensors
  PROVE  \A p \in OnGpu(c) : Fits(d, s, p)
<1>1. Launch(c) \in StepsOf(d, s) /\ Launch(c).cmd = c
  BY StepKinds
<1>2. Tensors \in SUBSET Names /\ Reads(c) \subseteq Tensors
  BY NamesOf
<1> HIDE DEF StepsOf, Launch
<1>3. <<Launch(c)>> \in Effective(d, s) /\ Steady(Cmds(<<Launch(c)>>), Tensors)
  BY <1>1, <1>2, OneStep
<1> QED  BY <1>3, PureIsSteady DEF OnGpu, Fits

LEMMA SimpleFits ==
  ASSUME NEW d \in Tensors, NEW s
  PROVE  /\ s \in Tensors => \A p \in OnGpu(Copy(d, s)) \cup OnGpu(Accum(d, s)) : Fits(d, s, p)
         /\ \A p \in OnGpu(Accum(d, d)) : Fits(d, s, p)
         /\ \A v \in Contents : \A p \in OnGpu(Fill(d, v)) : Fits(d, s, p)
         /\ Fits(d, s, <<>>)
<1>1. d \in Names /\ (s \in Tensors => s \in Names)
  BY NamesOf
<1>2. ASSUME s \in Tensors PROVE \A p \in OnGpu(Copy(d, s)) \cup OnGpu(Accum(d, s)) : Fits(d, s, p)
  <2>1. /\ Copy(d, s) \in CommandsOver(Names) /\ Copy(d, s).dst = d
        /\ Reads(Copy(d, s)) \subseteq {d, s} \cap Tensors
    BY <1>1, <1>2, CommandTypes, CommandReads
  <2>2. /\ Accum(d, s) \in CommandsOver(Names) /\ Accum(d, s).dst = d
        /\ Reads(Accum(d, s)) \subseteq {d, s} \cap Tensors
    BY <1>1, <1>2, CommandTypes, CommandReads
  <2>3. \A p \in OnGpu(Copy(d, s)) : Fits(d, s, p)
    BY <2>1, OnGpuFits
  <2>4. \A p \in OnGpu(Accum(d, s)) : Fits(d, s, p)
    BY <2>2, OnGpuFits
  <2> QED  BY <2>3, <2>4
<1>3. \A p \in OnGpu(Accum(d, d)) : Fits(d, s, p)
  <2>1. /\ Accum(d, d) \in CommandsOver(Names) /\ Accum(d, d).dst = d
        /\ Reads(Accum(d, d)) \subseteq {d, s} \cap Tensors
    BY <1>1, CommandTypes, CommandReads
  <2> QED  BY <2>1, OnGpuFits
<1>4. ASSUME NEW v \in Contents PROVE \A p \in OnGpu(Fill(d, v)) : Fits(d, s, p)
  <2>1. /\ Fill(d, v) \in CommandsOver(Names) /\ Fill(d, v).dst = d
        /\ Reads(Fill(d, v)) \subseteq {d, s} \cap Tensors
    BY <1>1, CommandTypes, CommandReads
  <2> QED  BY <2>1, OnGpuFits
<1>5. Fits(d, s, <<>>)
  <2>1. <<>> \in Effective(d, s)
    BY EmptySeq DEF Effective
  <2>2. Cmds(<<>>) = <<>>
    BY <2>1, CmdsFacts
  <2>3. Steady(Cmds(<<>>), Tensors)
    BY <2>2, SteadyEmpty
  <2> QED  BY <2>1, <2>3, PureIsSteady DEF Fits
<1> QED  BY <1>2, <1>3, <1>4, <1>5

LEMMA TwoStepsFit ==
  ASSUME NEW d \in Tensors, NEW s, NEW a \in StepsOf(d, s), NEW b \in StepsOf(d, s),
         b.do = "launch", Reads(a.cmd) \subseteq Tensors,
         Reads(b.cmd) \subseteq Tensors \cup {a.cmd.dst}
  PROVE  Fits(d, s, <<a, b>>)
<1>1. Tensors \in SUBSET Names
  BY NamesOf
<1>2. <<a, b>> \in Effective(d, s) /\ Steady(Cmds(<<a, b>>), Tensors)
  BY <1>1, TwoSteps
<1> QED  BY <1>2, PureIsSteady DEF Fits

LEMMA DescribedFits ==
  ASSUME NEW d \in Tensors, NEW s \in Tensors
  PROVE  \A p \in Described(d, s) : Fits(d, s, p)
<1> SUFFICES ASSUME NEW v \in Inputs
             PROVE  Fits(d, s, <<Upload(X, v), Launch(Merge(d, s, X))>>)
  BY DEF Described
<1>1. Upload(X, v) \in StepsOf(d, s) /\ Upload(X, v).cmd = Fill(X, v)
  BY StepKinds
<1>2. /\ Merge(d, s, X) \in CommandsOver(Names) /\ Merge(d, s, X).dst = d
      /\ Reads(Merge(d, s, X)) = {s, X}
  BY NamesOf, CommandTypes, CommandReads
<1>3. /\ Launch(Merge(d, s, X)) \in StepsOf(d, s) /\ Launch(Merge(d, s, X)).do = "launch"
      /\ Launch(Merge(d, s, X)).cmd = Merge(d, s, X)
  BY <1>2, StepKinds, NamesOf
<1>4. Reads(Fill(X, v)) = {} /\ Fill(X, v).dst = X
  BY CommandReads
<1> QED  BY <1>1, <1>2, <1>3, <1>4, TwoStepsFit

LEMMA FromVecFits ==
  ASSUME NEW d \in Tensors, NEW s
  PROVE  \A p \in from_vec(d) : Fits(d, s, p) /\ Head(p).do = "upload"
<1> SUFFICES ASSUME NEW v \in Inputs
             PROVE  /\ Fits(d, s, <<Upload(X, v), Launch(Copy(d, X))>>)
                    /\ Head(<<Upload(X, v), Launch(Copy(d, X))>>).do = "upload"
  BY DEF from_vec
<1>1. Upload(X, v) \in StepsOf(d, s) /\ Upload(X, v).cmd = Fill(X, v)
  BY StepKinds
<1>2. /\ Copy(d, X) \in CommandsOver(Names) /\ Copy(d, X).dst = d
      /\ Reads(Copy(d, X)) = {X}
  BY NamesOf, CommandTypes, CommandReads
<1>3. /\ Launch(Copy(d, X)) \in StepsOf(d, s) /\ Launch(Copy(d, X)).do = "launch"
      /\ Launch(Copy(d, X)).cmd = Copy(d, X)
  BY <1>2, StepKinds, NamesOf
<1>4. Reads(Fill(X, v)) = {} /\ Fill(X, v).dst = X
  BY CommandReads
<1>5. Head(<<Upload(X, v), Launch(Copy(d, X))>>).do = "upload"
  BY DEF Upload, Step
<1> QED  BY <1>1, <1>2, <1>3, <1>4, <1>5, TwoStepsFit

LEMMA RandUniformFits ==
  ASSUME NEW d \in Tensors, NEW s, NEW v \in Contents
  PROVE  Fits(d, s, <<Launch(Fill(d, v)), Launch(Accum(d, d))>>)
<1>1. /\ Fill(d, v) \in CommandsOver(Names) /\ Fill(d, v).dst = d /\ Reads(Fill(d, v)) = {}
      /\ Accum(d, d) \in CommandsOver(Names) /\ Accum(d, d).dst = d /\ Reads(Accum(d, d)) = {d}
  BY NamesOf, CommandTypes, CommandReads
<1>2. /\ Launch(Fill(d, v)) \in StepsOf(d, s) /\ Launch(Fill(d, v)).cmd = Fill(d, v)
      /\ Launch(Accum(d, d)) \in StepsOf(d, s) /\ Launch(Accum(d, d)).cmd = Accum(d, d)
      /\ Launch(Accum(d, d)).do = "launch"
  BY <1>1, StepKinds
<1> QED  BY <1>1, <1>2, TwoStepsFit

LEMMA ThreeStepsFit ==
  ASSUME NEW d \in Tensors, NEW s \in Tensors
  PROVE  /\ Fits(d, s, <<Launch(Copy(X, s)), Launch(Copy(Y, X)), Launch(Copy(d, Y))>>)
         /\ Fits(d, s, <<HostCopy(X, 0), Launch(Accum(X, s)), Launch(Merge(d, s, X))>>)
<1>1. /\ Copy(X, s) \in CommandsOver(Names) /\ Copy(X, s).dst = X /\ Reads(Copy(X, s)) = {s}
      /\ Copy(Y, X) \in CommandsOver(Names) /\ Copy(Y, X).dst = Y /\ Reads(Copy(Y, X)) = {X}
      /\ Copy(d, Y) \in CommandsOver(Names) /\ Copy(d, Y).dst = d /\ Reads(Copy(d, Y)) = {Y}
      /\ Accum(X, s) \in CommandsOver(Names) /\ Accum(X, s).dst = X /\ Reads(Accum(X, s)) = {X, s}
      /\ Merge(d, s, X) \in CommandsOver(Names) /\ Merge(d, s, X).dst = d /\ Reads(Merge(d, s, X)) = {s, X}
      /\ Fill(X, 0).dst = X /\ Reads(Fill(X, 0)) = {}
  BY NamesOf, CommandTypes, CommandReads
<1>2. \A c \in {Copy(X, s), Copy(Y, X), Copy(d, Y), Accum(X, s), Merge(d, s, X)} :
        Launch(c) \in StepsOf(d, s) /\ Launch(c).do = "launch" /\ Launch(c).cmd = c
  BY <1>1, StepKinds, NamesOf
<1>3. HostCopy(X, 0) \in StepsOf(d, s) /\ HostCopy(X, 0).cmd = Fill(X, 0)
  BY StepKinds
<1>4. Fits(d, s, <<Launch(Copy(X, s)), Launch(Copy(Y, X)), Launch(Copy(d, Y))>>)
  <2> DEFINE a == Launch(Copy(X, s))
             b == Launch(Copy(Y, X))
             c == Launch(Copy(d, Y))
  <2>1. /\ a \in StepsOf(d, s) /\ b \in StepsOf(d, s) /\ c \in StepsOf(d, s)
        /\ b.do = "launch" /\ c.do = "launch"
        /\ a.cmd = Copy(X, s) /\ b.cmd = Copy(Y, X) /\ c.cmd = Copy(d, Y)
    BY <1>2
  <2> HIDE DEF a, b, c
  <2>2. /\ Reads(a.cmd) \subseteq Tensors /\ Reads(b.cmd) \subseteq Tensors \cup {a.cmd.dst}
        /\ Reads(c.cmd) \subseteq Tensors \cup {a.cmd.dst} \cup {b.cmd.dst}
    BY <1>1, <2>1
  <2>3. <<a, b, c>> \in Effective(d, s) /\ Steady(Cmds(<<a, b, c>>), Tensors)
    BY <2>1, <2>2, ThreeSteps
  <2> QED  BY <2>3, PureIsSteady DEF Fits, a, b, c
<1>5. Fits(d, s, <<HostCopy(X, 0), Launch(Accum(X, s)), Launch(Merge(d, s, X))>>)
  <2> DEFINE a == HostCopy(X, 0)
             b == Launch(Accum(X, s))
             c == Launch(Merge(d, s, X))
  <2>1. /\ a \in StepsOf(d, s) /\ b \in StepsOf(d, s) /\ c \in StepsOf(d, s)
        /\ b.do = "launch" /\ c.do = "launch"
        /\ a.cmd = Fill(X, 0) /\ b.cmd = Accum(X, s) /\ c.cmd = Merge(d, s, X)
    BY <1>2, <1>3
  <2> HIDE DEF a, b, c
  <2>2. /\ Reads(a.cmd) \subseteq Tensors /\ Reads(b.cmd) \subseteq Tensors \cup {a.cmd.dst}
        /\ Reads(c.cmd) \subseteq Tensors \cup {a.cmd.dst} \cup {b.cmd.dst}
    BY <1>1, <2>1
  <2>3. <<a, b, c>> \in Effective(d, s) /\ Steady(Cmds(<<a, b, c>>), Tensors)
    BY <2>1, <2>2, ThreeSteps
  <2> QED  BY <2>3, PureIsSteady DEF Fits, a, b, c
<1> QED  BY <1>4, <1>5

(* Every operation on storages is one a thread may begin.                  *)
LEMMA AloneFits ==
  ASSUME NEW d \in Tensors, NEW p \in AlonePrograms[d]
  PROVE  Fits(d, None, p)
<1>1. Inputs \subseteq Contents
  BY CaptureAssumption
<1>2. ASSUME NEW v \in Inputs, p \in fill(d, v) \cup rand_uniform(d, v) \cup randn(d, v)
      PROVE  Fits(d, None, p)
  <2>1. v \in Contents
    BY <1>1
  <2>2. \/ p \in {<<>>} \cup OnGpu(Fill(d, v)) \/ p = <<Launch(Fill(d, v)), Launch(Accum(d, d))>>
    BY <1>2 DEF fill, rand_uniform, randn
  <2> QED  BY <2>1, <2>2, SimpleFits, RandUniformFits
<1>3. ASSUME p \in from_vec(d) PROVE Fits(d, None, p)
  BY <1>3, FromVecFits
<1>4. ASSUME p \in inplace_unary(d) \cup apply_causality_mask(d) PROVE Fits(d, None, p)
  BY <1>4, SimpleFits DEF inplace_unary, apply_causality_mask
<1> HIDE DEF Fits
<1> QED  BY <1>2, <1>3, <1>4 DEF AlonePrograms

LEMMA PairFits ==
  ASSUME NEW d \in Tensors, NEW s \in Tensors, NEW p \in PairPrograms[d][s] \cup quantize_fp8(d, s)
  PROVE  Fits(d, s, p)
<1> DEFINE im2col == <<Launch(Copy(X, s)), Launch(Copy(Y, X)), Launch(Copy(d, Y))>>
           fp8 == <<HostCopy(X, 0), Launch(Accum(X, s)), Launch(Merge(d, s, X))>>
           Simple == OnGpu(Copy(d, s)) \cup OnGpu(Accum(d, s)) \cup {<<>>}
<1>1. quantize_fp8(d, s) = {fp8}
  BY DEF quantize_fp8
<1> HIDE DEF fp8, im2col, Simple
<1>2. /\ copy(d, s) \cup to_dtype(d, s) \cup unary(d, s) \cup bin_assign(d, s) \cup binary(d, s)
           \cup scale_add(d, s) \cup transpose(d, s) \cup copy2d(d, s) \subseteq Simple
      /\ rope(d, s) \cup rope_i(d, s) \cup gemm(d, s) \cup index_select(d, s) \cup softmax(d, s)
           \cup rms_norm(d, s) \cup layer_norm(d, s) \cup scatter_set(d, s) \subseteq Simple
  BY DEF copy, to_dtype, unary, bin_assign, binary, scale_add, transpose, copy2d, rope, rope_i, gemm,
         index_select, softmax, rms_norm, layer_norm, scatter_set, Simple
<1>3. /\ reduce_max(d, s) \cup reduce_min(d, s) \cup reduce_sum(d, s) \cup reduce_argmin(d, s)
           \cup reduce_argmax(d, s) \subseteq Described(d, s)
      /\ copy_strided(d, s) \cup broadcast_binary(d, s) \subseteq Simple \cup Described(d, s)
  BY DEF reduce_max, reduce_min, reduce_sum, reduce_argmin, reduce_argmax, copy_strided,
         broadcast_binary, Simple
<1>4. conv1d(d, s) \cup conv_transpose1d(d, s) \subseteq Simple \cup {im2col}
  BY DEF conv1d, conv_transpose1d, conv1d_im2col, conv_transpose1d_col2im, conv1d_direct,
         conv_transpose1d_direct, Simple, im2col
<1>5. PairPrograms[d][s] \subseteq Simple \cup Described(d, s) \cup {im2col}
  <2> HIDE DEF Described
  <2> QED  BY <1>2, <1>3, <1>4 DEF PairPrograms
<1>6. Fits(d, s, im2col) /\ Fits(d, s, fp8)
  BY ThreeStepsFit DEF im2col, fp8
<1>7. \A q \in Simple : Fits(d, s, q)
  BY SimpleFits DEF Simple
<1>8. \A q \in Described(d, s) : Fits(d, s, q)
  BY DescribedFits
<1> QED  BY <1>1, <1>5, <1>6, <1>7, <1>8

-----------------------------------------------------------------------------
(* Modes, types and locks                                                  *)

LEMMA NoneFacts ==
  /\ None \notin Cells /\ None \notin Tensors /\ None \notin Staged
  /\ None \notin Modes /\ None \notin Work
  /\ NoWork \in Work /\ NoWork # None
<1>1. /\ None \notin Cells /\ None \notin Tensors /\ None \notin Staged
      /\ None \notin Modes /\ None \notin Work
  BY CaptureAssumption DEF Cells
<1>2. NoWork \in Work
  BY EmptySeq DEF NoWork, Work
<1> QED  BY <1>1, <1>2

LEMMA ValuesTyped ==
  ASSUME val \in [Tensors -> Contents]
  PROVE  Values \in [Names -> Contents] /\ 0 \in Contents
BY NValAssumption DEF Values, Contents

LEMMA InitDisciplined == Init => Discipline
<1> SUFFICES ASSUME Init PROVE Discipline
  OBVIOUS
<1>1. 0 \in Contents
  BY NValAssumption DEF Contents
<1>2. StoreTyped
  BY <1>1 DEF Init, StoreTyped
<1>3. CacheTyped
  BY DEF Init, CacheTyped, Modes
<1>4. WorkTyped /\ ~Capturing
  BY DEF Init, WorkTyped, Capturing
<1>5. \A th \in Threads : Idle(th) /\ op[th] = NoOp /\ seen[th] = None
  BY DEF Init, Idle
<1>6. CallsTyped
  <2>1. seen \in [Threads -> Modes \cup {None}] /\ DOMAIN op = Threads /\ DOMAIN todo = Threads
    BY DEF Init
  <2>2. \A th \in Threads : /\ DOMAIN op[th] = {"dst", "src", "steps"}
                            /\ op[th].dst \in Tensors \cup {None} /\ op[th].src \in Tensors \cup {None}
    BY <1>5 DEF NoOp
  <2>3. \A th \in Threads : Remains(th)
    BY <1>5 DEF Remains
  <2> QED  BY <2>1, <2>2, <2>3 DEF CallsTyped
<1>7. Locked
  BY <1>5 DEF Locked, NoOp
<1>8. Alone
  BY <1>4, <1>5, NoneFacts DEF Alone, Quiet, Init, Modes
<1> QED  BY <1>2, <1>3, <1>4, <1>6, <1>7, <1>8 DEF Discipline

(* What a thread in an operation is at.                                    *)
LEMMA Busy ==
  ASSUME Discipline, NEW th \in Threads, ~Idle(th)
  PROVE  /\ op[th].steps # <<>>
         /\ op[th].dst = None =>
              /\ Waiting(op[th].steps) /\ todo[th] = op[th].steps
              /\ Len(todo[th]) = 1 /\ Tail(todo[th]) = <<>> /\ Head(todo[th]).do = "wait"
              /\ seen[th] = None
              /\ Meaning(op[th].steps) = <<>>
         /\ op[th].dst # None =>
              /\ op[th].dst \in Tensors
              /\ op[th].steps \in Effective(op[th].dst, op[th].src) /\ Pure(Cmds(op[th].steps))
              /\ todo[th] \in Effective(op[th].dst, op[th].src) /\ todo[th] # <<>>
              /\ Head(todo[th]) \in StepsOf(op[th].dst, op[th].src)
              /\ Head(todo[th]).do # "wait"
              /\ Head(todo[th]).do # "launch" => todo[th] = op[th].steps
              /\ seen[th] # None => Head(todo[th]).do = "upload"
              /\ Meaning(op[th].steps) = Cmds(op[th].steps)
         /\ Meaning(op[th].steps) \in Seq(CommandsOver(Names))
<1>1. Remains(th) /\ op[th].dst \in Tensors \cup {None} /\ None \notin Tensors
  BY NoneFacts DEF Discipline, CallsTyped
<1> DEFINE o == op[th]
           td == todo[th]
<1>2. /\ Program(o.dst, o.src, o.steps) /\ o.steps # <<>>
      /\ o.dst = None => td = o.steps /\ seen[th] = None
      /\ o.dst # None =>
           /\ td \in Effective(o.dst, o.src)
           /\ Head(td).do # "launch" => td = o.steps
           /\ seen[th] # None => Head(td).do = "upload"
      /\ td # <<>>
  BY <1>1 DEF Remains, Idle
<1> HIDE DEF o, td
<1>3. ASSUME o.dst = None
      PROVE  /\ Waiting(o.steps) /\ Len(td) = 1 /\ Tail(td) = <<>> /\ Head(td).do = "wait"
             /\ Meaning(o.steps) = <<>> /\ Meaning(o.steps) \in Seq(CommandsOver(Names))
  <2>1. Waiting(o.steps) /\ td = o.steps
    BY <1>1, <1>2, <1>3 DEF Program
  <2>2. td = <<Head(td)>> /\ Head(td).do = "wait"
    BY <2>1 DEF Waiting
  <2>3. Len(td) = 1 /\ Tail(td) = <<>>
    <3>1. PICK st : td = <<st>>
      BY <2>2
    <3> QED  BY <3>1
  <2>4. Meaning(o.steps) = <<>>
    BY <2>1, <2>2 DEF Meaning
  <2> QED  BY <2>1, <2>2, <2>3, <2>4, EmptySeq
<1>4. ASSUME o.dst # None
      PROVE  /\ o.dst \in Tensors
             /\ o.steps \in Effective(o.dst, o.src) /\ Pure(Cmds(o.steps))
             /\ Head(td) \in StepsOf(o.dst, o.src) /\ Head(td).do # "wait"
             /\ Meaning(o.steps) = Cmds(o.steps)
             /\ Meaning(o.steps) \in Seq(CommandsOver(Names))
  <2>1. o.dst \in Tensors /\ o.steps \in Effective(o.dst, o.src) /\ Pure(Cmds(o.steps))
    BY <1>1, <1>2, <1>4 DEF Program, o
  <2>2. Head(td) \in StepsOf(o.dst, o.src) /\ Head(o.steps) \in StepsOf(o.dst, o.src)
    BY <1>2, <1>4, <2>1, CmdsFacts
  <2>3. Head(td).do # "wait" /\ Head(o.steps).do # "wait"
    BY <2>2 DEF StepsOf
  <2>4. Meaning(o.steps) = Cmds(o.steps)
    BY <2>3 DEF Meaning, Cmds
  <2>5. Cmds(o.steps) \in Seq(CommandsOver(Names))
    BY <2>1, CmdsFacts
  <2> QED  BY <2>1, <2>2, <2>3, <2>4, <2>5
<1> QED  BY <1>2, <1>3, <1>4 DEF o, td

(* The rest of its steps.                                                  *)
LEMMA BusyTail ==
  ASSUME Discipline, NEW th \in Threads, ~Idle(th)
  PROVE  /\ Len(todo[th]) = 1 <=> Tail(todo[th]) = <<>>
         /\ op[th].dst # None => Rest(op[th].dst, op[th].src, todo[th], Tail(todo[th]))
<1>1. /\ op[th].dst = None => Len(todo[th]) = 1 /\ Tail(todo[th]) = <<>>
      /\ op[th].dst # None => todo[th] \in Effective(op[th].dst, op[th].src) /\ todo[th] # <<>>
  BY Busy
<1>2. op[th].dst # None => Rest(op[th].dst, op[th].src, todo[th], Tail(todo[th]))
  BY <1>1, CmdsFacts
<1>3. op[th].dst # None => (Len(todo[th]) = 1 <=> Tail(todo[th]) = <<>>)
  BY <1>2 DEF Rest
<1> QED  BY <1>1, <1>2, <1>3

(* Stepping an operation on keeps types, modes and locks.                  *)
LEMMA AdvanceTypes ==
  ASSUME Discipline, NEW th \in Threads, ~Idle(th), NEW m \in [Cells -> Contents],
         NEW c \in Work \cup {None}, Capturing <=> c # None, Advance(th, m, c)
  PROVE  /\ mem' \in [Cells -> Contents] /\ val' \in [Tensors -> Contents] /\ read' = read
         /\ htod_mode' = htod_mode /\ graph' = graph /\ disturbed' = disturbed
         /\ capture' \in Work \cup {None} /\ (Capturing' <=> Capturing)
         /\ todo' = [todo EXCEPT ![th] = Tail(todo[th])]
         /\ seen' = [seen EXCEPT ![th] = None]
         /\ op' = IF Len(todo[th]) = 1 THEN [op EXCEPT ![th] = NoOp] ELSE op
<1>1. /\ val \in [Tensors -> Contents] /\ Meaning(op[th].steps) \in Seq(CommandsOver(Names))
  BY Busy DEF Discipline, StoreTyped
<1>2. mem' \in [Cells -> Contents]
  <2>1. 0 \in Contents
    BY <1>1, ValuesTyped
  <2>2. mem' = IF Len(todo[th]) = 1 THEN Recycled(m, {th} \X Temps) ELSE m
    BY DEF Advance
  <2>3. Recycled(m, {th} \X Temps) \in [Cells -> Contents]
    BY <2>1 DEF Recycled
  <2> QED  BY <2>2, <2>3
<1>3. val' \in [Tensors -> Contents]
  <2>1. val' = IF Len(todo[th]) = 1 /\ ~Capturing THEN Rerun(Meaning(op[th].steps)) ELSE val
    BY DEF Advance
  <2>2. Values \in [Names -> Contents]
    BY <1>1, ValuesTyped
  <2>3. ExecAll(Values, Meaning(op[th].steps)) \in [Names -> Contents]
    BY <1>1, <2>2, ExecAllType
  <2>4. Rerun(Meaning(op[th].steps)) = [t \in Tensors |-> ExecAll(Values, Meaning(op[th].steps))[t]]
    BY DEF Rerun, Values, Names
  <2>5. Rerun(Meaning(op[th].steps)) \in [Tensors -> Contents]
    BY <2>3, <2>4, NamesOf
  <2> QED  BY <1>1, <2>1, <2>5
<1>4. capture' \in Work \cup {None} /\ (Capturing' <=> Capturing)
  <2> DEFINE ms == Meaning(op[th].steps)
  <2> HIDE DEF ms
  <2>1. capture' = IF Len(todo[th]) = 1 /\ Capturing THEN [c EXCEPT !.meant = c.meant \o ms] ELSE c
    BY DEF Advance, ms
  <2>2. ASSUME Capturing PROVE [c EXCEPT !.meant = c.meant \o ms] \in Work
    <3>1. c \in Work /\ ms \in Seq(CommandsOver(Names))
      BY <1>1, <2>2 DEF ms
    <3>2. c.meant \in Seq(CommandsOver(Names))
      BY <3>1 DEF Work, Names
    <3>3. c.meant \o ms \in Seq(CommandsOver(Names))
      BY <3>1, <3>2
    <3> QED  BY <3>1, <3>3 DEF Work, Names
  <2> QED  BY <2>1, <2>2, NoneFacts DEF Capturing
<1> QED  BY <1>2, <1>3, <1>4 DEF Advance

(* What an operation leaves behind when a step of it is over.              *)
LEMMA AdvanceDisciplined ==
  ASSUME Discipline, NEW th \in Threads, ~Idle(th), NEW m \in [Cells -> Contents],
         NEW c \in Work \cup {None}, Capturing <=> c # None, Advance(th, m, c),
         CacheTyped'
  PROVE  Discipline'
<1>1. /\ mem' \in [Cells -> Contents] /\ val' \in [Tensors -> Contents] /\ read' = read
      /\ htod_mode' = htod_mode /\ graph' = graph /\ disturbed' = disturbed
      /\ capture' \in Work \cup {None} /\ (Capturing' <=> Capturing)
      /\ todo' = [todo EXCEPT ![th] = Tail(todo[th])]
      /\ seen' = [seen EXCEPT ![th] = None]
      /\ op' = IF Len(todo[th]) = 1 THEN [op EXCEPT ![th] = NoOp] ELSE op
  BY AdvanceTypes
<1>2. /\ StoreTyped /\ WorkTyped /\ CallsTyped /\ Locked /\ Alone
      /\ DOMAIN op = Threads /\ DOMAIN todo = Threads /\ seen \in [Threads -> Modes \cup {None}]
  BY DEF Discipline, CallsTyped
<1>3. /\ todo'[th] = Tail(todo[th]) /\ seen'[th] = None
      /\ \A u \in Threads : u # th => todo'[u] = todo[u] /\ seen'[u] = seen[u] /\ op'[u] = op[u]
      /\ op'[th] = IF Len(todo[th]) = 1 THEN NoOp ELSE op[th]
      /\ DOMAIN op' = Threads /\ DOMAIN todo' = Threads /\ seen' \in [Threads -> Modes \cup {None}]
  BY <1>1, <1>2
<1>4. StoreTyped'
  BY <1>1, <1>2 DEF StoreTyped
<1>5. WorkTyped'
  BY <1>1, <1>2 DEF WorkTyped
<1>6. ASSUME NEW u \in Threads
      PROVE  /\ DOMAIN op'[u] = {"dst", "src", "steps"}
             /\ op'[u].dst \in {op[u].dst, None} /\ op'[u].src \in {op[u].src, None}
             /\ op'[u].dst \in Tensors \cup {None} /\ op'[u].src \in Tensors \cup {None}
  <2>1. DOMAIN op[u] = {"dst", "src", "steps"}
        /\ op[u].dst \in Tensors \cup {None} /\ op[u].src \in Tensors \cup {None}
    BY <1>2 DEF CallsTyped
  <2> QED  BY <1>3, <2>1 DEF NoOp
<1>7. ASSUME NEW u \in Threads PROVE Remains(u)'
  <2>1. CASE u # th
    <3>1. Remains(u) /\ todo'[u] = todo[u] /\ seen'[u] = seen[u] /\ op'[u] = op[u]
      BY <1>2, <1>3, <2>1 DEF CallsTyped
    <3> QED  BY <1>1, <3>1 DEF Remains, Idle
  <2>2. CASE u = th /\ Len(todo[th]) = 1
    <3>1. Tail(todo[th]) = <<>>
      BY <2>2, BusyTail
    <3> QED  BY <1>3, <2>2, <3>1 DEF Remains, Idle
  <2>3. CASE u = th /\ Len(todo[th]) # 1
    <3> DEFINE o == op[th]
               r == Tail(todo[th])
    <3>1. /\ o.dst # None /\ o.dst \in Tensors /\ o.steps # <<>>
          /\ o.steps \in Effective(o.dst, o.src) /\ Pure(Cmds(o.steps))
          /\ todo[th] \in Effective(o.dst, o.src) /\ todo[th] # <<>>
      BY <2>3, Busy
    <3>2. r \in Effective(o.dst, o.src) /\ r # <<>> /\ Head(r).do = "launch"
      BY <2>3, <3>1, BusyTail DEF Rest
    <3>3. op'[th] = o /\ todo'[th] = r /\ seen'[th] = None
      BY <1>3, <2>3
    <3> HIDE DEF o, r
    <3>4. Program(o.dst, o.src, o.steps)
      BY <3>1 DEF Program
    <3> QED  BY <2>3, <3>1, <3>2, <3>3, <3>4 DEF Remains, Idle
  <2> QED  BY <2>1, <2>2, <2>3
<1>8. CallsTyped'
  BY <1>3, <1>6, <1>7 DEF CallsTyped
<1>9. Locked'
  <2> SUFFICES ASSUME NEW u \in Threads, NEW w \in Threads, u # w, op'[u].dst # None
               PROVE  op'[w].dst # op'[u].dst /\ op'[w].src # op'[u].dst
    BY DEF Locked
  <2>1. op'[u].dst = op[u].dst /\ op[u].dst # None
    BY <1>6
  <2>2. op[w].dst # op[u].dst /\ op[w].src # op[u].dst
    BY <1>2, <2>1 DEF Locked
  <2> QED  BY <1>6, <2>1, <2>2
<1>10. Alone'
  <2>1. (Capturing' <=> htod_mode' = "REPLAY") /\ disturbed' \in BOOLEAN
    BY <1>1, <1>2 DEF Alone
  <2>2. ASSUME ~disturbed', Capturing', NEW u \in Threads
        PROVE  (u # Driver => Idle(u)') /\ seen'[u] \in {None, "REPLAY"}
    <3>1. (u # Driver => Idle(u)) /\ seen[u] \in {None, "REPLAY"} /\ th = Driver
      BY <1>1, <1>2, <2>2 DEF Alone, Quiet
    <3> QED  BY <1>3, <3>1 DEF Idle
  <2>3. ASSUME ~disturbed', ~Capturing', NEW u \in Threads PROVE seen'[u] # "REPLAY"
    BY <1>1, <1>2, <1>3, <2>3, NoneFacts DEF Alone, Quiet, Modes
  <2> QED  BY <2>1, <2>2, <2>3 DEF Alone, Quiet
<1> QED  BY <1>4, <1>5, <1>8, <1>9, <1>10 DEF Discipline

LEMMA FailDisciplined ==
  ASSUME Discipline, NEW th \in Threads, ~Idle(th), Fail(th)
  PROVE  Discipline'
<1>1. /\ UNCHANGED <<val, read, mem, htod_mode, htod_cache, capture, graph, disturbed>>
      /\ todo' = [todo EXCEPT ![th] = <<>>]
      /\ seen' = [seen EXCEPT ![th] = None]
      /\ op' = [op EXCEPT ![th] = NoOp]
  BY DEF Fail, eager
<1>2. /\ StoreTyped /\ WorkTyped /\ CacheTyped /\ CallsTyped /\ Locked /\ Alone
      /\ DOMAIN op = Threads /\ DOMAIN todo = Threads /\ seen \in [Threads -> Modes \cup {None}]
  BY DEF Discipline, CallsTyped
<1>3. /\ todo'[th] = <<>> /\ seen'[th] = None /\ op'[th] = NoOp
      /\ \A u \in Threads : u # th => todo'[u] = todo[u] /\ seen'[u] = seen[u] /\ op'[u] = op[u]
      /\ DOMAIN op' = Threads /\ DOMAIN todo' = Threads /\ seen' \in [Threads -> Modes \cup {None}]
      /\ (Capturing' <=> Capturing)
  BY <1>1, <1>2 DEF Capturing
<1>4. StoreTyped' /\ WorkTyped' /\ CacheTyped'
  BY <1>1, <1>2 DEF StoreTyped, WorkTyped, CacheTyped
<1>5. ASSUME NEW u \in Threads
      PROVE  /\ DOMAIN op'[u] = {"dst", "src", "steps"}
             /\ op'[u].dst \in {op[u].dst, None} /\ op'[u].src \in {op[u].src, None}
             /\ op'[u].dst \in Tensors \cup {None} /\ op'[u].src \in Tensors \cup {None}
  <2>1. DOMAIN op[u] = {"dst", "src", "steps"}
        /\ op[u].dst \in Tensors \cup {None} /\ op[u].src \in Tensors \cup {None}
    BY <1>2 DEF CallsTyped
  <2> QED  BY <1>3, <2>1 DEF NoOp
<1>6. ASSUME NEW u \in Threads PROVE Remains(u)'
  <2>1. CASE u # th
    <3>1. Remains(u) /\ todo'[u] = todo[u] /\ seen'[u] = seen[u] /\ op'[u] = op[u]
      BY <1>2, <1>3, <2>1 DEF CallsTyped
    <3> QED  BY <1>3, <3>1 DEF Remains, Idle
  <2>2. CASE u = th
    BY <1>3, <2>2 DEF Remains, Idle
  <2> QED  BY <2>1, <2>2
<1>7. CallsTyped'
  BY <1>3, <1>5, <1>6 DEF CallsTyped
<1>8. Locked'
  <2> SUFFICES ASSUME NEW u \in Threads, NEW w \in Threads, u # w, op'[u].dst # None
               PROVE  op'[w].dst # op'[u].dst /\ op'[w].src # op'[u].dst
    BY DEF Locked
  <2>1. op'[u].dst = op[u].dst /\ op[u].dst # None
    BY <1>5
  <2>2. op[w].dst # op[u].dst /\ op[w].src # op[u].dst
    BY <1>2, <2>1 DEF Locked
  <2> QED  BY <1>5, <2>1, <2>2
<1>9. Alone'
  <2>1. (Capturing' <=> htod_mode' = "REPLAY") /\ disturbed' \in BOOLEAN
    BY <1>1, <1>2, <1>3 DEF Alone
  <2>2. ASSUME ~disturbed', Capturing', NEW u \in Threads
        PROVE  (u # Driver => Idle(u)') /\ seen'[u] \in {None, "REPLAY"}
    <3>1. (u # Driver => Idle(u)) /\ seen[u] \in {None, "REPLAY"}
      BY <1>1, <1>2, <1>3, <2>2 DEF Alone, Quiet
    <3> QED  BY <1>3, <3>1 DEF Idle
  <2>3. ASSUME ~disturbed', ~Capturing', NEW u \in Threads PROVE seen'[u] # "REPLAY"
    BY <1>1, <1>2, <1>3, <2>3, NoneFacts DEF Alone, Quiet, Modes
  <2> QED  BY <2>1, <2>2, <2>3 DEF Alone, Quiet
<1> QED  BY <1>4, <1>7, <1>8, <1>9 DEF Discipline

(* What a thread may start.                                                *)
LEMMA StartFits ==
  ASSUME NEW th \in Threads, Start(th)
  PROVE  \E d \in Tensors \cup {None}, s \in Tensors \cup {None} :
           \E p : Program(d, s, p) /\ Begin(th, d, s, p)
<1>1. \A d, s, p : d \in Tensors /\ Fits(d, s, p) => Program(d, s, p)
  BY DEF Fits, Program
<1>2. \A s : Program(None, s, <<Wait(s)>>)
  <2>1. \A s : Waiting(<<Wait(s)>>)
    BY DEF Waiting, Wait, Step
  <2> QED  BY <2>1 DEF Program
<1>3. CASE \E p \in synchronize : Begin(th, None, None, p)
  BY <1>2, <1>3 DEF synchronize
<1>4. ASSUME NEW t \in Tensors, NEW p \in data(t), Begin(th, None, t, p)
      PROVE  Program(None, t, p)
  BY <1>2, <1>4 DEF data
<1>5. ASSUME NEW t \in Tensors, NEW p \in AlonePrograms[t]
      PROVE  Program(t, None, p)
  BY <1>1, AloneFits
<1>6. ASSUME NEW t \in Tensors, NEW s \in Tensors,
             NEW p \in PairPrograms[t][s] \cup quantize_fp8(t, s)
      PROVE  Program(t, s, p)
  BY <1>1, PairFits
<1> HIDE DEF Program
<1>7. \/ \E p \in synchronize : Begin(th, None, None, p)
      \/ \E t \in Tensors :
           \/ \E p \in data(t) : Begin(th, None, t, p)
           \/ \E p \in AlonePrograms[t] : Begin(th, t, None, p)
           \/ \E s \in Tensors \ {t} :
                \E p \in PairPrograms[t][s] \cup quantize_fp8(t, s) : Begin(th, t, s, p)
  BY DEF Start
<1> QED  BY <1>3, <1>4, <1>5, <1>6, <1>7

LEMMA BeginDisciplined ==
  ASSUME Discipline, NEW th \in Threads, NEW d \in Tensors \cup {None},
         NEW s \in Tensors \cup {None}, NEW p, Program(d, s, p), Begin(th, d, s, p)
  PROVE  Discipline'
<1>1. /\ UNCHANGED <<val, read, mem, seen, htod_mode, htod_cache, capture, graph>>
      /\ Idle(th) /\ p # <<>>
      /\ disturbed' = (disturbed \/ (Capturing /\ th # Driver))
      /\ \A u \in Threads : Apart(u, {d} \ {None}) /\ op[u].dst \notin {s} \ {None}
      /\ op' = [op EXCEPT ![th] = [dst |-> d, src |-> s, steps |-> p]]
      /\ todo' = [todo EXCEPT ![th] = p]
  BY DEF Begin, eager
<1>2. /\ StoreTyped /\ WorkTyped /\ CacheTyped /\ CallsTyped /\ Locked /\ Alone
      /\ DOMAIN op = Threads /\ DOMAIN todo = Threads /\ seen \in [Threads -> Modes \cup {None}]
      /\ Remains(th)
  BY DEF Discipline, CallsTyped
<1>3. /\ todo'[th] = p /\ op'[th] = [dst |-> d, src |-> s, steps |-> p]
      /\ \A u \in Threads : u # th => todo'[u] = todo[u] /\ op'[u] = op[u]
      /\ DOMAIN op' = Threads /\ DOMAIN todo' = Threads
      /\ (Capturing' <=> Capturing) /\ seen[th] = None
  BY <1>1, <1>2 DEF Capturing, Remains
<1>4. StoreTyped' /\ WorkTyped' /\ CacheTyped'
  BY <1>1, <1>2 DEF StoreTyped, WorkTyped, CacheTyped
<1>5. op'[th].dst = d /\ op'[th].src = s /\ op'[th].steps = p
      /\ DOMAIN op'[th] = {"dst", "src", "steps"}
  BY <1>3
<1>7. ASSUME NEW u \in Threads PROVE Remains(u)'
  <2>1. CASE u # th
    <3>1. Remains(u) /\ todo'[u] = todo[u] /\ seen'[u] = seen[u] /\ op'[u] = op[u]
      BY <1>1, <1>2, <1>3, <2>1 DEF CallsTyped
    <3> QED  BY <1>3, <3>1 DEF Remains, Idle
  <2>2. CASE u = th
    <3>1. d # None => p \in Effective(d, s)
      BY DEF Program
    <3>2. seen'[th] = None
      BY <1>1, <1>3
    <3> QED  BY <1>1, <1>3, <1>5, <2>2, <3>1, <3>2 DEF Remains, Idle
  <2> QED  BY <2>1, <2>2
<1>8. CallsTyped'
  <2>1. ASSUME NEW u \in Threads
        PROVE  /\ DOMAIN op'[u] = {"dst", "src", "steps"}
               /\ op'[u].dst \in Tensors \cup {None} /\ op'[u].src \in Tensors \cup {None}
    BY <1>2, <1>3, <1>5 DEF CallsTyped
  <2>2. seen' \in [Threads -> Modes \cup {None}]
    BY <1>1, <1>2
  <2> QED  BY <1>3, <1>7, <2>1, <2>2 DEF CallsTyped
<1>9. Locked'
  <2> SUFFICES ASSUME NEW u \in Threads, NEW w \in Threads, u # w, op'[u].dst # None
               PROVE  op'[w].dst # op'[u].dst /\ op'[w].src # op'[u].dst
    BY DEF Locked
  <2>1. CASE u # th /\ w # th
    BY <1>2, <1>3, <2>1 DEF Locked
  <2>2. CASE u = th
    <3>1. op'[u].dst = d /\ op'[w] = op[w]
      BY <1>3, <1>5, <2>2
    <3>2. op[w].dst # d /\ op[w].src # d
      BY <1>1, <3>1 DEF Apart
    <3> QED  BY <3>1, <3>2
  <2>3. CASE w = th
    <3>1. op'[u] = op[u] /\ op'[w].dst = d /\ op'[w].src = s
      BY <1>3, <1>5, <2>3
    <3>2. op[u].dst # d \/ d = None
      BY <1>1 DEF Apart
    <3>3. op[u].dst # s
      BY <1>1, <3>1
    <3> QED  BY <3>1, <3>2, <3>3
  <2> QED  BY <2>1, <2>2, <2>3
<1>10. Alone'
  <2>1. (Capturing' <=> htod_mode' = "REPLAY") /\ disturbed' \in BOOLEAN
    BY <1>1, <1>2, <1>3 DEF Alone
  <2>2. ~disturbed' => ~disturbed /\ (Capturing => th = Driver)
    BY <1>1
  <2>3. ASSUME ~disturbed', Capturing', NEW u \in Threads
        PROVE  (u # Driver => Idle(u)') /\ seen'[u] \in {None, "REPLAY"}
    <3>1. (u # Driver => Idle(u)) /\ seen[u] \in {None, "REPLAY"} /\ th = Driver
      BY <1>2, <1>3, <2>2, <2>3 DEF Alone, Quiet
    <3> QED  BY <1>1, <1>3, <3>1 DEF Idle
  <2>4. ASSUME ~disturbed', ~Capturing', NEW u \in Threads PROVE seen'[u] # "REPLAY"
    BY <1>1, <1>2, <1>3, <2>2, <2>4 DEF Alone, Quiet
  <2> QED  BY <2>1, <2>3, <2>4 DEF Alone, Quiet
<1> QED  BY <1>4, <1>8, <1>9, <1>10 DEF Discipline

(* The command a step enqueues, and the capture with a command more.       *)
LEMMA NextCommand ==
  ASSUME Discipline, NEW th \in Threads, ~Idle(th), op[th].dst # None
  PROVE  /\ Head(todo[th]).cmd \in CommandsOver(Names)
         /\ NextCmd(th) = InCells(th, Head(todo[th]).cmd)
         /\ NextCmd(th) \in CommandsOver(Cells)
         /\ NextCmd(th).dst = Cell(th, Head(todo[th]).cmd.dst)
         /\ Head(todo[th]).cmd.dst \in {op[th].dst} \cup Temps
         /\ Head(todo[th]).cmd.dst \in Names
         /\ Reads(Head(todo[th]).cmd) \subseteq {op[th].dst, op[th].src} \cup Temps
         /\ Head(todo[th]).do # "launch" =>
              \E x \in Temps, v \in Inputs \cup {0} :
                /\ Head(todo[th]).cmd = Fill(x, v) /\ Head(todo[th]).cmd.val = v
                /\ Head(todo[th]).do = "upload" => v \in Inputs
<1>1. Head(todo[th]) \in StepsOf(op[th].dst, op[th].src)
  BY Busy
<1>2. \A st \in StepsOf(op[th].dst, op[th].src) :
        /\ st.cmd \in CommandsOver(Names) /\ st.cmd.dst \in {op[th].dst} \cup Temps
        /\ Reads(st.cmd) \subseteq {op[th].dst, op[th].src} \cup Temps
        /\ st.do # "launch" => \E x \in Temps, v \in Inputs \cup {0} :
             /\ st.cmd = Fill(x, v) /\ st.cmd.val = v
             /\ st.do = "upload" => v \in Inputs
  BY DEF StepsOf, Fill
<1> HIDE DEF StepsOf
<1>3. Head(todo[th]).cmd \in CommandsOver(Names) /\ Head(todo[th]).cmd.dst \in Names
  BY <1>1, <1>2, NamesOf
<1>4. NextCmd(th) = InCells(th, Head(todo[th]).cmd)
  BY DEF NextCmd
<1>5. NextCmd(th) \in CommandsOver(Cells) /\ NextCmd(th).dst = Cell(th, Head(todo[th]).cmd.dst)
  BY <1>3, <1>4, InCellsFacts
<1> QED  BY <1>1, <1>2, <1>3, <1>4, <1>5

LEMMA CapturedTyped ==
  ASSUME WorkTyped, NEW c \in CommandsOver(Cells)
  PROVE  /\ Captured(c) \in Work \cup {None} /\ (Capturing <=> Captured(c) # None)
         /\ Capturing =>
              /\ capture.cmds \in Seq(CommandsOver(Cells)) /\ capture.meant \in Seq(CommandsOver(Names))
              /\ Captured(c).cmds = Append(capture.cmds, c) /\ Captured(c).meant = capture.meant
         /\ ~Capturing => Captured(c) = capture
<1>1. CASE ~Capturing
  BY <1>1 DEF Captured, WorkTyped, Capturing
<1>2. CASE Capturing
  <2>1. capture \in Work
    BY <1>2 DEF WorkTyped, Capturing
  <2>2. capture.cmds \in Seq(CommandsOver(Cells)) /\ capture.meant \in Seq(CommandsOver(Names))
    BY <2>1 DEF Work, Names
  <2>3. Captured(c) = [capture EXCEPT !.cmds = Append(capture.cmds, c)]
    BY <1>2 DEF Captured
  <2>4. Append(capture.cmds, c) \in Seq(CommandsOver(Cells))
    BY <2>2
  <2> DEFINE cs == Append(capture.cmds, c)
  <2> HIDE DEF cs
  <2>5. [capture EXCEPT !.cmds = cs] = [cmds |-> cs, meant |-> capture.meant]
    BY <2>1 DEF Work
  <2>6. [cmds |-> cs, meant |-> capture.meant] \in Work
    BY <2>2, <2>4 DEF Work, Names, cs
  <2> QED  BY <1>2, <2>2, <2>3, <2>5, <2>6, NoneFacts DEF cs
<1> QED  BY <1>1, <1>2

LEMMA LaunchDisciplined ==
  ASSUME Discipline, NEW th \in Threads, LaunchKernel(th)
  PROVE  Discipline'
<1>1. ~Idle(th) /\ Head(todo[th]).do = "launch" /\ UNCHANGED htod_cache
      /\ Advance(th, Enqueued(mem, NextCmd(th)), Captured(NextCmd(th)))
  BY DEF LaunchKernel, Next1
<1>2. op[th].dst # None
  BY <1>1, Busy
<1>3. NextCmd(th) \in CommandsOver(Cells)
  BY <1>1, <1>2, NextCommand
<1>4. Enqueued(mem, NextCmd(th)) \in [Cells -> Contents]
  BY <1>3, ExecType DEF Enqueued, Discipline, StoreTyped
<1>5. Captured(NextCmd(th)) \in Work \cup {None} /\ (Capturing <=> Captured(NextCmd(th)) # None)
  BY <1>3, CapturedTyped DEF Discipline
<1>6. htod_mode' = htod_mode
  BY <1>1 DEF Advance
<1>7. CacheTyped'
  BY <1>1, <1>6 DEF Discipline, CacheTyped
<1> QED  BY <1>1, <1>4, <1>5, <1>7, AdvanceDisciplined

LEMMA HostToDeviceDisciplined ==
  ASSUME Discipline, NEW th \in Threads, ~Idle(th), op[th].dst # None, HostToDevice(th)
  PROVE  Discipline'
<1>1. CASE Capturing
  BY <1>1, FailDisciplined DEF HostToDevice
<1>2. CASE ~Capturing
  <2>1. Advance(th, Exec(mem, NextCmd(th)), capture) /\ UNCHANGED htod_cache
    BY <1>2 DEF HostToDevice
  <2>2. NextCmd(th) \in CommandsOver(Cells)
    BY NextCommand
  <2>3. Exec(mem, NextCmd(th)) \in [Cells -> Contents]
    BY <2>2, ExecType DEF Discipline, StoreTyped
  <2>4. capture \in Work \cup {None} /\ (Capturing <=> capture # None)
    BY DEF Discipline, WorkTyped, Capturing
  <2>5. htod_mode' = htod_mode
    BY <2>1 DEF Advance
  <2>6. CacheTyped'
    BY <2>1, <2>5 DEF Discipline, CacheTyped
  <2> QED  BY <2>1, <2>3, <2>4, <2>6, AdvanceDisciplined
<1> QED  BY <1>1, <1>2

LEMMA HostWaitDisciplined ==
  ASSUME Discipline, NEW th \in Threads, HostWait(th)
  PROVE  Discipline'
<1>0. CASE Capturing
  BY <1>0, FailDisciplined DEF HostWait, Next1
<1> SUFFICES ASSUME ~Capturing PROVE Discipline'
  BY <1>0
<1>1. ~Idle(th) /\ UNCHANGED htod_cache /\ Advance(th, mem, capture)
  BY DEF HostWait, Next1
<1>2. capture \in Work \cup {None} /\ (Capturing <=> capture # None) /\ mem \in [Cells -> Contents]
  BY DEF Discipline, WorkTyped, Capturing, StoreTyped
<1>3. htod_mode' = htod_mode
  BY <1>1 DEF Advance
<1>4. CacheTyped'
  BY <1>1, <1>3 DEF Discipline, CacheTyped
<1> QED  BY <1>1, <1>2, <1>4, AdvanceDisciplined

(* A thread that has read a mode is about to upload.                       *)
LEMMA Uploading ==
  ASSUME Discipline, NEW th \in Threads, seen[th] # None
  PROVE  /\ ~Idle(th) /\ op[th].dst # None /\ Head(todo[th]).do = "upload"
         /\ todo[th] = op[th].steps /\ Head(todo[th]).cmd.val \in Inputs
         /\ Capturing /\ ~disturbed => seen[th] = "REPLAY"
<1>1. ~Idle(th)
  BY DEF Discipline, CallsTyped, Remains
<1>2. op[th].dst # None /\ Head(todo[th]).do = "upload" /\ todo[th] = op[th].steps
  BY <1>1, Busy
<1>3. Head(todo[th]).cmd.val \in Inputs
  BY <1>1, <1>2, NextCommand
<1> QED  BY <1>1, <1>2, <1>3 DEF Discipline, Alone, Quiet

(* The buffer an upload is served from, once its content is there.         *)
StagedIn(v, b) == IF htod_cache[v] # None THEN mem ELSE Exec(mem, Fill(b, v))

LEMMA StagedFacts ==
  ASSUME Discipline, NEW v \in Inputs,
         NEW b \in IF htod_cache[v] # None THEN {htod_cache[v]} ELSE Unused
  PROVE  /\ b \in Staged /\ b \in Cells /\ v \in Contents
         /\ StagedIn(v, b) \in [Cells -> Contents]
         /\ htod_cache[v] = None => StagedIn(v, b)[b] = v
         /\ \A l \in Cells : l # b => StagedIn(v, b)[l] = mem[l]
         /\ htod_cache[v] # None => htod_cache[v] = b /\ StagedIn(v, b) = mem
         /\ htod_cache[v] = None => \A w \in Inputs : htod_cache[w] # b
<1>1. htod_cache \in [Inputs -> Staged \cup {None}] /\ mem \in [Cells -> Contents]
  BY DEF Discipline, CacheTyped, StoreTyped
<1>2. b \in Staged /\ b \in Cells /\ v \in Contents
  BY <1>1, CaptureAssumption DEF Unused, Cells
<1>3. /\ Fill(b, v) \in CommandsOver(Cells)
      /\ Fill(b, v).dst = b /\ Result(mem, Fill(b, v)) = v
  BY <1>2 DEF Fill, CommandsOver, Result
<1>4. /\ Exec(mem, Fill(b, v)) \in [Cells -> Contents]
      /\ Exec(mem, Fill(b, v)) = [l \in Cells |-> IF l = b THEN v ELSE mem[l]]
  BY <1>1, <1>3, ExecType
<1> QED  BY <1>1, <1>2, <1>4 DEF StagedIn, Unused

LEMMA UploadCachedParts ==
  ASSUME Discipline, NEW th \in Threads, UploadCached(th)
  PROVE  LET v == Head(todo[th]).cmd.val
             x == Head(todo[th]).cmd.dst
         IN /\ seen[th] # None /\ v \in Inputs
            /\ x \in Temps /\ Head(todo[th]).cmd = Fill(x, v)
            /\ NextCmd(th).dst = Cell(th, x)
            /\ \E b \in IF htod_cache[v] # None THEN {htod_cache[v]} ELSE Unused :
                 /\ htod_cache[v] = None => ~Capturing
                 /\ htod_cache' = [htod_cache EXCEPT ![v] = b]
                 /\ Advance(th, Enqueued(StagedIn(v, b), Copy(Cell(th, x), b)),
                                Captured(Copy(Cell(th, x), b)))
<1>1. seen[th] # None /\ seen[th] \in {"RECORD", "REPLAY"}
  BY NoneFacts DEF UploadCached, Modes
<1>2. ~Idle(th) /\ op[th].dst # None /\ Head(todo[th]).do = "upload" /\ Head(todo[th]).cmd.val \in Inputs
  BY <1>1, Uploading
<1>3. PICK x \in Temps, v \in Inputs \cup {0} : Head(todo[th]).cmd = Fill(x, v) /\ Head(todo[th]).cmd.val = v
  BY <1>2, NextCommand
<1>4. Head(todo[th]).cmd.dst = x /\ v \in Inputs
  BY <1>2, <1>3 DEF Fill
<1>5. NextCmd(th).dst = Cell(th, x)
  BY <1>2, <1>4, NextCommand
<1>6. PICK b \in IF htod_cache[v] # None THEN {htod_cache[v]}
                 ELSE IF seen[th] = "RECORD" /\ ~Capturing THEN Unused ELSE {} :
        /\ htod_cache' = [htod_cache EXCEPT ![v] = b]
        /\ Advance(th, Enqueued(StagedIn(v, b), Copy(NextCmd(th).dst, b)), Captured(Copy(NextCmd(th).dst, b)))
  BY <1>3 DEF UploadCached, StagedIn
<1>7. b \in IF htod_cache[v] # None THEN {htod_cache[v]} ELSE Unused
  OBVIOUS
<1>8. htod_cache[v] = None => ~Capturing
  OBVIOUS
<1> QED  BY <1>1, <1>3, <1>4, <1>5, <1>6, <1>7, <1>8

LEMMA UploadCachedDisciplined ==
  ASSUME Discipline, NEW th \in Threads, UploadCached(th)
  PROVE  Discipline'
<1> DEFINE v == Head(todo[th]).cmd.val
           x == Head(todo[th]).cmd.dst
<1>1. seen[th] # None /\ v \in Inputs /\ x \in Temps
  BY UploadCachedParts
<1>2. PICK b \in IF htod_cache[v] # None THEN {htod_cache[v]} ELSE Unused :
        /\ htod_cache' = [htod_cache EXCEPT ![v] = b]
        /\ Advance(th, Enqueued(StagedIn(v, b), Copy(Cell(th, x), b)), Captured(Copy(Cell(th, x), b)))
  BY UploadCachedParts
<1> HIDE DEF v, x
<1> DEFINE c == Copy(Cell(th, x), b)
           m == Enqueued(StagedIn(v, b), c)
<1>3. /\ b \in Staged /\ b \in Cells /\ v \in Contents /\ StagedIn(v, b) \in [Cells -> Contents]
      /\ htod_cache[v] # None => htod_cache[v] = b
      /\ htod_cache[v] = None => \A w \in Inputs : htod_cache[w] # b
  BY <1>1, StagedFacts
<1>4. c \in CommandsOver(Cells)
  <2>1. Cell(th, x) \in Cells /\ 0 \in Contents
    BY <1>1, CellFacts, NamesOf, NValAssumption DEF Contents
  <2> QED  BY <1>3, <2>1 DEF Copy, CommandsOver
<1> HIDE DEF c
<1>5. m \in [Cells -> Contents]
  BY <1>3, <1>4, ExecType DEF Enqueued
<1>6. Captured(c) \in Work \cup {None} /\ (Capturing <=> Captured(c) # None)
  BY <1>4, CapturedTyped DEF Discipline
<1>7. htod_mode' = htod_mode
  BY <1>2 DEF Advance
<1>8. CacheTyped'
  <2>1. /\ htod_mode \in Modes /\ htod_cache \in [Inputs -> Staged \cup {None}]
        /\ \A u, w \in Inputs : htod_cache[u] = htod_cache[w] /\ htod_cache[u] # None => u = w
    BY DEF Discipline, CacheTyped
  <2>2. htod_cache' \in [Inputs -> Staged \cup {None}]
    BY <1>1, <1>2, <1>3, <2>1
  <2>3. \A u \in Inputs : htod_cache'[u] = IF u = v THEN b ELSE htod_cache[u]
    BY <1>1, <1>2, <2>1
  <2>4. ASSUME NEW u \in Inputs, NEW w \in Inputs,
               htod_cache'[u] = htod_cache'[w], htod_cache'[u] # None
        PROVE  u = w
    <3>1. CASE u = v /\ w # v
      <4>1. htod_cache[w] = b
        BY <2>3, <2>4, <3>1
      <4> QED  BY <1>1, <1>3, <2>1, <2>3, <2>4, <3>1, <4>1
    <3>2. CASE u # v /\ w = v
      <4>1. htod_cache[u] = b
        BY <2>3, <2>4, <3>2
      <4> QED  BY <1>1, <1>3, <2>1, <2>3, <2>4, <3>2, <4>1
    <3>3. CASE u # v /\ w # v
      BY <2>1, <2>3, <2>4, <3>3
    <3> QED  BY <3>1, <3>2, <3>3
  <2> QED  BY <1>7, <2>1, <2>2, <2>4 DEF CacheTyped
<1>9. ~Idle(th) /\ Advance(th, m, Captured(c))
  BY <1>1, <1>2, Uploading DEF c
<1> HIDE DEF m
<1> QED  BY <1>5, <1>6, <1>8, <1>9, AdvanceDisciplined

LEMMA LoadModeDisciplined ==
  ASSUME Discipline, NEW th \in Threads, LoadMode(th)
  PROVE  Discipline'
<1>1. /\ ~Idle(th) /\ Head(todo[th]).do = "upload"
      /\ seen' = [seen EXCEPT ![th] = htod_mode]
      /\ UNCHANGED <<val, read, mem, op, todo, htod_mode, htod_cache, capture, graph, disturbed>>
  BY DEF LoadMode, Next1, eager
<1>2. /\ StoreTyped /\ WorkTyped /\ CacheTyped /\ CallsTyped /\ Locked /\ Alone
      /\ seen \in [Threads -> Modes \cup {None}] /\ htod_mode \in Modes /\ Remains(th)
  BY DEF Discipline, CallsTyped, CacheTyped
<1>3. /\ seen' \in [Threads -> Modes \cup {None}] /\ seen'[th] = htod_mode
      /\ \A u \in Threads : u # th => seen'[u] = seen[u]
      /\ (Capturing' <=> Capturing)
  BY <1>1, <1>2 DEF Capturing
<1>4. StoreTyped' /\ WorkTyped' /\ CacheTyped' /\ Locked'
  BY <1>1, <1>2 DEF StoreTyped, WorkTyped, CacheTyped, Locked
<1>5. ASSUME NEW u \in Threads PROVE Remains(u)'
  <2>1. op' = op /\ todo' = todo /\ Remains(u)
    BY <1>1, <1>2 DEF CallsTyped
  <2>2. CASE u # th
    BY <1>3, <2>1, <2>2 DEF Remains, Idle
  <2>3. CASE u = th
    <3>1. op[th].dst # None
      BY <1>1, Busy
    <3> QED  BY <1>1, <1>3, <2>1, <2>3, <3>1 DEF Remains, Idle
  <2> QED  BY <2>2, <2>3
<1>6. CallsTyped'
  BY <1>1, <1>2, <1>3, <1>5 DEF CallsTyped
<1>7. Alone'
  <2>1. ASSUME ~disturbed', Capturing', NEW u \in Threads
        PROVE  (u # Driver => Idle(u)') /\ seen'[u] \in {None, "REPLAY"}
    <3>1. (u # Driver => Idle(u)) /\ seen[u] \in {None, "REPLAY"} /\ htod_mode = "REPLAY"
      BY <1>1, <1>2, <1>3, <2>1 DEF Alone, Quiet
    <3> QED  BY <1>1, <1>3, <3>1 DEF Idle
  <2>2. ASSUME ~disturbed', ~Capturing', NEW u \in Threads PROVE seen'[u] # "REPLAY"
    BY <1>1, <1>2, <1>3, <2>2 DEF Alone, Quiet
  <2> QED  BY <1>1, <1>2, <1>3, <2>1, <2>2 DEF Alone, Quiet
<1> QED  BY <1>4, <1>6, <1>7 DEF Discipline

LEMMA ProceedDisciplined ==
  ASSUME Discipline, NEW th \in Threads, Proceed(th)
  PROVE  Discipline'
<1>1. CASE CopyFromHost(th)
  <2>1. ~Idle(th) /\ Head(todo[th]).do = "hostcopy" /\ HostToDevice(th)
    BY <1>1 DEF CopyFromHost, Next1
  <2>2. op[th].dst # None
    BY <2>1, Busy
  <2> QED  BY <2>1, <2>2, HostToDeviceDisciplined
<1>2. CASE UploadPlain(th)
  <2>1. seen[th] # None /\ HostToDevice(th)
    BY <1>2, NoneFacts DEF UploadPlain, Modes
  <2>2. ~Idle(th) /\ op[th].dst # None
    BY <2>1, Uploading
  <2> QED  BY <2>1, <2>2, HostToDeviceDisciplined
<1>3. CASE UploadUnrecorded(th)
  <2>1. seen[th] # None /\ Fail(th)
    BY <1>3, NoneFacts DEF UploadUnrecorded, Modes
  <2>2. ~Idle(th)
    BY <2>1, Uploading
  <2> QED  BY <2>1, <2>2, FailDisciplined
<1> QED
  BY <1>1, <1>2, <1>3, LaunchDisciplined, HostWaitDisciplined, LoadModeDisciplined,
     UploadCachedDisciplined DEF Proceed

(* Between operations of the driver.                                       *)
LEMMA CallsKept ==
  ASSUME CallsTyped, Locked, UNCHANGED calls
  PROVE  CallsTyped' /\ Locked' /\ \A th \in Threads : Idle(th)' <=> Idle(th)
<1>1. op' = op /\ todo' = todo /\ seen' = seen
  BY DEF calls
<1>2. \A th \in Threads : Remains(th)'
  BY <1>1 DEF CallsTyped, Remains, Idle
<1>3. CallsTyped'
  BY <1>1, <1>2 DEF CallsTyped
<1>4. Locked'
  BY <1>1 DEF Locked
<1> QED  BY <1>1, <1>3, <1>4 DEF Idle

LEMMA RecordDisciplined ==
  ASSUME Discipline, capture_record_begin \/ capture_record_end
  PROVE  Discipline'
<1>1. /\ UNCHANGED <<val, read, mem, op, todo, seen, htod_cache, capture, graph>> /\ UNCHANGED calls
      /\ disturbed' = disturbed
      /\ htod_mode # "REPLAY" /\ htod_mode' \in Modes \ {"REPLAY"}
  BY DEF capture_record_begin, capture_record_end, set_htod_mode, eager, calls, Modes
<1>2. StoreTyped' /\ WorkTyped' /\ CacheTyped' /\ (Capturing' <=> Capturing)
  BY <1>1 DEF Discipline, StoreTyped, WorkTyped, CacheTyped, Capturing
<1>3. CallsTyped' /\ Locked' /\ \A th \in Threads : Idle(th)' <=> Idle(th)
  BY <1>1, <1>2, CallsKept DEF Discipline
<1>4. Alone'
  BY <1>1, <1>2, <1>3 DEF Discipline, Alone, Quiet
<1> QED  BY <1>2, <1>3, <1>4 DEF Discipline

LEMMA CaptureBeginDisciplined ==
  ASSUME Discipline, capture_begin
  PROVE  Discipline'
<1>1. /\ UNCHANGED <<val, read, mem, op, todo, seen, htod_cache, graph>> /\ UNCHANGED calls
      /\ htod_mode' = "REPLAY" /\ capture' = NoWork
      /\ disturbed' = (disturbed \/ \E th \in Threads : ~Idle(th))
  BY DEF capture_begin, set_htod_mode, eager, calls
<1>2. StoreTyped' /\ WorkTyped' /\ CacheTyped' /\ Capturing'
  BY <1>1, NoneFacts DEF Discipline, StoreTyped, WorkTyped, CacheTyped, Capturing, Modes
<1>3. CallsTyped' /\ Locked' /\ \A th \in Threads : Idle(th)' <=> Idle(th)
  BY <1>1, <1>2, CallsKept DEF Discipline
<1>4. Alone'
  <2>1. disturbed' \in BOOLEAN
    BY <1>1
  <2>2. ASSUME ~disturbed', NEW th \in Threads
        PROVE  Idle(th)' /\ seen'[th] \in {None, "REPLAY"}
    <3>1. Idle(th)
      BY <1>1, <2>2
    <3>2. seen[th] = None
      BY <3>1 DEF Discipline, CallsTyped, Remains
    <3> QED  BY <1>1, <1>3, <3>1, <3>2
  <2> QED  BY <1>1, <1>2, <2>1, <2>2 DEF Alone, Quiet
<1> QED  BY <1>2, <1>3, <1>4 DEF Discipline

LEMMA CaptureStopDisciplined ==
  ASSUME Discipline, capture_end \/ capture_abort, Idle(Driver)
  PROVE  Discipline'
<1>1. /\ UNCHANGED <<val, read, mem, op, todo, seen, htod_cache, disturbed>> /\ UNCHANGED calls
      /\ htod_mode' = "PASSTHROUGH" /\ capture' = None
      /\ graph' \in {graph} \cup (IF Capturing THEN {capture} ELSE {graph})
  BY DEF capture_end, capture_abort, eager, calls
<1>2. StoreTyped' /\ WorkTyped' /\ CacheTyped' /\ ~Capturing'
  BY <1>1 DEF Discipline, StoreTyped, WorkTyped, CacheTyped, Capturing, Modes
<1>3. CallsTyped' /\ Locked' /\ \A th \in Threads : Idle(th)' <=> Idle(th)
  BY <1>1, <1>2, CallsKept DEF Discipline
<1>4. ASSUME NEW th \in Threads, ~disturbed PROVE seen[th] # "REPLAY"
  <2>1. Capturing => Idle(th)
    BY <1>4 DEF Discipline, Alone, Quiet
  <2>2. Idle(th) => seen[th] = None
    BY <1>4 DEF Discipline, CallsTyped, Remains
  <2> QED  BY <1>4, <2>1, <2>2, NoneFacts DEF Discipline, Alone, Quiet, Modes
<1>5. Alone'
  BY <1>1, <1>2, <1>4 DEF Discipline, Alone, Quiet
<1> QED  BY <1>2, <1>3, <1>5 DEF Discipline

(* What a launch makes of memory and of the storages' values.              *)
LEMMA LaunchTypes ==
  ASSUME StoreTyped, WorkTyped, graph # None
  PROVE  /\ graph.cmds \in Seq(CommandsOver(Cells)) /\ graph.meant \in Seq(CommandsOver(Names))
         /\ ExecAll(mem, graph.cmds) \in [Cells -> Contents]
         /\ Values \in [Names -> Contents]
         /\ ExecAll(Values, graph.meant) \in [Names -> Contents]
         /\ Rerun(graph.meant) \in [Tensors -> Contents]
         /\ \A t \in Tensors : Rerun(graph.meant)[t] = ExecAll(Values, graph.meant)[t]
<1>1. graph.cmds \in Seq(CommandsOver(Cells)) /\ graph.meant \in Seq(CommandsOver(Names))
  BY DEF WorkTyped, Work, Names
<1>2. ExecAll(mem, graph.cmds) \in [Cells -> Contents]
  BY <1>1, ExecAllType DEF StoreTyped
<1>3. Values \in [Names -> Contents]
  BY ValuesTyped DEF StoreTyped
<1>4. ExecAll(Values, graph.meant) \in [Names -> Contents]
  BY <1>1, <1>3, ExecAllType
<1>5. Rerun(graph.meant) = [t \in Tensors |-> ExecAll(Values, graph.meant)[t]]
  BY DEF Rerun, Values, Names
<1> QED  BY <1>1, <1>2, <1>3, <1>4, <1>5, NamesOf

LEMMA GraphDisciplined ==
  ASSUME Discipline, launch \/ DropGraph \/ capture_cache_clear
  PROVE  Discipline'
<1>1. UNCHANGED <<op, todo, seen, htod_mode, capture, read, disturbed>> /\ UNCHANGED calls
  BY DEF launch, DropGraph, capture_cache_clear, eager, calls
<1>2. 0 \in Contents
  BY NValAssumption DEF Contents
<1>3. StoreTyped' /\ CacheTyped' /\ graph' \in {graph, None}
  <2>1. CASE launch
    <3>1. graph # None /\ UNCHANGED <<htod_mode, htod_cache, graph>>
          /\ mem' = Recycled(ExecAll(mem, graph.cmds), {Driver} \X Temps) /\ val' = Rerun(graph.meant)
      BY <2>1 DEF launch, Launchable
    <3>2. ExecAll(mem, graph.cmds) \in [Cells -> Contents] /\ Rerun(graph.meant) \in [Tensors -> Contents]
      BY <3>1, LaunchTypes DEF Discipline
    <3>3. mem' \in [Cells -> Contents]
      BY <1>2, <3>1, <3>2 DEF Recycled
    <3> QED  BY <1>1, <3>1, <3>2, <3>3 DEF Discipline, StoreTyped, CacheTyped
  <2>2. CASE DropGraph
    <3>1. UNCHANGED <<val, mem, htod_cache>> /\ graph' = None
      BY <2>2 DEF DropGraph, eager
    <3> QED  BY <1>1, <3>1 DEF Discipline, StoreTyped, CacheTyped
  <2>3. CASE capture_cache_clear
    <3>1. /\ UNCHANGED <<val, graph>> /\ htod_cache' = [v \in Inputs |-> None]
          /\ mem' = Recycled(mem, {htod_cache[v] : v \in Inputs})
      BY <2>3 DEF capture_cache_clear, eager
    <3>2. mem' \in [Cells -> Contents]
      BY <1>2, <3>1 DEF Recycled, Discipline, StoreTyped
    <3> QED  BY <1>1, <3>1, <3>2 DEF Discipline, StoreTyped, CacheTyped
  <2> QED  BY <2>1, <2>2, <2>3
<1>4. WorkTyped' /\ (Capturing' <=> Capturing)
  BY <1>1, <1>3 DEF Discipline, WorkTyped, Capturing
<1>5. CallsTyped' /\ Locked' /\ \A th \in Threads : Idle(th)' <=> Idle(th)
  BY <1>1, <1>4, CallsKept DEF Discipline
<1>6. Alone'
  BY <1>1, <1>4, <1>5 DEF Discipline, Alone, Quiet
<1> QED  BY <1>3, <1>4, <1>5, <1>6 DEF Discipline

LEMMA NextDisciplined == Discipline /\ [Next]_vars => Discipline'
<1> SUFFICES ASSUME Discipline, [Next]_vars PROVE Discipline'
  OBVIOUS
<1>1. CASE Control
  <2> Idle(Driver)
    BY <1>1 DEF Control
  <2> QED
    BY <1>1, RecordDisciplined, CaptureBeginDisciplined, CaptureStopDisciplined, GraphDisciplined
       DEF Control
<1>2. ASSUME NEW th \in Threads, Start(th) PROVE Discipline'
  BY <1>2, StartFits, BeginDisciplined
<1>3. ASSUME NEW th \in Threads, Proceed(th) PROVE Discipline'
  BY <1>3, ProceedDisciplined
<1>4. CASE UNCHANGED vars
  <2>1. /\ UNCHANGED <<val, read, mem, op, todo, seen, htod_mode, htod_cache, capture, graph, disturbed>>
        /\ UNCHANGED calls
    BY <1>4 DEF vars, eager, calls
  <2>2. StoreTyped' /\ WorkTyped' /\ CacheTyped' /\ (Capturing' <=> Capturing)
    BY <2>1 DEF Discipline, StoreTyped, WorkTyped, CacheTyped, Capturing
  <2>3. CallsTyped' /\ Locked' /\ \A th \in Threads : Idle(th)' <=> Idle(th)
    BY <2>1, <2>2, CallsKept DEF Discipline
  <2>4. Alone'
    BY <2>1, <2>2, <2>3 DEF Discipline, Alone, Quiet
  <2> QED  BY <2>2, <2>3, <2>4 DEF Discipline
<1> QED  BY <1>1, <1>2, <1>3, <1>4 DEF Next

(* The discipline of graph capture holds of every state: types, what is    *)
(* left of an operation, the tensors' locks, that the mode is REPLAY       *)
(* exactly while the stream captures, and, as long as only the driver used *)
(* the device during captures, that uploads then are served from the cache *)
(* and none of them is late.                                               *)
THEOREM DisciplineHolds == Spec => []Discipline
<1>1. Init => Discipline
  BY InitDisciplined
<1>2. Discipline /\ [Next]_vars => Discipline'
  BY NextDisciplined
<1> QED  BY <1>1, <1>2, PTL DEF Spec

LEMMA TouchedTyped ==
  ASSUME NEW L, NEW cs \in Seq(CommandsOver(L))
  PROVE  Touched(cs) \subseteq L
<1>1. \A i \in DOMAIN cs : cs[i] \in CommandsOver(L)
  OBVIOUS
<1>2. \A c \in CommandsOver(L) : c.dst \in L /\ c.src \in L /\ (c.op = "merge" => c.aux \in L)
  BY DEF CommandsOver
<1> QED  BY <1>1, <1>2 DEF Touched

(* Every variable has its type: memory and storages hold contents, no two  *)
(* contents are staged in one buffer (cached_htod), captured commands touch *)
(* cells, and a thread without steps left runs no operation.               *)
THEOREM TypesCorrect == Spec => []TypeOK
<1>1. Discipline => TypeOK
  <2> SUFFICES ASSUME Discipline PROVE TypeOK
    OBVIOUS
  <2>1. EagerTypeOK
    BY DEF EagerTypeOK, Discipline, StoreTyped
  <2>2. ASSUME NEW w \in {capture, graph} \ {None}
        PROVE  Touched(w.cmds) \subseteq Cells /\ Touched(w.meant) \subseteq Tensors \cup Temps
    <3>1. w \in Work
      BY DEF Discipline, WorkTyped
    <3>2. w.cmds \in Seq(CommandsOver(Cells)) /\ w.meant \in Seq(CommandsOver(Tensors \cup Temps))
      BY <3>1 DEF Work
    <3> QED  BY <3>2, TouchedTyped
  <2>3. ASSUME NEW th \in Threads, todo[th] = <<>> PROVE op[th] = NoOp /\ seen[th] = None
    BY <2>3 DEF Discipline, CallsTyped, Remains, Idle
  <2> QED
    BY <2>1, <2>2, <2>3 DEF TypeOK, Discipline, StoreTyped, CacheTyped, CallsTyped, Alone
<1> QED  BY <1>1, DisciplineHolds, PTL

-----------------------------------------------------------------------------
(* Operations and launches of a captured graph compute what eager         *)
(* execution would.                                                        *)

-----------------------------------------------------------------------------
(* Lists of commands                                                       *)

LEMMA TouchedParts ==
  ASSUME NEW C, NEW bs \in Seq(C), NEW cs \in Seq(C)
  PROVE  Touched(bs \o cs) = Touched(bs) \cup Touched(cs)
<1> DEFINE ds == bs \o cs
           T(c) == {c.dst, c.src} \cup (IF c.op = "merge" THEN {c.aux} ELSE {})
<1>1. /\ \A i \in DOMAIN bs : i \in DOMAIN ds /\ ds[i] = bs[i]
      /\ \A i \in DOMAIN cs : Len(bs) + i \in DOMAIN ds /\ ds[Len(bs) + i] = cs[i]
      /\ \A i \in DOMAIN ds : i \in DOMAIN bs \/ (i - Len(bs) \in DOMAIN cs /\ ds[i] = cs[i - Len(bs)])
  OBVIOUS
<1> HIDE DEF ds
<1>2. \A es : Touched(es) = UNION {T(es[i]) : i \in DOMAIN es}
  BY DEF Touched
<1>3. \A es, l : l \in Touched(es) <=> \E i \in DOMAIN es : l \in T(es[i])
  BY <1>2
<1> HIDE DEF T
<1>4. ASSUME NEW l \in Touched(ds) PROVE l \in Touched(bs) \cup Touched(cs)
  <2>1. PICK i \in DOMAIN ds : l \in T(ds[i])
    BY <1>3
  <2>2. CASE i \in DOMAIN bs
    BY <1>1, <1>3, <2>1, <2>2
  <2>3. CASE i \notin DOMAIN bs
    <3>1. i - Len(bs) \in DOMAIN cs /\ l \in T(cs[i - Len(bs)])
      BY <1>1, <2>1, <2>3
    <3> QED  BY <1>3, <3>1
  <2> QED  BY <2>2, <2>3
<1>5. ASSUME NEW l \in Touched(bs) PROVE l \in Touched(ds)
  <2>1. PICK i \in DOMAIN bs : l \in T(bs[i])
    BY <1>3
  <2>2. i \in DOMAIN ds /\ l \in T(ds[i])
    BY <1>1, <2>1
  <2> QED  BY <1>3, <2>2
<1>6. ASSUME NEW l \in Touched(cs) PROVE l \in Touched(ds)
  <2>1. PICK i \in DOMAIN cs : l \in T(cs[i])
    BY <1>3
  <2>2. Len(bs) + i \in DOMAIN ds /\ l \in T(ds[Len(bs) + i])
    BY <1>1, <2>1
  <2> QED  BY <1>3, <2>2
<1>7. Touched(ds) = Touched(bs) \cup Touched(cs)
  BY <1>4, <1>5, <1>6
<1> QED  BY <1>7 DEF ds

LEMMA TouchedAppend ==
  ASSUME NEW C, NEW cs \in Seq(C), NEW c \in C
  PROVE  Touched(Append(cs, c)) = Touched(cs) \cup Touched(<<c>>)
<1> DEFINE one == <<c>>
<1>1. one \in Seq(C)
  OBVIOUS
<1>2. Append(cs, c) = cs \o one
  OBVIOUS
<1> HIDE DEF one
<1>3. Touched(cs \o one) = Touched(cs) \cup Touched(one)
  BY <1>1, TouchedParts
<1> QED  BY <1>2, <1>3 DEF one

LEMMA TouchedNothing == Touched(<<>>) = {}
<1>1. DOMAIN <<>> = {}
  OBVIOUS
<1> QED  BY <1>1 DEF Touched

LEMMA TouchedOne ==
  ASSUME NEW c
  PROVE  Touched(<<c>>) = {c.dst, c.src} \cup (IF c.op = "merge" THEN {c.aux} ELSE {})
<1>1. DOMAIN <<c>> = {1} /\ <<c>>[1] = c
  OBVIOUS
<1> DEFINE es == <<c>>
<1> HIDE DEF es
<1>2. DOMAIN es = {1} /\ es[1] = c
  BY <1>1 DEF es
<1>3. Touched(es) = {c.dst, c.src} \cup (IF c.op = "merge" THEN {c.aux} ELSE {})
  BY <1>2 DEF Touched
<1> QED  BY <1>3 DEF es

(* What a list of commands reads and writes, it touches.                   *)
LEMMA TouchedCommands ==
  ASSUME NEW L, NEW cs \in Seq(CommandsOver(L)), NEW i \in DOMAIN cs
  PROVE  /\ cs[i] \in CommandsOver(L)
         /\ cs[i].dst \in Touched(cs) /\ Reads(cs[i]) \subseteq Touched(cs)
         /\ Reads(cs[i]) \subseteq L
<1>1. cs[i] \in CommandsOver(L)
  OBVIOUS
<1>2. \A l \in {cs[i].dst, cs[i].src} \cup (IF cs[i].op = "merge" THEN {cs[i].aux} ELSE {}) : l \in Touched(cs)
  BY DEF Touched
<1>3. ASSUME NEW c \in CommandsOver(L)
      PROVE  /\ Reads(c) \subseteq {c.dst, c.src} \cup (IF c.op = "merge" THEN {c.aux} ELSE {})
             /\ Reads(c) \subseteq L
  BY DEF CommandsOver, Reads
<1> QED  BY <1>1, <1>2, <1>3

LEMMA Untouched ==
  ASSUME NEW L, NEW m \in [L -> Contents], NEW cs \in Seq(CommandsOver(L)),
         NEW l \in L \ Touched(cs)
  PROVE  ExecAll(m, cs)[l] = m[l]
<1>1. Spares(cs, l)
  BY TouchedCommands DEF Spares
<1> QED  BY <1>1, ExecAllUnwritten

LEMMA NoCommands == Cmds(<<>>) = <<>>
<1> DEFINE d == CHOOSE d : TRUE
<1> HIDE DEF d
<1>1. <<>> \in Effective(d, d)
  BY EmptySeq DEF Effective
<1> QED  BY <1>1, CmdsFacts

(* An operation's commands stay within its storages and its temporaries.   *)
LEMMA WithinOperation ==
  ASSUME NEW d \in Names, NEW s, NEW p \in Effective(d, s)
  PROVE  /\ Cmds(p) \in Seq(CommandsOver(Names))
         /\ ClosedIn(Cmds(p), ({d, s} \cap Names) \cup Temps)
         /\ \A t \in Tensors \ {d} : Spares(Cmds(p), t)
<1>1. /\ Cmds(p) \in Seq(CommandsOver(Names)) /\ DOMAIN Cmds(p) = DOMAIN p
      /\ \A i \in DOMAIN p : Cmds(p)[i] = p[i].cmd /\ p[i] \in StepsOf(d, s)
  BY CmdsFacts
<1>2. \A st \in StepsOf(d, s) : /\ st.cmd \in CommandsOver(Names) /\ st.cmd.dst \in {d} \cup Temps
                                /\ Reads(st.cmd) \subseteq {d, s} \cup Temps
  BY DEF StepsOf
<1>3. \A c \in CommandsOver(Names) : Reads(c) \subseteq Names
  BY DEF CommandsOver, Reads
<1> HIDE DEF StepsOf, Cmds
<1>4. ClosedIn(Cmds(p), ({d, s} \cap Names) \cup Temps)
  BY <1>1, <1>2, <1>3 DEF ClosedIn, ClosedCommand
<1>5. \A t \in Tensors : t \notin Temps
  BY CaptureAssumption
<1>6. \A t \in Tensors \ {d} : Spares(Cmds(p), t)
  BY <1>1, <1>2, <1>5 DEF Spares
<1> QED  BY <1>1, <1>4, <1>6

(* It computes the same from equal contents of those.                      *)
LEMMA SameOperation ==
  ASSUME NEW d \in Names, NEW s, NEW p \in Effective(d, s),
         NEW m \in [Names -> Contents], NEW n \in [Names -> Contents],
         \A x \in ({d, s} \cap Names) \cup Temps : m[x] = n[x]
  PROVE  ExecAll(m, Cmds(p))[d] = ExecAll(n, Cmds(p))[d]
<1> DEFINE K == ({d, s} \cap Names) \cup Temps
<1>1. Cmds(p) \in Seq(CommandsOver(Names)) /\ ClosedIn(Cmds(p), K)
  BY WithinOperation
<1>2. K \in SUBSET Names /\ d \in K
  BY NamesOf
<1>3. SameOn(m, n, K)
  BY DEF SameOn
<1> HIDE DEF K
<1>4. SameOn(ExecAll(m, Cmds(p)), ExecAll(n, Cmds(p)), K)
  BY <1>1, <1>2, <1>3, ExecAllAgree
<1> QED  BY <1>2, <1>4 DEF SameOn

-----------------------------------------------------------------------------
(* What a step leaves alone                                                *)

LEMMA InitAgrees == Init => Agreement
<1> SUFFICES ASSUME Init PROVE Agreement
  OBVIOUS
<1>1. Holds(mem) /\ ~Capturing /\ graph = None
  BY DEF Init, Holds, Capturing
<1>2. Current
  BY DEF Init, Current, Cells
<1>3. Cleared
  BY DEF Init, Cleared, Cells
<1>4. \A th \in Threads : Due(th)
  BY DEF Init, Due, NoOp
<1> QED  BY <1>1, <1>2, <1>3, <1>4 DEF Agreement, Recorded

(* A thread in an operation.                                               *)
LEMMA Running ==
  ASSUME Discipline, NEW th \in Threads, op[th].dst # None
  PROVE  /\ ~Idle(th) /\ op[th].dst \in Tensors /\ op[th].dst \in Names
         /\ op[th].steps \in Effective(op[th].dst, op[th].src)
         /\ todo[th] \in Effective(op[th].dst, op[th].src)
<1>1. ~Idle(th)
  BY DEF Discipline, CallsTyped, Remains, NoOp
<1> QED  BY <1>1, Busy, NamesOf

LEMMA Idles ==
  ASSUME Discipline, NEW th \in Threads, Idle(th)
  PROVE  op[th].dst = None /\ op[th].src = None /\ op[th].steps = <<>> /\ todo[th] = <<>>
BY DEF Discipline, CallsTyped, Remains, NoOp, Idle

(* An operation stays due what it was while nobody else touches what it    *)
(* uses.                                                                   *)
LEMMA DueKept ==
  ASSUME Discipline, StoreTyped', NEW th \in Threads, Due(th), Capturing' \/ ~Capturing,
         op'[th] = op[th], todo'[th] = todo[th],
         \A t \in {op[th].dst, op[th].src} \cap Tensors : mem'[t] = mem[t] /\ val'[t] = val[t],
         \A x \in Temps : mem'[<<th, x>>] = mem[<<th, x>>]
  PROVE  Due(th)'
<1> SUFFICES ASSUME op[th].dst # None, ~Capturing'
             PROVE  ExecAll(SeenBy(th, mem'), Cmds(todo[th]))[op[th].dst]
                      = ExecAll(Values', Cmds(op[th].steps))[op[th].dst]
  BY DEF Due, Cmds
<1> DEFINE d == op[th].dst
           s == op[th].src
           p == op[th].steps
           q == todo[th]
<1>1. d \in Tensors /\ d \in Names /\ p \in Effective(d, s) /\ q \in Effective(d, s)
  BY Running
<1>2. ExecAll(SeenBy(th, mem), Cmds(q))[d] = ExecAll(Values, Cmds(p))[d]
  BY DEF Due
<1>3. /\ SeenBy(th, mem) \in [Names -> Contents] /\ SeenBy(th, mem') \in [Names -> Contents]
      /\ Values \in [Names -> Contents] /\ Values' \in [Names -> Contents]
  <2>1. mem \in [Cells -> Contents] /\ mem' \in [Cells -> Contents]
        /\ val \in [Tensors -> Contents] /\ val' \in [Tensors -> Contents]
    BY DEF Discipline, StoreTyped
  <2>2. 0 \in Contents
    BY NValAssumption DEF Contents
  <2> QED  BY <2>1, <2>2, SeenTyped DEF Values
<1>4. \A x \in ({d, s} \cap Names) \cup Temps : SeenBy(th, mem')[x] = SeenBy(th, mem)[x]
  <2> SUFFICES ASSUME NEW x \in ({d, s} \cap Names) \cup Temps
               PROVE  mem'[Cell(th, x)] = mem[Cell(th, x)]
    BY NamesOf DEF SeenBy
  <2>1. CASE x \in Temps
    BY <2>1, CellFacts
  <2>2. CASE x \notin Temps
    <3>1. x \in Tensors /\ x \in {op[th].dst, op[th].src}
      BY <2>2 DEF Names
    <3> QED  BY <3>1, CellFacts
  <2> QED  BY <2>1, <2>2
<1>5. \A x \in ({d, s} \cap Names) \cup Temps : Values'[x] = Values[x]
  <2> SUFFICES ASSUME NEW x \in ({d, s} \cap Names) \cup Temps PROVE Values'[x] = Values[x]
    OBVIOUS
  <2>1. x \in Names /\ (x \in Tensors => x \in {op[th].dst, op[th].src})
    BY NamesOf, CaptureAssumption DEF Names
  <2> QED  BY <2>1 DEF Values
<1> HIDE DEF d, s, p, q
<1>6. ExecAll(SeenBy(th, mem'), Cmds(q))[d] = ExecAll(SeenBy(th, mem), Cmds(q))[d]
  BY <1>1, <1>3, <1>4, SameOperation
<1>7. ExecAll(Values', Cmds(p))[d] = ExecAll(Values, Cmds(p))[d]
  BY <1>1, <1>3, <1>5, SameOperation
<1> QED  BY <1>2, <1>6, <1>7 DEF d, p, q

(* What a capture stands for, it stands for as more contents are staged.   *)
LEMMA FaithfulKept ==
  ASSUME NEW w, Faithful(w), \A v \in Inputs : htod_cache[v] # None => htod_cache'[v] = htod_cache[v]
  PROVE  Own(w.cmds) /\ Covers(w.cmds, <<>>, w.meant) /\ Replays(w.cmds, <<>>, w.meant)'
<1>1. \A m : Holds(m)' => Holds(m)
  BY DEF Holds
<1>2. Own(w.cmds) /\ Covers(w.cmds, <<>>, w.meant) /\ Replays(w.cmds, <<>>, w.meant)
  BY DEF Faithful
<1> QED  BY <1>1, <1>2 DEF Replays

-----------------------------------------------------------------------------
(* Starting an operation                                                   *)

(* A captured workload with an operation more, none of it done yet.        *)
LEMMA ReplaysOperation ==
  ASSUME NEW w \in Work, Faithful(w), NEW d \in Tensors, NEW s, NEW p \in Effective(d, s),
         Pure(Cmds(p))
  PROVE  /\ Covers(w.cmds, Cmds(p), w.meant \o Cmds(p))
         /\ Replays(w.cmds, Cmds(p), w.meant \o Cmds(p))
<1>1. w.cmds \in Seq(CommandsOver(Cells)) /\ w.meant \in Seq(CommandsOver(Names))
  BY DEF Work, Names
<1> DEFINE cs == Cmds(p)
           bs == w.cmds
           ms == w.meant
<1>2. cs \in Seq(CommandsOver(Names))
  BY CmdsFacts
<1>3. Covers(bs, <<>>, ms) /\ Replays(bs, <<>>, ms) /\ Pure(cs)
  BY DEF Faithful
<1> HIDE DEF cs, bs, ms
<1>4. Covers(bs, cs, ms \o cs)
  <2>1. Touched(ms \o cs) = Touched(ms) \cup Touched(cs)
    BY <1>1, <1>2, TouchedParts DEF ms
  <2>2. Touched(<<>>) = {}
    BY TouchedNothing
  <2> QED  BY <1>3, <2>1, <2>2 DEF Covers
<1>5. Replays(bs, cs, ms \o cs)
  <2> SUFFICES ASSUME NEW m \in [Cells -> Contents], NEW n \in [Names -> Contents],
                      Holds(m), SameOn(m, n, Tensors)
               PROVE  SameOn(ExecAll(SeenBy(Driver, ExecAll(m, bs)), cs), ExecAll(n, ms \o cs), Tensors)
    BY DEF Replays
  <2> DEFINE a == SeenBy(Driver, ExecAll(m, bs))
             b == ExecAll(n, ms)
  <2>1. SameOn(ExecAll(a, <<>>), b, Tensors)
    BY <1>3 DEF Replays
  <2>2. ExecAll(a, <<>>) = a
    BY ExecAllEmpty
  <2>3. a \in [Names -> Contents] /\ b \in [Names -> Contents]
    <3>1. ExecAll(m, bs) \in [Cells -> Contents]
      BY <1>1, ExecAllType DEF bs
    <3> QED  BY <1>1, <3>1, ExecAllType, SeenTyped, CaptureAssumption DEF ms
  <2>4. ExecAll(n, ms \o cs) = ExecAll(b, cs)
    BY <1>1, <1>2, ExecAllConcat DEF ms
  <2> HIDE DEF a, b
  <2>5. SameOn(ExecAll(a, cs), ExecAll(b, cs), Tensors)
    BY <1>3, <2>1, <2>2, <2>3 DEF Pure
  <2> QED  BY <2>4, <2>5 DEF a
<1> QED  BY <1>4, <1>5 DEF bs, cs, ms

(* What a new operation makes of memory, while nobody writes its input.    *)
LEMMA DueAtFirst ==
  ASSUME Discipline, Current, Cleared, NEW th \in Threads, Idle(th),
         NEW d \in Tensors, NEW s \in Tensors \cup {None}, NEW p \in Effective(d, s),
         Unwritten(d), s # None => Unwritten(s)
  PROVE  ExecAll(SeenBy(th, mem), Cmds(p))[d] = ExecAll(Values, Cmds(p))[d]
<1>1. SeenBy(th, mem) \in [Names -> Contents] /\ Values \in [Names -> Contents]
  BY SeenTyped, ValuesTyped DEF Discipline, StoreTyped
<1>2. ASSUME NEW x \in ({d, s} \cap Names) \cup Temps
      PROVE  SeenBy(th, mem)[x] = Values[x]
  <2>1. x \in Names /\ SeenBy(th, mem)[x] = mem[Cell(th, x)]
    BY NamesOf DEF SeenBy
  <2>2. CASE x \in Temps
    <3>1. mem[Cell(th, x)] = 0
      BY <2>2, CellFacts DEF Cleared
    <3>2. x \notin Tensors
      BY <2>2, CaptureAssumption
    <3> QED  BY <2>1, <3>1, <3>2 DEF Values
  <2>3. CASE x \notin Temps
    <3>1. x \in Tensors /\ Cell(th, x) = x
      BY <2>1, <2>3, CellFacts DEF Names
    <3>2. x \in {d, s} /\ x # None
      BY <2>3, <3>1, NoneFacts
    <3>3. Unwritten(x)
      BY <3>2
    <3> QED  BY <2>1, <3>1, <3>3 DEF Values, Current
  <2> QED  BY <2>2, <2>3
<1> QED  BY <1>1, <1>2, SameOperation, NamesOf

LEMMA BeginAgrees ==
  ASSUME Settled, Discipline', ~disturbed', NEW th \in Threads, NEW d \in Tensors \cup {None},
         NEW s \in Tensors \cup {None}, NEW p, Program(d, s, p), Begin(th, d, s, p)
  PROVE  Agreement'
<1>1. /\ UNCHANGED <<val, read, mem, seen, htod_mode, htod_cache, capture, graph>>
      /\ Idle(th) /\ p # <<>>
      /\ Capturing => th = Driver
      /\ \A u \in Threads : Apart(u, {d} \ {None}) /\ op[u].dst \notin {s} \ {None}
      /\ op' = [op EXCEPT ![th] = [dst |-> d, src |-> s, steps |-> p]]
      /\ todo' = [todo EXCEPT ![th] = p]
  BY DEF Begin, eager
<1>2. /\ Discipline /\ Holds(mem) /\ Current /\ Cleared /\ Recorded
      /\ \A u \in Threads : Due(u)
      /\ graph # None => Faithful(graph)
      /\ DOMAIN op = Threads /\ DOMAIN todo = Threads
  BY DEF Settled, Agreement, Discipline, CallsTyped
<1>3. /\ todo'[th] = p /\ op'[th].dst = d /\ op'[th].src = s /\ op'[th].steps = p
      /\ \A u \in Threads : u # th => todo'[u] = todo[u] /\ op'[u] = op[u]
      /\ (Capturing' <=> Capturing)
  BY <1>1, <1>2 DEF Capturing
<1>4. Holds(mem)' /\ (graph' # None => Faithful(graph)')
  BY <1>1, <1>2 DEF Holds, Faithful, Own, Covers, Replays
<1>5. op[th].dst = None
  BY <1>1, <1>2, Idles
<1>6. Current'
  <2>1. ASSUME NEW t \in Tensors, Unwritten(t)' PROVE Unwritten(t)
    BY <1>3, <1>5, <2>1, NoneFacts DEF Unwritten
  <2> QED  BY <1>1, <1>2, <1>3, <2>1 DEF Current
<1>7. Cleared'
  BY <1>1, <1>2, <1>3 DEF Cleared, Idle
<1>8. ASSUME NEW u \in Threads PROVE Due(u)'
  <2>1. CASE u # th
    <3>1. StoreTyped'
      BY DEF Discipline
    <3> QED  BY <1>1, <1>2, <1>3, <2>1, <3>1, DueKept
  <2>2. CASE u = th
    <3> SUFFICES ASSUME d # None, ~Capturing
                 PROVE  ExecAll(SeenBy(th, mem), Cmds(p))[d] = ExecAll(Values, Cmds(p))[d]
      BY <1>1, <1>3, <2>2 DEF Due, Cmds, Values, SeenBy
    <3>1. d \in Tensors /\ p \in Effective(d, s)
      BY DEF Program
    <3>2. Unwritten(d) /\ (s # None => Unwritten(s))
      BY <1>1, <3>1, NoneFacts DEF Unwritten, Apart
    <3> QED  BY <1>1, <1>2, <3>1, <3>2, DueAtFirst
  <2> QED  BY <2>1, <2>2
<1>9. Recorded'
  <2> SUFFICES ASSUME Capturing
               PROVE  /\ Own(capture.cmds) /\ Faithful(capture)
                      /\ d # None =>
                           /\ Covers(capture.cmds, Cmds(p), capture.meant \o Cmds(p))
                           /\ Replays(capture.cmds, Cmds(p), capture.meant \o Cmds(p))
    <3>1. Capturing => th = Driver
      BY <1>1
    <3> QED  BY <1>1, <1>3, <3>1 DEF Recorded, Own, Covers, Replays, Faithful, Cmds, Holds
  <2>1. th = Driver /\ Idle(Driver) /\ capture \in Work
    BY <1>1, <1>2 DEF Discipline, WorkTyped, Capturing
  <2>2. Own(capture.cmds) /\ Faithful(capture)
    BY <1>2, <2>1 DEF Recorded
  <2>3. d # None => d \in Tensors /\ p \in Effective(d, s) /\ Pure(Cmds(p))
    BY DEF Program
  <2> QED  BY <2>1, <2>2, <2>3, ReplaysOperation
<1> QED  BY <1>4, <1>6, <1>7, <1>8, <1>9 DEF Agreement

-----------------------------------------------------------------------------
(* A step of an operation that the stream executes                         *)

(* The contents m are those after the next command on m0, where m0 differs *)
(* from memory in what is staged only.                                     *)
Executed(th, m0, m) ==
  /\ m0 \in [Cells -> Contents]
  /\ \A l \in Cells \ Staged : m0[l] = mem[l]
  /\ m = Exec(m0, InCells(th, Head(todo[th]).cmd))

LEMMA ExecutedFacts ==
  ASSUME Settled, NEW th \in Threads, ~Idle(th), op[th].dst # None, ~Capturing,
         NEW m0, NEW m, Executed(th, m0, m)
  PROVE  /\ m \in [Cells -> Contents]
         /\ \A l \in Cells : l \notin Staged \cup {op[th].dst} \cup ({th} \X Temps) => m[l] = mem[l]
         /\ \A b \in Staged : m[b] = m0[b]
         /\ ExecAll(SeenBy(th, m), Cmds(Tail(todo[th])))[op[th].dst]
              = ExecAll(Values, Cmds(op[th].steps))[op[th].dst]
<1> DEFINE c == Head(todo[th]).cmd
           d == op[th].dst
           q == todo[th]
<1>1. Discipline /\ Due(th)
  BY DEF Settled, Agreement
<1>2. c \in CommandsOver(Names) /\ c.dst \in {d} \cup Temps /\ c.dst \in Names
  BY <1>1, NextCommand
<1>3. d \in Tensors /\ q \in Effective(d, op[th].src) /\ q # <<>>
  BY <1>1, Busy
<1>4. m0 \in [Cells -> Contents] /\ m = Exec(m0, InCells(th, c)) /\ \A l \in Cells \ Staged : m0[l] = mem[l]
  BY DEF Executed
<1> HIDE DEF c
<1>5. /\ m \in [Cells -> Contents] /\ SeenBy(th, m) = Exec(SeenBy(th, m0), c)
      /\ \A l \in Cells : l # Cell(th, c.dst) => m[l] = m0[l]
  BY <1>2, <1>4, SeenExec
<1>6. Cell(th, c.dst) \in {d} \cup ({th} \X Temps)
  BY <1>2, <1>3, CellFacts
<1>7. \A x \in Names : Cell(th, x) \in Cells \ Staged
  <2>1. \A l \in Tensors \cup (Threads \X Temps) : l \notin Staged \/ l \in Tensors
    BY CaptureAssumption
  <2>2. \A l \in Tensors : l \notin Staged
    BY CaptureAssumption
  <2> QED  BY <2>1, <2>2, CellFacts
<1>8. SeenBy(th, m0) = SeenBy(th, mem)
  BY <1>4, <1>7 DEF SeenBy
<1>9. ExecAll(SeenBy(th, m), Cmds(Tail(q))) = ExecAll(SeenBy(th, mem), Cmds(q))
  <2>1. ExecAll(SeenBy(th, mem), Cmds(q)) = ExecAll(Exec(SeenBy(th, mem), Head(q).cmd), Cmds(Tail(q)))
    BY <1>3, StepThenRest
  <2> QED  BY <1>5, <1>8, <2>1 DEF c
<1>10. ExecAll(SeenBy(th, mem), Cmds(q))[d] = ExecAll(Values, Cmds(op[th].steps))[d]
  BY <1>1, <1>3, NoneFacts DEF Due
<1>11. \A b \in Staged : b \in Cells /\ b # Cell(th, c.dst)
  <2>1. Staged \subseteq Cells
    BY DEF Cells
  <2> QED  BY <1>2, <1>7, <2>1
<1> QED  BY <1>4, <1>5, <1>6, <1>9, <1>10, <1>11

LEMMA ExecutedAgrees ==
  ASSUME Settled, Discipline', NEW th \in Threads, ~Idle(th), op[th].dst # None, ~Capturing,
         NEW m0, NEW m, Executed(th, m0, m), Advance(th, m, capture),
         \A v \in Inputs : htod_cache'[v] # None => m[htod_cache'[v]] = v,
         \A v \in Inputs : htod_cache[v] # None => htod_cache'[v] = htod_cache[v]
  PROVE  Agreement'
<1> DEFINE d == op[th].dst
           ps == op[th].steps
           last == Len(todo[th]) = 1
           rest == Tail(todo[th])
<1>1. /\ Discipline /\ Holds(mem) /\ Current /\ Cleared /\ Recorded
      /\ \A u \in Threads : Due(u)
      /\ graph # None => Faithful(graph)
      /\ DOMAIN op = Threads /\ DOMAIN todo = Threads /\ val \in [Tensors -> Contents]
      /\ StoreTyped'
  BY DEF Settled, Agreement, Discipline, CallsTyped, StoreTyped
<1>2. /\ m \in [Cells -> Contents]
      /\ \A l \in Cells : l \notin Staged \cup {d} \cup ({th} \X Temps) => m[l] = mem[l]
      /\ ExecAll(SeenBy(th, m), Cmds(rest))[d] = ExecAll(Values, Cmds(ps))[d]
  BY ExecutedFacts
<1>3. /\ d \in Tensors /\ d \in Names /\ ps \in Effective(d, op[th].src)
      /\ Meaning(ps) = Cmds(ps) /\ (last <=> rest = <<>>)
  BY <1>1, Busy, BusyTail, NamesOf
<1>4. /\ todo' = [todo EXCEPT ![th] = rest] /\ graph' = graph
      /\ mem' = IF last THEN Recycled(m, {th} \X Temps) ELSE m
      /\ op' = IF last THEN [op EXCEPT ![th] = NoOp] ELSE op
      /\ val' = IF last THEN Rerun(Cmds(ps)) ELSE val
      /\ capture' = capture /\ ~Capturing'
  BY <1>3 DEF Advance, Capturing
<1> HIDE DEF d, ps, last, rest
<1>5. /\ todo'[th] = rest /\ op'[th] = IF last THEN NoOp ELSE op[th]
      /\ \A u \in Threads : u # th => todo'[u] = todo[u] /\ op'[u] = op[u]
  BY <1>1, <1>4
<1>6. /\ \A l \in Cells : l \notin Staged \cup {d} \cup ({th} \X Temps) => mem'[l] = mem[l]
      /\ \A l \in Cells : l \notin {th} \X Temps => mem'[l] = m[l]
      /\ last => \A x \in Temps : mem'[<<th, x>>] = 0
  <2>1. \A x \in Temps : <<th, x>> \in Cells
    BY DEF Cells
  <2> QED  BY <1>2, <1>4, <2>1 DEF Recycled
<1>7. /\ \A t \in Tensors : t # d => val'[t] = val[t]
      /\ last => val'[d] = ExecAll(Values, Cmds(ps))[d]
  <2>1. \A t \in Tensors : Rerun(Cmds(ps))[t] = ExecAll(Values, Cmds(ps))[t]
    BY DEF Rerun, Values, Names
  <2>2. ASSUME NEW t \in Tensors, t # d PROVE ExecAll(Values, Cmds(ps))[t] = val[t]
    <3>1. Cmds(ps) \in Seq(CommandsOver(Names)) /\ Spares(Cmds(ps), t)
      BY <1>3, <2>2, WithinOperation
    <3>2. Values \in [Names -> Contents] /\ t \in Names
      BY <1>1, ValuesTyped, NamesOf
    <3>3. ExecAll(Values, Cmds(ps))[t] = Values[t]
      BY <3>1, <3>2, ExecAllUnwritten
    <3> QED  BY <3>2, <3>3 DEF Values
  <2> QED  BY <1>3, <1>4, <2>1, <2>2
<1>8. Holds(mem)'
  <2>1. \A v \in Inputs : htod_cache'[v] # None => htod_cache'[v] \in Staged
    BY DEF Discipline, CacheTyped
  <2>2. \A b \in Staged : b \in Cells /\ b \notin {th} \X Temps
    BY CaptureAssumption DEF Cells
  <2> QED  BY <1>6, <2>1, <2>2 DEF Holds
<1>9. \A t \in Tensors : t \in Cells /\ t \notin Staged \cup ({th} \X Temps)
  BY CaptureAssumption DEF Cells
<1>10. Current'
  <2> SUFFICES ASSUME NEW t \in Tensors, Unwritten(t)' PROVE mem'[t] = val'[t]
    BY <1>4 DEF Current
  <2>1. CASE t = d
    <3>1. last
      BY <1>5, <2>1 DEF Unwritten, d
    <3>2. Cmds(rest) = <<>>
      <4>1. rest = <<>>
        BY <1>3, <3>1
      <4> QED  BY <4>1, NoCommands, Zenon
    <3>3. SeenBy(th, m)[d] = m[d]
      BY <1>3, CellFacts DEF SeenBy
    <3>4. ExecAll(SeenBy(th, m), <<>>) = SeenBy(th, m)
      BY ExecAllEmpty
    <3> QED  BY <1>2, <1>6, <1>7, <1>9, <2>1, <3>1, <3>2, <3>3, <3>4
  <2>2. CASE t # d
    <3>1. Unwritten(t)
      BY <1>5, <2>2 DEF Unwritten, d
    <3> QED  BY <1>1, <1>6, <1>7, <1>9, <2>2, <3>1 DEF Current
  <2> QED  BY <2>1, <2>2
<1>11. ASSUME NEW u \in Threads, u # th, NEW x \in Temps
       PROVE  mem'[<<u, x>>] = mem[<<u, x>>]
  <2>1. <<u, x>> \in Cells /\ <<u, x>> \notin Staged \cup {d} \cup ({th} \X Temps)
    BY <1>3, <1>11, CaptureAssumption DEF Cells
  <2> QED  BY <1>6, <2>1
<1>12. Cleared'
  <2> SUFFICES ASSUME NEW u \in Threads, NEW x \in Temps, Idle(u)'
               PROVE  mem'[<<u, x>>] = 0
    BY <1>4 DEF Cleared
  <2>1. CASE u = th
    BY <1>3, <1>5, <1>6, <2>1 DEF Idle
  <2>2. CASE u # th
    <3>1. Idle(u)
      BY <1>5, <2>2 DEF Idle
    <3> QED  BY <1>1, <1>11, <2>2, <3>1 DEF Cleared
  <2> QED  BY <2>1, <2>2
<1>13. ASSUME NEW u \in Threads PROVE Due(u)'
  <2>1. CASE u # th
    <3>1. ASSUME NEW t \in {op[u].dst, op[u].src} \cap Tensors
          PROVE  mem'[t] = mem[t] /\ val'[t] = val[t]
      <4>1. t # d
        BY <1>1, <2>1 DEF Discipline, Locked, d
      <4> QED  BY <1>6, <1>7, <1>9, <4>1
    <3>2. \A x \in Temps : mem'[<<u, x>>] = mem[<<u, x>>]
      BY <1>11, <2>1
    <3>3. op'[u] = op[u] /\ todo'[u] = todo[u] /\ Due(u)
      BY <1>1, <1>5, <2>1
    <3> QED  BY <1>1, <3>1, <3>2, <3>3, DueKept
  <2>2. CASE u = th /\ last
    BY <1>5, <2>2 DEF Due, NoOp
  <2>3. CASE u = th /\ ~last
    <3>1. op'[th] = op[th] /\ mem' = m /\ val' = val
      BY <1>4, <1>5, <2>3
    <3> QED  BY <1>2, <1>5, <2>3, <3>1 DEF Due, Cmds, SeenBy, Values, d, ps
  <2> QED  BY <2>1, <2>2, <2>3
<1>14. graph' # None => Faithful(graph)'
  <2> SUFFICES ASSUME graph # None PROVE Faithful(graph)'
    BY <1>4
  <2>1. Own(graph.cmds) /\ Covers(graph.cmds, <<>>, graph.meant)
    BY <1>1 DEF Faithful
  <2>2. Replays(graph.cmds, <<>>, graph.meant)
    BY <1>1 DEF Faithful
  <2>3. \A n : Holds(n)' => Holds(n)
    BY DEF Holds
  <2> QED  BY <1>4, <2>1, <2>2, <2>3 DEF Faithful, Own, Covers, Replays
<1>15. Recorded'
  BY <1>4 DEF Recorded
<1> QED  BY <1>8, <1>10, <1>12, <1>13, <1>14, <1>15 DEF Agreement

(* The host waits, and nothing else happens.                               *)
LEMMA WaitedAgrees ==
  ASSUME Settled, Discipline', NEW th \in Threads, HostWait(th), ~Capturing
  PROVE  Agreement'
<1>1. ~Idle(th) /\ Head(todo[th]).do = "wait" /\ UNCHANGED htod_cache /\ Advance(th, mem, capture)
  BY DEF HostWait, Next1
<1>2. /\ Discipline /\ Holds(mem) /\ Current /\ Cleared /\ Recorded
      /\ \A u \in Threads : Due(u)
      /\ graph # None => Faithful(graph)
      /\ DOMAIN op = Threads /\ DOMAIN todo = Threads
      /\ val \in [Tensors -> Contents] /\ mem \in [Cells -> Contents] /\ StoreTyped'
  BY DEF Settled, Agreement, Discipline, CallsTyped, StoreTyped
<1>3. /\ op[th].dst = None /\ Len(todo[th]) = 1 /\ Tail(todo[th]) = <<>>
      /\ Meaning(op[th].steps) = <<>>
  BY <1>1, <1>2, Busy
<1>4. /\ todo' = [todo EXCEPT ![th] = <<>>] /\ graph' = graph /\ capture' = capture
      /\ mem' = Recycled(mem, {th} \X Temps) /\ op' = [op EXCEPT ![th] = NoOp]
      /\ val' = Rerun(<<>>) /\ ~Capturing'
  BY <1>1, <1>3 DEF Advance, Capturing
<1>5. /\ todo'[th] = <<>> /\ op'[th] = NoOp
      /\ \A u \in Threads : u # th => todo'[u] = todo[u] /\ op'[u] = op[u]
  BY <1>2, <1>4
<1>6. val' = val
  <2>1. ExecAll(Values, <<>>) = Values
    BY ExecAllEmpty
  <2>2. Rerun(<<>>) = [t \in Tensors |-> ExecAll(Values, <<>>)[t]]
    BY DEF Rerun, Values, Names
  <2>3. \A t \in Tensors : Values[t] = val[t]
    BY NamesOf DEF Values
  <2> QED  BY <1>2, <1>4, <2>1, <2>2, <2>3
<1>7. /\ \A l \in Cells : l \notin {th} \X Temps => mem'[l] = mem[l]
      /\ \A x \in Temps : mem'[<<th, x>>] = 0
  <2>1. \A x \in Temps : <<th, x>> \in Cells
    BY DEF Cells
  <2> QED  BY <1>4, <2>1 DEF Recycled
<1>8. \A l \in Tensors \cup Staged : l \in Cells /\ l \notin {th} \X Temps
  BY CaptureAssumption DEF Cells
<1>9. Holds(mem)'
  <2>1. \A v \in Inputs : htod_cache[v] # None => htod_cache[v] \in Staged
    BY <1>2 DEF Discipline, CacheTyped
  <2> QED  BY <1>1, <1>2, <1>7, <1>8, <2>1 DEF Holds
<1>10. Current'
  <2>1. ASSUME NEW t \in Tensors, Unwritten(t)' PROVE Unwritten(t)
    BY <1>3, <1>5, <2>1, NoneFacts DEF Unwritten
  <2> QED  BY <1>2, <1>4, <1>6, <1>7, <1>8, <2>1 DEF Current
<1>11. ASSUME NEW u \in Threads, u # th, NEW x \in Temps
       PROVE  mem'[<<u, x>>] = mem[<<u, x>>]
  BY <1>7, <1>11 DEF Cells
<1>12. Cleared'
  <2> SUFFICES ASSUME NEW u \in Threads, NEW x \in Temps, Idle(u)'
               PROVE  mem'[<<u, x>>] = 0
    BY <1>4 DEF Cleared
  <2>1. CASE u # th
    BY <1>2, <1>5, <1>11, <2>1 DEF Idle, Cleared
  <2> QED  BY <1>7, <2>1
<1>13. ASSUME NEW u \in Threads PROVE Due(u)'
  <2>1. CASE u # th
    <3>1. \A t \in {op[u].dst, op[u].src} \cap Tensors : mem'[t] = mem[t] /\ val'[t] = val[t]
      BY <1>6, <1>7, <1>8
    <3>2. \A x \in Temps : mem'[<<u, x>>] = mem[<<u, x>>]
      BY <1>11, <2>1
    <3>3. op'[u] = op[u] /\ todo'[u] = todo[u] /\ Due(u)
      BY <1>2, <1>5, <2>1
    <3> QED  BY <1>2, <1>3, <3>1, <3>2, <3>3, DueKept
  <2>2. CASE u = th
    BY <1>5, <2>2 DEF Due, NoOp
  <2> QED  BY <2>1, <2>2
<1>14. graph' # None => Faithful(graph)'
  BY <1>1, <1>2, <1>4 DEF Faithful, Own, Covers, Replays, Holds
<1>15. Recorded'
  BY <1>4 DEF Recorded
<1> QED  BY <1>9, <1>10, <1>12, <1>13, <1>14, <1>15 DEF Agreement

-----------------------------------------------------------------------------
(* A step of an operation that the capture records                         *)

(* The command c does to cells what the next one of the operation does,    *)
(* given what is staged.                                                   *)
Records(c) ==
  /\ c \in CommandsOver(Cells)
  /\ c.dst = Cell(Driver, Head(todo[Driver]).cmd.dst)
  /\ Touched(<<Head(todo[Driver]).cmd>>) \cap Tensors \subseteq Touched(<<c>>)
  /\ \A m \in [Cells -> Contents] :
       Holds(m) => Exec(m, c) = Exec(m, InCells(Driver, Head(todo[Driver]).cmd))

(* Staged contents stay, whatever the recorded commands do.                *)
LEMMA OwnKeeps ==
  ASSUME Discipline, NEW cs \in Seq(CommandsOver(Cells)), Own(cs), NEW m \in [Cells -> Contents]
  PROVE  /\ ExecAll(m, cs) \in [Cells -> Contents]
         /\ \A b \in Staged : ExecAll(m, cs)[b] = m[b]
         /\ \A u \in Threads \ {Driver}, x \in Temps : ExecAll(m, cs)[<<u, x>>] = m[<<u, x>>]
         /\ Holds(m) => Holds(ExecAll(m, cs))
<1>1. ExecAll(m, cs) \in [Cells -> Contents]
  BY ExecAllType
<1>2. ASSUME NEW l \in Cells, l \notin Tensors \cup ({Driver} \X Temps)
      PROVE  ExecAll(m, cs)[l] = m[l]
  <2>1. Spares(cs, l)
    BY <1>2 DEF Own, Spares
  <2> QED  BY <2>1, ExecAllUnwritten
<1>3. \A b \in Staged : b \in Cells /\ b \notin Tensors \cup ({Driver} \X Temps)
  BY CaptureAssumption DEF Cells
<1>4. \A u \in Threads \ {Driver}, x \in Temps :
        <<u, x>> \in Cells /\ <<u, x>> \notin Tensors \cup ({Driver} \X Temps)
  BY CaptureAssumption DEF Cells
<1>5. \A v \in Inputs : htod_cache[v] # None => htod_cache[v] \in Staged
  BY DEF Discipline, CacheTyped
<1> QED  BY <1>1, <1>2, <1>3, <1>4, <1>5 DEF Holds

LEMMA RecordedStep ==
  ASSUME Discipline, Capturing, ~Idle(Driver), op[Driver].dst # None, Own(capture.cmds), NEW c, Records(c), NEW ms,
         Covers(capture.cmds, Cmds(todo[Driver]), ms), Replays(capture.cmds, Cmds(todo[Driver]), ms)
  PROVE  /\ Own(Append(capture.cmds, c))
         /\ Covers(Append(capture.cmds, c), Cmds(Tail(todo[Driver])), ms)
         /\ Replays(Append(capture.cmds, c), Cmds(Tail(todo[Driver])), ms)
<1> DEFINE cs == capture.cmds
           h == Head(todo[Driver]).cmd
           q == todo[Driver]
           r == Tail(todo[Driver])
           ds == Append(cs, c)
<1>1. cs \in Seq(CommandsOver(Cells)) /\ Driver \in Threads
  BY CaptureAssumption DEF Discipline, WorkTyped, Capturing, Work
<1>3. /\ q \in Effective(op[Driver].dst, op[Driver].src) /\ q # <<>>
      /\ h \in CommandsOver(Names) /\ h.dst \in {op[Driver].dst} \cup Temps /\ op[Driver].dst \in Tensors
  BY <1>1, Busy, NextCommand
<1>4. /\ Cmds(q) = <<h>> \o Cmds(r) /\ Cmds(r) \in Seq(CommandsOver(Names))
      /\ \A m : ExecAll(m, Cmds(q)) = ExecAll(Exec(m, h), Cmds(r))
  <2>1. Cmds(q) = <<h>> \o Cmds(r) /\ Rest(op[Driver].dst, op[Driver].src, q, r)
    BY <1>3, CmdsFacts
  <2>2. Cmds(r) \in Seq(CommandsOver(Names))
    BY <2>1, CmdsFacts DEF Rest
  <2>3. \A m : ExecAll(m, Cmds(q)) = ExecAll(Exec(m, h), Cmds(r))
    BY <1>3, StepThenRest
  <2> QED  BY <2>1, <2>2, <2>3
<1>5. /\ c \in CommandsOver(Cells) /\ c.dst = Cell(Driver, h.dst)
      /\ Touched(<<h>>) \cap Tensors \subseteq Touched(<<c>>)
      /\ \A m \in [Cells -> Contents] : Holds(m) => Exec(m, c) = Exec(m, InCells(Driver, h))
  BY DEF Records
<1>6. Own(cs) /\ Covers(cs, Cmds(q), ms) /\ Replays(cs, Cmds(q), ms)
  OBVIOUS
<1> HIDE DEF cs, h, q, r
<1>7. Own(ds)
  <2>1. \A i \in DOMAIN ds : (i \in DOMAIN cs /\ ds[i] = cs[i]) \/ ds[i] = c
    BY <1>1, <1>5
  <2>2. c.dst \in Tensors \cup ({Driver} \X Temps)
    BY <1>1, <1>3, <1>5, CellFacts
  <2> HIDE DEF ds
  <2> QED  BY <1>6, <2>1, <2>2 DEF Own
<1>8. Covers(ds, Cmds(r), ms)
  <2>1. Touched(ds) = Touched(cs) \cup Touched(<<c>>)
    BY <1>1, <1>5, TouchedAppend
  <2>2. Touched(Cmds(q)) = Touched(<<h>>) \cup Touched(Cmds(r))
    <3>1. <<h>> \in Seq(CommandsOver(Names))
      BY <1>3
    <3>2. \A xs \in Seq(CommandsOver(Names)) :
            Touched(xs \o Cmds(r)) = Touched(xs) \cup Touched(Cmds(r))
      BY <1>4, TouchedParts
    <3> QED  BY <1>4, <3>1, <3>2, Zenon
  <2> HIDE DEF ds
  <2> QED  BY <1>5, <1>6, <2>1, <2>2 DEF Covers
<1>9. Replays(ds, Cmds(r), ms)
  <2> SUFFICES ASSUME NEW m \in [Cells -> Contents], NEW n \in [Names -> Contents],
                      Holds(m), SameOn(m, n, Tensors)
               PROVE  SameOn(ExecAll(SeenBy(Driver, ExecAll(m, ds)), Cmds(r)), ExecAll(n, ms), Tensors)
    BY DEF Replays
  <2> DEFINE M == ExecAll(m, cs)
  <2>1. M \in [Cells -> Contents] /\ Holds(M)
    BY <1>1, <1>6, OwnKeeps
  <2>2. ExecAll(m, ds) = Exec(M, c)
    BY <1>1, <1>5, ExecAllAppend
  <2>3. SameOn(ExecAll(SeenBy(Driver, M), Cmds(q)), ExecAll(n, ms), Tensors)
    BY <1>6 DEF Replays
  <2> HIDE DEF M, ds
  <2>4. SeenBy(Driver, ExecAll(m, ds)) = Exec(SeenBy(Driver, M), h)
    BY <1>1, <1>3, <1>5, <2>1, <2>2, SeenExec
  <2>5. ExecAll(SeenBy(Driver, M), Cmds(q)) = ExecAll(Exec(SeenBy(Driver, M), h), Cmds(r))
    BY <1>4
  <2> QED  BY <2>3, <2>4, <2>5
<1> QED  BY <1>7, <1>8, <1>9 DEF cs, r

LEMMA RecordedAgrees ==
  ASSUME Settled, Discipline', ~Idle(Driver), op[Driver].dst # None, Capturing, NEW c, Records(c),
         Advance(Driver, mem, Captured(c)), htod_cache' = htod_cache
  PROVE  Agreement'
<1> DEFINE ps == op[Driver].steps
           last == Len(todo[Driver]) = 1
           rest == Tail(todo[Driver])
           ds == Append(capture.cmds, c)
           ms == capture.meant \o Cmds(ps)
<1>1. /\ Discipline /\ Holds(mem) /\ Current /\ Cleared /\ Recorded
      /\ graph # None => Faithful(graph)
      /\ DOMAIN op = Threads /\ DOMAIN todo = Threads /\ Driver \in Threads
      /\ mem \in [Cells -> Contents]
  BY CaptureAssumption DEF Settled, Agreement, Discipline, CallsTyped, StoreTyped
<1>2. \A th \in Threads : th # Driver => Idle(th)
  BY DEF Settled, Discipline, Alone, Quiet
<1>3. /\ op[Driver].dst # None /\ ps \in Effective(op[Driver].dst, op[Driver].src)
      /\ Meaning(ps) = Cmds(ps)
  BY <1>1, Busy
<1>4. /\ last <=> rest = <<>>
      /\ rest # <<>> => Head(rest).do = "launch"
      /\ rest = <<>> => Cmds(rest) = <<>>
  <2>1. Rest(op[Driver].dst, op[Driver].src, todo[Driver], rest) /\ (last <=> rest = <<>>)
    BY <1>1, <1>3, BusyTail
  <2> HIDE DEF rest
  <2>2. rest = <<>> => Cmds(rest) = <<>>
    <3>1. rest \in Effective(op[Driver].dst, op[Driver].src)
      BY <2>1 DEF Rest
    <3> QED  BY <3>1, CmdsFacts
  <2> QED  BY <2>1, <2>2 DEF Rest
<1>5. Own(ds) /\ Covers(ds, Cmds(rest), ms) /\ Replays(ds, Cmds(rest), ms)
  BY <1>1, RecordedStep DEF Recorded
<1>6. /\ todo' = [todo EXCEPT ![Driver] = rest] /\ graph' = graph /\ val' = val
      /\ mem' = IF last THEN Recycled(mem, {Driver} \X Temps) ELSE mem
      /\ op' = IF last THEN [op EXCEPT ![Driver] = NoOp] ELSE op
      /\ capture' = IF last THEN [Captured(c) EXCEPT !.meant = Captured(c).meant \o Cmds(ps)]
                    ELSE Captured(c)
  BY <1>3 DEF Advance
<1>7. /\ Captured(c) \in Work /\ Captured(c).cmds = ds /\ Captured(c).meant = capture.meant
  BY <1>1, CapturedTyped DEF Discipline, Records
<1>8. /\ capture'.cmds = ds /\ capture'.meant = IF last THEN ms ELSE capture.meant
      /\ capture' \in Work /\ Capturing'
  <2>1. CASE ~last
    BY <1>6, <1>7, <2>1, NoneFacts DEF Capturing
  <2>2. CASE last
    <3>1. capture' = [Captured(c) EXCEPT !.meant = ms]
      BY <1>6, <1>7, <2>2
    <3> HIDE DEF ds, ms
    <3>2. capture'.cmds = ds /\ capture'.meant = ms
      BY <1>7, <3>1 DEF Work
    <3>3. Capturing'
      BY <1>1, <1>3, <1>6, <2>2, AdvanceTypes, <1>7, NoneFacts DEF Capturing
    <3>4. capture' \in Work
      BY <3>3 DEF Discipline, WorkTyped, Capturing
    <3> QED  BY <2>2, <3>2, <3>3, <3>4
  <2> QED  BY <2>1, <2>2
<1> HIDE DEF ps, last, rest, ds, ms
<1>9. /\ todo'[Driver] = rest /\ op'[Driver] = IF last THEN NoOp ELSE op[Driver]
  BY <1>1, <1>6
<1>10. \A l \in Cells : mem'[l] = mem[l] \/ (l \in {Driver} \X Temps /\ mem'[l] = 0)
  BY <1>1, <1>6 DEF Recycled
<1>11. \A l \in Tensors \cup Staged : l \in Cells /\ l \notin {Driver} \X Temps
  BY <1>1, CaptureAssumption DEF Cells
<1>12. Holds(mem)'
  <2>1. \A v \in Inputs : htod_cache[v] # None => htod_cache[v] \in Staged
    BY <1>1 DEF Discipline, CacheTyped
  <2> QED  BY <1>1, <1>10, <1>11, <2>1 DEF Holds
<1>13. Current'
  BY <1>1, <1>6, <1>10, <1>11 DEF Current
<1>14. Cleared'
  <2>1. \A u \in Threads, x \in Temps : <<u, x>> \in Cells /\ mem[<<u, x>>] = 0
    BY <1>1 DEF Cleared, Cells
  <2> QED  BY <1>10, <2>1 DEF Cleared
<1>15. \A u \in Threads : Due(u)'
  BY <1>8 DEF Due
<1>16. graph' # None => Faithful(graph)'
  BY <1>1, <1>6 DEF Faithful, Own, Covers, Replays, Holds
<1>17. Recorded'
  <2>1. CASE last
    <3>1. Idle(Driver)' /\ op'[Driver].dst = None
      BY <1>4, <1>9, <2>1 DEF Idle, NoOp
    <3>2. Own(capture'.cmds) /\ Covers(capture'.cmds, <<>>, capture'.meant)
          /\ Replays(capture'.cmds, <<>>, capture'.meant)
      BY <1>4, <1>5, <1>8, <2>1
    <3> QED  BY <3>1, <3>2 DEF Recorded, Faithful, Own, Covers, Replays, Holds
  <2>2. CASE ~last
    <3>1. ~Idle(Driver)' /\ Head(todo'[Driver]).do = "launch"
      BY <1>4, <1>9, <2>2 DEF Idle
    <3>2. /\ Own(capture'.cmds) /\ Covers(capture'.cmds, Cmds(rest), capture'.meant \o Cmds(ps))
          /\ Replays(capture'.cmds, Cmds(rest), capture'.meant \o Cmds(ps))
      BY <1>5, <1>8, <2>2 DEF ms
    <3>3. op'[Driver].steps = ps
      BY <1>9, <2>2 DEF ps
    <3>4. Replays(capture.cmds, Cmds(todo[Driver]), capture.meant \o Cmds(op[Driver].steps))'
      BY <1>9, <3>2, <3>3 DEF Replays, Holds, Cmds
    <3>5. Covers(capture.cmds, Cmds(todo[Driver]), capture.meant \o Cmds(op[Driver].steps))'
      BY <1>9, <3>2, <3>3 DEF Covers, Cmds
    <3>6. Own(capture.cmds)'
      BY <3>2 DEF Own
    <3> QED  BY <3>1, <3>4, <3>5, <3>6 DEF Recorded
  <2> QED  BY <2>1, <2>2
<1> QED  BY <1>12, <1>13, <1>14, <1>15, <1>16, <1>17 DEF Agreement

(* The command itself, and a copy of what is staged.                       *)
LEMMA OwnCommandRecords ==
  ASSUME NEW h \in CommandsOver(Names)
  PROVE  Touched(<<h>>) \cap Tensors \subseteq Touched(<<InCells(Driver, h)>>)
<1> DEFINE c == InCells(Driver, h)
<1>1. /\ c.op = h.op /\ c.dst = Cell(Driver, h.dst) /\ c.src = Cell(Driver, h.src)
      /\ h.op = "merge" => c.aux = Cell(Driver, h.aux)
  BY InCellsFacts, CaptureAssumption
<1>2. \A x \in Tensors : Cell(Driver, x) = x
  BY CellFacts, CaptureAssumption
<1> HIDE DEF c
<1>3. /\ Touched(<<h>>) = {h.dst, h.src} \cup (IF h.op = "merge" THEN {h.aux} ELSE {})
      /\ Touched(<<c>>) = {c.dst, c.src} \cup (IF c.op = "merge" THEN {c.aux} ELSE {})
  BY TouchedOne
<1>4. Touched(<<h>>) \cap Tensors \subseteq Touched(<<c>>)
  BY <1>1, <1>2, <1>3
<1> QED  BY <1>4 DEF c

LEMMA LaunchAgrees ==
  ASSUME Settled, Discipline', NEW th \in Threads, LaunchKernel(th)
  PROVE  Agreement'
<1>1. /\ ~Idle(th) /\ Head(todo[th]).do = "launch" /\ htod_cache' = htod_cache
      /\ Advance(th, Enqueued(mem, NextCmd(th)), Captured(NextCmd(th)))
      /\ Discipline /\ Holds(mem) /\ mem \in [Cells -> Contents]
  BY DEF LaunchKernel, Next1, Settled, Agreement, Discipline, StoreTyped
<1>2. op[th].dst # None
  BY <1>1, Busy
<1> DEFINE h == Head(todo[th]).cmd
<1>3. h \in CommandsOver(Names) /\ NextCmd(th) = InCells(th, h) /\ NextCmd(th) \in CommandsOver(Cells)
      /\ NextCmd(th).dst = Cell(th, h.dst)
  BY <1>1, <1>2, NextCommand
<1>4. CASE ~Capturing
  <2>1. Captured(NextCmd(th)) = capture /\ Enqueued(mem, NextCmd(th)) = Exec(mem, NextCmd(th))
    BY <1>4 DEF Captured, Enqueued
  <2>2. Executed(th, mem, Exec(mem, NextCmd(th)))
    BY <1>1, <1>3 DEF Executed
  <2>3. \A v \in Inputs : htod_cache'[v] # None => Exec(mem, NextCmd(th))[htod_cache'[v]] = v
    <3>1. \A b \in Staged : Exec(mem, NextCmd(th))[b] = mem[b]
      BY <1>1, <1>2, <1>4, <2>2, ExecutedFacts
    <3>2. \A v \in Inputs : htod_cache[v] # None => htod_cache[v] \in Staged
      BY <1>1 DEF Discipline, CacheTyped
    <3> QED  BY <1>1, <3>1, <3>2 DEF Holds
  <2> QED  BY <1>1, <1>2, <1>4, <2>1, <2>2, <2>3, ExecutedAgrees
<1>5. CASE Capturing
  <2>1. th = Driver /\ Enqueued(mem, NextCmd(th)) = mem
    BY <1>1, <1>5 DEF Settled, Discipline, Alone, Quiet, Enqueued
  <2>2. Touched(<<h>>) \cap Tensors \subseteq Touched(<<NextCmd(th)>>)
    BY <1>3, <2>1, OwnCommandRecords
  <2>3. Records(NextCmd(th))
    BY <1>3, <2>1, <2>2 DEF Records
  <2> QED  BY <1>1, <1>2, <1>5, <2>1, <2>3, RecordedAgrees
<1> QED  BY <1>4, <1>5

(* Nothing is launched: what was captured stays as it was.                 *)
LEMMA FailAgrees ==
  ASSUME Settled, Discipline', NEW th \in Threads, ~Idle(th), Head(todo[th]).do # "launch",
         Capturing, Fail(th)
  PROVE  Agreement'
<1>1. /\ UNCHANGED <<val, read, mem, htod_mode, htod_cache, capture, graph>>
      /\ todo' = [todo EXCEPT ![th] = <<>>] /\ op' = [op EXCEPT ![th] = NoOp]
  BY DEF Fail, eager
<1>2. /\ Discipline /\ Holds(mem) /\ Current /\ Cleared /\ Recorded
      /\ graph # None => Faithful(graph)
      /\ DOMAIN op = Threads /\ DOMAIN todo = Threads /\ th = Driver
  BY DEF Settled, Agreement, Discipline, CallsTyped, Alone, Quiet
<1>3. Capturing' /\ todo'[th] = <<>> /\ Idle(th)'
  BY <1>1, <1>2 DEF Capturing, Idle
<1>4. Holds(mem)' /\ Current' /\ Cleared'
  BY <1>1, <1>2, <1>3 DEF Holds, Current, Cleared
<1>5. \A u \in Threads : Due(u)'
  BY <1>3 DEF Due
<1>6. graph' # None => Faithful(graph)'
  BY <1>1, <1>2 DEF Faithful, Own, Covers, Replays, Holds
<1>7. Recorded'
  <2>1. Own(capture.cmds) /\ Faithful(capture)
    BY <1>2 DEF Recorded
  <2>2. Own(capture.cmds)' /\ Faithful(capture)'
    BY <1>1, <2>1 DEF Faithful, Own, Covers, Replays, Holds
  <2>3. op'[Driver].dst = None
    BY <1>1, <1>2 DEF NoOp
  <2> QED  BY <1>2, <1>3, <2>2, <2>3 DEF Recorded
<1> QED  BY <1>4, <1>5, <1>6, <1>7 DEF Agreement

LEMMA HostWaitAgrees ==
  ASSUME Settled, Discipline', NEW th \in Threads, HostWait(th)
  PROVE  Agreement'
<1>1. CASE Capturing
  <2>1. ~Idle(th) /\ Head(todo[th]).do = "wait" /\ Fail(th)
    BY <1>1 DEF HostWait, Next1
  <2> QED  BY <1>1, <2>1, FailAgrees
<1> QED  BY <1>1, WaitedAgrees

LEMMA HostToDeviceAgrees ==
  ASSUME Settled, Discipline', NEW th \in Threads, ~Idle(th), op[th].dst # None,
         Head(todo[th]).do # "launch", HostToDevice(th)
  PROVE  Agreement'
<1>1. CASE Capturing
  BY <1>1, FailAgrees DEF HostToDevice
<1>2. CASE ~Capturing
  <2>1. Advance(th, Exec(mem, NextCmd(th)), capture) /\ htod_cache' = htod_cache
    BY <1>2 DEF HostToDevice
  <2>2. Discipline /\ Holds(mem) /\ mem \in [Cells -> Contents]
    BY DEF Settled, Agreement, Discipline, StoreTyped
  <2>3. Executed(th, mem, Exec(mem, NextCmd(th)))
    BY <2>2 DEF Executed, NextCmd
  <2>4. \A v \in Inputs : htod_cache'[v] # None => Exec(mem, NextCmd(th))[htod_cache'[v]] = v
    <3>1. \A b \in Staged : Exec(mem, NextCmd(th))[b] = mem[b]
      BY <1>2, <2>3, ExecutedFacts
    <3>2. \A v \in Inputs : htod_cache[v] # None => htod_cache[v] \in Staged
      BY <2>2 DEF Discipline, CacheTyped
    <3> QED  BY <2>1, <2>2, <3>1, <3>2 DEF Holds
  <2> QED  BY <1>2, <2>1, <2>3, <2>4, ExecutedAgrees
<1> QED  BY <1>1, <1>2

(* A copy of staged contents, staged before or just now.                   *)
LEMMA UploadCachedAgrees ==
  ASSUME Settled, Discipline', NEW th \in Threads, UploadCached(th)
  PROVE  Agreement'
<1> DEFINE v == Head(todo[th]).cmd.val
           x == Head(todo[th]).cmd.dst
<1>1. /\ seen[th] # None /\ v \in Inputs /\ x \in Temps /\ Head(todo[th]).cmd = Fill(x, v)
  BY UploadCachedParts DEF Settled
<1>2. PICK b \in IF htod_cache[v] # None THEN {htod_cache[v]} ELSE Unused :
        /\ htod_cache[v] = None => ~Capturing
        /\ htod_cache' = [htod_cache EXCEPT ![v] = b]
        /\ Advance(th, Enqueued(StagedIn(v, b), Copy(Cell(th, x), b)), Captured(Copy(Cell(th, x), b)))
  BY UploadCachedParts DEF Settled
<1> HIDE DEF v, x
<1> DEFINE c == Copy(Cell(th, x), b)
           m0 == StagedIn(v, b)
<1>3. /\ b \in Staged /\ b \in Cells /\ v \in Contents /\ m0 \in [Cells -> Contents]
      /\ htod_cache[v] = None => m0[b] = v
      /\ \A l \in Cells : l # b => m0[l] = mem[l]
      /\ htod_cache[v] # None => htod_cache[v] = b /\ m0 = mem
      /\ htod_cache[v] = None => \A w \in Inputs : htod_cache[w] # b
  BY <1>1, StagedFacts DEF Settled
<1>4. /\ Discipline /\ Holds(mem) /\ mem \in [Cells -> Contents]
      /\ htod_cache \in [Inputs -> Staged \cup {None}]
      /\ \A u, w \in Inputs : htod_cache[u] = htod_cache[w] /\ htod_cache[u] # None => u = w
  BY DEF Settled, Agreement, Discipline, StoreTyped, CacheTyped
<1>5. ~Idle(th) /\ op[th].dst # None /\ (Capturing => th = Driver)
  BY <1>1, <1>4, Uploading DEF Settled, Discipline, Alone, Quiet
<1>6. m0[b] = v
  <2>1. htod_cache[v] # None => mem[b] = v
    BY <1>1, <1>3, <1>4 DEF Holds
  <2> QED  BY <1>3, <2>1
<1>7. c \in CommandsOver(Cells) /\ x \in Names
      /\ \A m \in [Cells -> Contents] : m[b] = v => Exec(m, c) = Exec(m, InCells(th, Head(todo[th]).cmd))
  BY <1>1, <1>3, CopyOfStaged, NamesOf
<1> HIDE DEF c, m0
<1>8. CASE ~Capturing
  <2> DEFINE m == Exec(m0, c)
  <2>1. Advance(th, m, capture)
    BY <1>2, <1>8 DEF Enqueued, Captured, c, m0
  <2>2. Executed(th, m0, m)
    BY <1>3, <1>6, <1>7 DEF Executed
  <2> HIDE DEF m
  <2>3. \A l \in Staged : m[l] = m0[l]
    BY <1>4, <1>5, <1>8, <2>2, ExecutedFacts
  <2>4. ASSUME NEW w \in Inputs, htod_cache'[w] # None PROVE m[htod_cache'[w]] = w
    <3>1. CASE w = v
      BY <1>2, <1>3, <1>4, <1>6, <2>3, <3>1
    <3>2. CASE w # v
      <4>1. htod_cache'[w] = htod_cache[w] /\ htod_cache[w] \in Staged /\ htod_cache[w] # b
        BY <1>1, <1>2, <1>3, <1>4, <2>4, <3>2
      <4>2. m0[htod_cache[w]] = mem[htod_cache[w]]
        BY <1>3, <4>1 DEF Cells
      <4> QED  BY <1>4, <2>3, <2>4, <4>1, <4>2 DEF Holds
    <3> QED  BY <3>1, <3>2
  <2>5. \A w \in Inputs : htod_cache[w] # None => htod_cache'[w] = htod_cache[w]
    BY <1>1, <1>2, <1>3, <1>4
  <2> QED  BY <1>5, <1>8, <2>1, <2>2, <2>4, <2>5, ExecutedAgrees
<1>9. CASE Capturing
  <2>1. htod_cache[v] = b /\ m0 = mem /\ htod_cache' = htod_cache
    <3>1. htod_cache[v] # None
      BY <1>2, <1>9
    <3> QED  BY <1>2, <1>3, <1>4, <3>1
  <2>2. Advance(Driver, mem, Captured(c))
    BY <1>2, <1>5, <1>9, <2>1 DEF Enqueued, c, m0
  <2>3. Records(c)
    <3>1. c.dst = Cell(Driver, Head(todo[Driver]).cmd.dst)
      BY <1>5, <1>9 DEF c, Copy, x
    <3>2. \A m \in [Cells -> Contents] :
            Holds(m) => Exec(m, c) = Exec(m, InCells(Driver, Head(todo[Driver]).cmd))
      BY <1>1, <1>3, <1>5, <1>7, <1>9, <2>1, NoneFacts DEF Holds
    <3>3. Touched(<<Head(todo[Driver]).cmd>>) \cap Tensors = {}
      <4>1. Touched(<<Fill(x, v)>>) = {x}
        BY TouchedOne DEF Fill
      <4> QED  BY <1>1, <1>5, <1>9, <4>1, CaptureAssumption
    <3> QED  BY <1>7, <3>1, <3>2, <3>3 DEF Records
  <2> QED  BY <1>5, <1>9, <2>1, <2>2, <2>3, RecordedAgrees
<1> QED  BY <1>8, <1>9

LEMMA UnchangedAgrees ==
  ASSUME Settled, UNCHANGED <<val, mem, op, todo, htod_cache, capture, graph>>
  PROVE  Agreement'
<1>1. /\ Holds(mem) /\ Current /\ Cleared /\ Recorded
      /\ \A u \in Threads : Due(u)
      /\ graph # None => Faithful(graph)
  BY DEF Settled, Agreement
<1>2. Holds(mem)' /\ Current' /\ Cleared'
  BY <1>1 DEF Holds, Current, Cleared, Capturing, Unwritten, Idle
<1>3. \A u \in Threads : Due(u)'
  BY <1>1 DEF Due, Capturing, SeenBy, Values, Cmds
<1>4. graph' # None => Faithful(graph)'
  BY <1>1 DEF Faithful, Own, Covers, Replays, Holds
<1>5. Recorded'
  BY <1>1 DEF Recorded, Faithful, Own, Covers, Replays, Holds, Capturing, Idle, Cmds
<1> QED  BY <1>2, <1>3, <1>4, <1>5 DEF Agreement

LEMMA LoadModeAgrees ==
  ASSUME Settled, NEW th \in Threads, LoadMode(th)
  PROVE  Agreement'
<1>1. UNCHANGED <<val, mem, op, todo, htod_cache, capture, graph>>
  BY DEF LoadMode, eager
<1> QED  BY <1>1, UnchangedAgrees

LEMMA ProceedAgrees ==
  ASSUME Settled, Discipline', NEW th \in Threads, Proceed(th)
  PROVE  Agreement'
<1>0. Discipline
  BY DEF Settled
<1>1. CASE CopyFromHost(th)
  <2>1. ~Idle(th) /\ Head(todo[th]).do = "hostcopy" /\ HostToDevice(th)
    BY <1>1 DEF CopyFromHost, Next1
  <2>2. op[th].dst # None
    BY <1>0, <2>1, Busy
  <2> QED  BY <2>1, <2>2, HostToDeviceAgrees
<1>2. CASE UploadPlain(th)
  <2>1. seen[th] # None /\ HostToDevice(th)
    BY <1>2, NoneFacts DEF UploadPlain, Modes
  <2>2. ~Idle(th) /\ op[th].dst # None /\ Head(todo[th]).do # "launch"
    BY <1>0, <2>1, Uploading
  <2> QED  BY <2>1, <2>2, HostToDeviceAgrees
<1>3. CASE UploadUnrecorded(th)
  <2>1. (seen[th] = "REPLAY" \/ Capturing) /\ Fail(th) /\ seen[th] # None
    BY <1>3, NoneFacts DEF UploadUnrecorded, Modes
  <2>2. ~Idle(th) /\ Head(todo[th]).do # "launch" /\ Capturing
    BY <1>0, <2>1, Uploading DEF Settled, Discipline, Alone, Quiet
  <2> QED  BY <2>1, <2>2, FailAgrees
<1> QED
  BY <1>1, <1>2, <1>3, LaunchAgrees, HostWaitAgrees, LoadModeAgrees, UploadCachedAgrees DEF Proceed

-----------------------------------------------------------------------------
(* Between operations of the driver                                        *)

LEMMA CaptureBeginAgrees ==
  ASSUME Settled, ~disturbed', capture_begin
  PROVE  Agreement'
<1>1. /\ UNCHANGED <<val, read, mem, op, todo, seen, htod_cache, graph>>
      /\ capture' = NoWork /\ \A th \in Threads : Idle(th)
  BY DEF capture_begin, set_htod_mode, eager, calls
<1>2. /\ Discipline /\ Holds(mem) /\ Current /\ Cleared
      /\ graph # None => Faithful(graph)
  BY DEF Settled, Agreement
<1>3. Capturing' /\ NoWork.cmds = <<>> /\ NoWork.meant = <<>>
  BY <1>1, NoneFacts DEF Capturing, NoWork
<1>4. Holds(mem)' /\ Cleared'
  BY <1>1, <1>2 DEF Holds, Cleared
<1>5. Current'
  <2>1. \A t \in Tensors : Unwritten(t)
    BY <1>1, <1>2, Idles, NoneFacts DEF Unwritten
  <2> QED  BY <1>1, <1>2, <2>1 DEF Current
<1>6. \A u \in Threads : Due(u)'
  BY <1>3 DEF Due
<1>7. graph' # None => Faithful(graph)'
  BY <1>1, <1>2 DEF Faithful, Own, Covers, Replays, Holds
<1>8. Own(<<>>) /\ Covers(<<>>, <<>>, <<>>)
  <2>1. Touched(<<>>) = {} /\ DOMAIN <<>> = {}
    BY TouchedNothing
  <2> QED  BY <2>1 DEF Own, Covers
<1>9. Replays(<<>>, <<>>, <<>>)
  <2> SUFFICES ASSUME NEW m \in [Cells -> Contents], NEW n \in [Names -> Contents],
                      SameOn(m, n, Tensors)
               PROVE  SameOn(ExecAll(SeenBy(Driver, ExecAll(m, <<>>)), <<>>), ExecAll(n, <<>>), Tensors)
    BY DEF Replays
  <2>1. ExecAll(m, <<>>) = m /\ ExecAll(n, <<>>) = n
        /\ ExecAll(SeenBy(Driver, m), <<>>) = SeenBy(Driver, m)
    BY ExecAllEmpty
  <2>2. \A t \in Tensors : SeenBy(Driver, m)[t] = m[t]
    BY CellFacts, CaptureAssumption, NamesOf DEF SeenBy
  <2> QED  BY <2>1, <2>2 DEF SameOn
<1>10. Recorded'
  <2>1. Driver \in Threads
    BY CaptureAssumption
  <2>2. Idle(Driver)'
    BY <1>1, <2>1 DEF Idle
  <2>3. Own(capture.cmds)' /\ Faithful(capture)'
    BY <1>1, <1>3, <1>8, <1>9 DEF Faithful, Own, Covers, Replays, Holds
  <2>4. op'[Driver].dst = None
    BY <1>1, <1>2, <2>1, Idles
  <2> QED  BY <2>2, <2>3, <2>4 DEF Recorded
<1> QED  BY <1>4, <1>5, <1>6, <1>7, <1>10 DEF Agreement

LEMMA CaptureStopAgrees ==
  ASSUME Settled, Discipline', capture_end \/ capture_abort, Idle(Driver)
  PROVE  Agreement'
<1>1. /\ UNCHANGED <<val, read, mem, op, todo, seen, htod_cache>>
      /\ capture' = None /\ ~Capturing'
      /\ graph' \in {graph} \cup (IF Capturing THEN {capture} ELSE {graph})
  BY DEF capture_end, capture_abort, eager, calls, Capturing
<1>2. /\ Discipline /\ Holds(mem) /\ Current /\ Cleared /\ Recorded
      /\ \A u \in Threads : Due(u)
      /\ graph # None => Faithful(graph)
  BY DEF Settled, Agreement
<1>3. Holds(mem)' /\ Cleared' /\ Current'
  BY <1>1, <1>2 DEF Holds, Cleared, Current, Idle, Unwritten
<1>4. ASSUME NEW u \in Threads PROVE Due(u)'
  <2>1. CASE Capturing
    <3>1. Idle(u)
      BY <2>1 DEF Settled, Discipline, Alone, Quiet
    <3>2. op[u].dst = None
      BY <1>2, <3>1, Idles
    <3> QED  BY <1>1, <3>2 DEF Due
  <2>2. CASE ~Capturing
    BY <1>1, <1>2, <2>2 DEF Due, SeenBy, Values, Cmds
  <2> QED  BY <2>1, <2>2
<1>5. graph' # None => Faithful(graph)'
  <2>1. Capturing => Faithful(capture)
    BY <1>2 DEF Recorded
  <2>2. ASSUME graph' # None PROVE Faithful(graph')
    BY <1>1, <1>2, <2>1, <2>2
  <2> QED  BY <1>1, <2>2 DEF Faithful, Own, Covers, Replays, Holds
<1>6. Recorded'
  BY <1>1 DEF Recorded
<1> QED  BY <1>3, <1>4, <1>5, <1>6 DEF Agreement

(* A launch of a graph whose storages nobody uses replays its operations.  *)
LEMMA LaunchReplays ==
  ASSUME Settled, Launchable, NEW t \in Tensors, Unwritten(t)
  PROVE  ExecAll(mem, graph.cmds)[t] = Rerun(graph.meant)[t]
<1> DEFINE cs == graph.cmds
           ms == graph.meant
           n == [x \in Names |-> IF x \in Tensors THEN mem[x] ELSE 0]
           K == (Tensors \cap Touched(cs)) \cup Temps \cup {t}
<1>1. /\ Discipline /\ Holds(mem) /\ Current /\ Faithful(graph) /\ graph # None
      /\ mem \in [Cells -> Contents] /\ Driver \in Threads
  BY CaptureAssumption DEF Settled, Agreement, Launchable, Discipline, StoreTyped
<1>2. /\ cs \in Seq(CommandsOver(Cells)) /\ ms \in Seq(CommandsOver(Names))
      /\ ExecAll(mem, cs) \in [Cells -> Contents] /\ Values \in [Names -> Contents]
      /\ Rerun(ms)[t] = ExecAll(Values, ms)[t]
  BY <1>1, LaunchTypes DEF Discipline
<1>3. n \in [Names -> Contents]
  <2>1. 0 \in Contents /\ Tensors \subseteq Cells
    BY NValAssumption DEF Contents, Cells
  <2> QED  BY <1>1, <2>1
<1>4. SameOn(mem, n, Tensors)
  BY NamesOf DEF SameOn
<1>5. Covers(cs, <<>>, ms) /\ Replays(cs, <<>>, ms)
  BY <1>1 DEF Faithful
<1> HIDE DEF cs, ms, n
<1>6. ExecAll(mem, cs)[t] = ExecAll(n, ms)[t]
  <2>1. SameOn(ExecAll(SeenBy(Driver, ExecAll(mem, cs)), <<>>), ExecAll(n, ms), Tensors)
    BY <1>1, <1>3, <1>4, <1>5 DEF Replays
  <2>2. ExecAll(SeenBy(Driver, ExecAll(mem, cs)), <<>>) = SeenBy(Driver, ExecAll(mem, cs))
    BY ExecAllEmpty
  <2>3. SeenBy(Driver, ExecAll(mem, cs))[t] = ExecAll(mem, cs)[t]
    BY <1>1, CellFacts, NamesOf DEF SeenBy
  <2> QED  BY <2>1, <2>2, <2>3 DEF SameOn
<1>7. SameOn(n, Values, K)
  <2> SUFFICES ASSUME NEW x \in K PROVE n[x] = Values[x]
    BY DEF SameOn
  <2>1. CASE x \in Temps
    BY <2>1, CaptureAssumption, NamesOf DEF n, Values
  <2>2. CASE x \notin Temps
    <3>1. x \in Tensors /\ (x \in Touched(cs) \/ x = t)
      BY <2>2
    <3>2. x \in Touched(cs) => Unwritten(x)
      BY DEF Launchable, Apart, Unwritten, cs
    <3>3. mem[x] = val[x]
      BY <1>1, <3>1, <3>2 DEF Current
    <3> QED  BY <3>1, <3>3, NamesOf DEF n, Values
  <2> QED  BY <2>1, <2>2
<1>8. ClosedIn(ms, K)
  <2>1. Touched(<<>>) = {}
    BY TouchedNothing
  <2>2. \A x \in Touched(ms) : x \in Tensors => x \in Touched(cs)
    BY <1>5, <2>1 DEF Covers
  <2>3. \A i \in DOMAIN ms : Reads(ms[i]) \subseteq Touched(ms) /\ Reads(ms[i]) \subseteq Names
    BY <1>2, TouchedCommands
  <2>4. \A i \in DOMAIN ms : Reads(ms[i]) \subseteq K
    BY <2>2, <2>3 DEF Names
  <2> HIDE DEF K
  <2> QED  BY <2>4 DEF ClosedIn, ClosedCommand
<1>9. K \in SUBSET Names /\ t \in K
  BY NamesOf
<1> HIDE DEF K
<1>10. SameOn(ExecAll(n, ms), ExecAll(Values, ms), K)
  BY <1>2, <1>3, <1>7, <1>8, <1>9, ExecAllAgree
<1>11. ExecAll(n, ms)[t] = ExecAll(Values, ms)[t]
  BY <1>9, <1>10 DEF SameOn
<1> QED  BY <1>2, <1>6, <1>11 DEF cs, ms

LEMMA GraphLaunchAgrees ==
  ASSUME Settled, Discipline', launch, Idle(Driver)
  PROVE  Agreement'
<1> DEFINE cs == graph.cmds
           ms == graph.meant
           M == ExecAll(mem, cs)
<1>1. /\ Launchable /\ mem' = Recycled(M, {Driver} \X Temps) /\ val' = Rerun(ms)
      /\ UNCHANGED <<op, todo, seen, htod_mode, htod_cache, capture, graph>>
      /\ graph # None /\ ~Capturing
  BY DEF launch, Launchable, calls
<1>2. /\ Discipline /\ Holds(mem) /\ Current /\ Cleared /\ Recorded
      /\ \A u \in Threads : Due(u)
      /\ Faithful(graph) /\ Own(cs) /\ Covers(cs, <<>>, ms)
      /\ mem \in [Cells -> Contents] /\ StoreTyped'
  BY <1>1 DEF Settled, Agreement, Discipline, StoreTyped, Faithful
<1>3. /\ cs \in Seq(CommandsOver(Cells)) /\ ms \in Seq(CommandsOver(Names))
      /\ Values \in [Names -> Contents]
      /\ \A t \in Tensors : Rerun(ms)[t] = ExecAll(Values, ms)[t]
  BY <1>1, <1>2, LaunchTypes DEF Discipline
<1>4. /\ \A b \in Staged : M[b] = mem[b]
      /\ \A u \in Threads \ {Driver}, x \in Temps : M[<<u, x>>] = mem[<<u, x>>]
      /\ Holds(M)
  BY <1>2, <1>3, OwnKeeps
<1>5. \A t \in Tensors : Unwritten(t) => M[t] = Rerun(ms)[t]
  BY <1>1, LaunchReplays
<1>6. \A t \in Tensors \ Touched(cs) : M[t] = mem[t] /\ Rerun(ms)[t] = val[t]
  <2> SUFFICES ASSUME NEW t \in Tensors \ Touched(cs)
               PROVE  M[t] = mem[t] /\ ExecAll(Values, ms)[t] = Values[t] /\ Values[t] = val[t]
    BY <1>3
  <2>1. t \in Cells /\ t \in Names
    BY NamesOf DEF Cells
  <2>2. t \notin Touched(ms)
    BY <1>2, TouchedNothing DEF Covers
  <2>3. M[t] = mem[t] /\ ExecAll(Values, ms)[t] = Values[t]
    BY <1>2, <1>3, <2>1, <2>2, Untouched
  <2> QED  BY <2>1, <2>3 DEF Values
<1> HIDE DEF cs, ms, M
<1>7. /\ \A l \in Tensors \cup Staged : l \in Cells /\ l \notin {Driver} \X Temps
      /\ \A u \in Threads \ {Driver}, x \in Temps :
           <<u, x>> \in Cells /\ <<u, x>> \notin {Driver} \X Temps
      /\ \A x \in Temps : <<Driver, x>> \in Cells /\ <<Driver, x>> \in {Driver} \X Temps
      /\ Driver \in Threads
  BY CaptureAssumption DEF Cells
<1>8. /\ \A l \in Tensors \cup Staged : mem'[l] = M[l]
      /\ \A u \in Threads \ {Driver}, x \in Temps : mem'[<<u, x>>] = mem[<<u, x>>]
      /\ \A x \in Temps : mem'[<<Driver, x>>] = 0
  <2>1. mem' = [c \in Cells |-> IF c \in {Driver} \X Temps THEN 0 ELSE M[c]]
    BY <1>1 DEF Recycled
  <2> QED  BY <1>4, <1>7, <2>1
<1>9. Holds(mem)'
  <2>1. \A v \in Inputs : htod_cache[v] # None => htod_cache[v] \in Staged
    BY <1>2 DEF Discipline, CacheTyped
  <2> QED  BY <1>1, <1>4, <1>8, <2>1 DEF Holds
<1>10. Current'
  BY <1>1, <1>5, <1>8 DEF Current, Unwritten, Capturing
<1>11. Cleared'
  <2> SUFFICES ASSUME NEW u \in Threads, NEW x \in Temps, Idle(u) PROVE mem'[<<u, x>>] = 0
    BY <1>1 DEF Cleared, Idle, Capturing
  <2>1. CASE u = Driver
    BY <1>8, <2>1
  <2>2. CASE u # Driver
    BY <1>2, <1>8, <2>2 DEF Cleared
  <2> QED  BY <2>1, <2>2
<1>12. ASSUME NEW u \in Threads PROVE Due(u)'
  <2>1. CASE u = Driver
    <3>1. op[u].dst = None
      BY <1>2, <2>1, Idles
    <3> QED  BY <1>1, <3>1 DEF Due
  <2>2. CASE u # Driver
    <3>1. ASSUME NEW t \in {op[u].dst, op[u].src} \cap Tensors
          PROVE  mem'[t] = mem[t] /\ val'[t] = val[t]
      <4>1. t \notin Touched(cs)
        BY <1>1 DEF Launchable, Apart, cs
      <4> QED  BY <1>1, <1>6, <1>8, <4>1
    <3>2. \A x \in Temps : mem'[<<u, x>>] = mem[<<u, x>>]
      BY <1>8, <2>2
    <3> QED  BY <1>1, <1>2, <3>1, <3>2, DueKept
  <2> QED  BY <2>1, <2>2
<1>13. graph' # None => Faithful(graph)'
  BY <1>1, <1>2 DEF Faithful, Own, Covers, Replays, Holds
<1>14. Recorded'
  BY <1>1 DEF Recorded, Capturing
<1> QED  BY <1>9, <1>10, <1>11, <1>12, <1>13, <1>14 DEF Agreement

LEMMA CacheClearAgrees ==
  ASSUME Settled, Discipline', capture_cache_clear
  PROVE  Agreement'
<1>1. /\ UNCHANGED <<val, op, todo, capture, graph>> /\ graph = None /\ ~Capturing
      /\ htod_cache' = [v \in Inputs |-> None]
      /\ mem' = Recycled(mem, {htod_cache[v] : v \in Inputs})
  BY DEF capture_cache_clear, eager, calls
<1>2. /\ Discipline /\ Current /\ Cleared /\ StoreTyped'
      /\ \A u \in Threads : Due(u)
      /\ mem \in [Cells -> Contents] /\ htod_cache \in [Inputs -> Staged \cup {None}]
  BY DEF Settled, Agreement, Discipline, StoreTyped, CacheTyped
<1>3. \A l \in Tensors \cup (Threads \X Temps) : mem'[l] = mem[l]
  <2>1. \A l \in Tensors \cup (Threads \X Temps) : l \in Cells /\ l \notin Staged \cup {None}
    BY CaptureAssumption, NoneFacts DEF Cells
  <2>2. \A v \in Inputs : htod_cache[v] \in Staged \cup {None}
    BY <1>2
  <2>3. mem' = [c \in Cells |-> IF c \in {htod_cache[v] : v \in Inputs} THEN 0 ELSE mem[c]]
    BY <1>1 DEF Recycled
  <2> QED  BY <2>1, <2>2, <2>3
<1>4. Holds(mem)'
  BY <1>1 DEF Holds
<1>5. Current' /\ Cleared'
  BY <1>1, <1>2, <1>3 DEF Current, Cleared, Unwritten, Idle, Capturing
<1>6. ASSUME NEW u \in Threads PROVE Due(u)'
  BY <1>1, <1>2, <1>3, DueKept
<1>7. graph' = None /\ Recorded'
  BY <1>1 DEF Recorded, Capturing
<1> QED  BY <1>4, <1>5, <1>6, <1>7 DEF Agreement

LEMMA DropGraphAgrees ==
  ASSUME Settled, DropGraph
  PROVE  Agreement'
<1>1. UNCHANGED <<val, mem, op, todo, htod_cache, capture>> /\ graph' = None
  BY DEF DropGraph, eager, calls
<1>2. /\ Holds(mem) /\ Current /\ Cleared /\ Recorded
      /\ \A u \in Threads : Due(u)
  BY DEF Settled, Agreement
<1>3. Holds(mem)' /\ Current' /\ Cleared'
  BY <1>1, <1>2 DEF Holds, Current, Cleared, Capturing, Unwritten, Idle
<1>4. \A u \in Threads : Due(u)'
  BY <1>1, <1>2 DEF Due, Capturing, SeenBy, Values, Cmds
<1>5. Recorded'
  BY <1>1, <1>2 DEF Recorded, Faithful, Own, Covers, Replays, Holds, Capturing, Idle, Cmds
<1> QED  BY <1>1, <1>3, <1>4, <1>5 DEF Agreement

-----------------------------------------------------------------------------
(* What is captured reads what is staged                                   *)

LEMMA CellsApart ==
  /\ \A th \in Threads, x \in Names : Cell(th, x) \notin Staged
  /\ \A b \in Staged, th \in Threads : b \in Cells /\ b \notin {th} \X Temps
<1>1. \A b \in Staged : b \notin Tensors /\ b \notin Threads \X Temps /\ b \in Cells
  BY CaptureAssumption DEF Cells
<1> QED  BY <1>1, CellFacts

LEMMA ReadingKept ==
  ASSUME NEW cs, Reading(cs, htod_cache),
         \A v \in Inputs : htod_cache[v] # None => htod_cache'[v] = htod_cache[v]
  PROVE  Reading(cs, htod_cache')
<1> SUFFICES ASSUME NEW i \in DOMAIN cs, cs[i].src \in Staged
             PROVE  \E v \in Inputs : htod_cache'[v] = cs[i].src
  BY DEF Reading
<1>1. PICK v \in Inputs : htod_cache[v] = cs[i].src
  BY DEF Reading
<1> QED  BY <1>1, NoneFacts

LEMMA ReadingAppend ==
  ASSUME NEW cs \in Seq(CommandsOver(Cells)), NEW c \in CommandsOver(Cells), NEW cache,
         Reading(cs, cache), c.dst \notin Staged,
         c.src \in Staged => \E v \in Inputs : cache[v] = c.src
  PROVE  Reading(Append(cs, c), cache)
<1> DEFINE ds == Append(cs, c)
<1>1. \A i \in DOMAIN ds : (i \in DOMAIN cs /\ ds[i] = cs[i]) \/ ds[i] = c
  OBVIOUS
<1> HIDE DEF ds
<1>2. Reading(ds, cache)
  BY <1>1 DEF Reading
<1> QED  BY <1>2 DEF ds

(* A command into a storage or a temporary leaves what is staged.          *)
LEMMA EnqueuedStaged ==
  ASSUME NEW m \in [Cells -> Contents], NEW c \in CommandsOver(Cells), c.dst \notin Staged
  PROVE  Enqueued(m, c) \in [Cells -> Contents] /\ \A b \in Staged : Enqueued(m, c)[b] = m[b]
<1>1. /\ Exec(m, c) \in [Cells -> Contents]
      /\ Exec(m, c) = [l \in Cells |-> IF l = c.dst THEN Result(m, c) ELSE m[l]]
  BY ExecType
<1>2. \A b \in Staged : b \in Cells
  BY DEF Cells
<1> QED  BY <1>1, <1>2 DEF Enqueued

LEMMA AdvanceStaged ==
  ASSUME Discipline, StagedKept, CacheTyped', NEW th \in Threads,
         NEW m \in [Cells -> Contents], NEW c \in Work \cup {None}, Capturing <=> c # None,
         Advance(th, m, c),
         c # None => Reading(c.cmds, htod_cache'),
         \A v \in Inputs : htod_cache'[v] # None => m[htod_cache'[v]] = v,
         \A v \in Inputs : htod_cache[v] # None => htod_cache'[v] = htod_cache[v]
  PROVE  StagedKept'
<1> DEFINE ms == c.meant \o Meaning(op[th].steps)
           last == Len(todo[th]) = 1
<1>1. /\ graph' = graph /\ mem' = IF last THEN Recycled(m, {th} \X Temps) ELSE m
      /\ capture' = IF last /\ Capturing THEN [c EXCEPT !.meant = ms] ELSE c
  BY DEF Advance
<1> HIDE DEF ms, last
<1>2. Holds(mem)'
  <2>1. \A b \in Staged : mem'[b] = m[b]
    BY <1>1, CellsApart DEF Recycled
  <2>2. \A v \in Inputs : htod_cache'[v] # None => htod_cache'[v] \in Staged
    BY DEF CacheTyped
  <2> QED  BY <2>1, <2>2 DEF Holds
<1>3. ASSUME capture' # None PROVE Reading(capture'.cmds, htod_cache')
  <2>1. CASE c = None
    BY <1>1, <1>3, <2>1
  <2>2. CASE c # None
    <3>1. c \in Work
      BY <2>2
    <3>2. capture'.cmds = c.cmds
      BY <1>1, <3>1 DEF Work
    <3> QED  BY <2>2, <3>2
  <2> QED  BY <2>1, <2>2
<1>4. ASSUME graph' # None PROVE Reading(graph'.cmds, htod_cache')
  <2>1. Reading(graph.cmds, htod_cache)
    BY <1>1, <1>4 DEF StagedKept
  <2> QED  BY <1>1, <2>1, ReadingKept
<1> QED  BY <1>2, <1>3, <1>4 DEF StagedKept

LEMMA UnchangedStaged ==
  ASSUME StagedKept, UNCHANGED <<mem, htod_cache, capture, graph>>
  PROVE  StagedKept'
BY DEF StagedKept, Holds, Reading

LEMMA LaunchStaged ==
  ASSUME Discipline, StagedKept, Discipline', NEW th \in Threads, LaunchKernel(th)
  PROVE  StagedKept'
<1> DEFINE n == NextCmd(th)
<1>1. /\ ~Idle(th) /\ Head(todo[th]).do = "launch" /\ htod_cache' = htod_cache
      /\ Advance(th, Enqueued(mem, n), Captured(n))
      /\ mem \in [Cells -> Contents] /\ CacheTyped /\ CacheTyped' /\ WorkTyped
  BY DEF LaunchKernel, Next1, Discipline, StoreTyped
<1>2. op[th].dst # None
  BY <1>1, Busy
<1>3. /\ n \in CommandsOver(Cells) /\ n.dst \notin Staged /\ n.src \notin Staged
  <2>1. /\ Head(todo[th]).cmd \in CommandsOver(Names) /\ n = InCells(th, Head(todo[th]).cmd)
        /\ n \in CommandsOver(Cells)
    BY <1>1, <1>2, NextCommand
  <2>2. Head(todo[th]).cmd.dst \in Names /\ Head(todo[th]).cmd.src \in Names
    BY <2>1 DEF CommandsOver
  <2>3. n.dst = Cell(th, Head(todo[th]).cmd.dst) /\ n.src = Cell(th, Head(todo[th]).cmd.src)
    BY <2>1, InCellsFacts
  <2> QED  BY <2>1, <2>2, <2>3, CellsApart
<1> HIDE DEF n
<1>4. Enqueued(mem, n) \in [Cells -> Contents] /\ \A b \in Staged : Enqueued(mem, n)[b] = mem[b]
  BY <1>1, <1>3, EnqueuedStaged
<1>5. \A v \in Inputs : htod_cache'[v] # None => Enqueued(mem, n)[htod_cache'[v]] = v
  BY <1>1, <1>4 DEF StagedKept, Holds, CacheTyped
<1>6. /\ Captured(n) \in Work \cup {None} /\ (Capturing <=> Captured(n) # None)
      /\ Capturing => Captured(n).cmds = Append(capture.cmds, n)
                      /\ capture.cmds \in Seq(CommandsOver(Cells))
  BY <1>1, <1>3, CapturedTyped
<1>7. Captured(n) # None => Reading(Captured(n).cmds, htod_cache')
  <2>1. Capturing => Reading(capture.cmds, htod_cache)
    BY DEF StagedKept, Capturing
  <2> QED  BY <1>1, <1>3, <1>6, <2>1, ReadingAppend
<1> QED  BY <1>1, <1>4, <1>5, <1>6, <1>7, AdvanceStaged

(* Copies from the host, and waits: none while the stream captures.        *)
LEMMA HostStaged ==
  ASSUME Discipline, StagedKept, Discipline', NEW th \in Threads,
         (~Idle(th) /\ op[th].dst # None /\ HostToDevice(th)) \/ HostWait(th)
  PROVE  StagedKept'
<1>1. CASE Capturing
  <2>1. Fail(th)
    BY <1>1 DEF HostToDevice, HostWait
  <2> QED  BY <2>1, UnchangedStaged DEF Fail
<1>2. CASE ~Capturing
  <2>1. PICK m \in [Cells -> Contents] : /\ Advance(th, m, capture) /\ htod_cache' = htod_cache
                                         /\ \A b \in Staged : m[b] = mem[b]
    <3>1. mem \in [Cells -> Contents]
      BY DEF Discipline, StoreTyped
    <3>2. CASE HostWait(th)
      BY <1>2, <3>1, <3>2 DEF HostWait
    <3>3. CASE ~Idle(th) /\ op[th].dst # None /\ HostToDevice(th)
      <4>1. NextCmd(th) \in CommandsOver(Cells) /\ NextCmd(th).dst \notin Staged
        BY <3>3, NextCommand, CellsApart
      <4>2. /\ Enqueued(mem, NextCmd(th)) \in [Cells -> Contents]
            /\ \A b \in Staged : Enqueued(mem, NextCmd(th))[b] = mem[b]
        BY <3>1, <4>1, EnqueuedStaged
      <4>3. Advance(th, Enqueued(mem, NextCmd(th)), capture) /\ htod_cache' = htod_cache
        BY <1>2, <3>3 DEF HostToDevice, Enqueued
      <4> QED  BY <4>2, <4>3
    <3> QED  BY <3>2, <3>3
  <2>2. CacheTyped /\ CacheTyped' /\ capture \in Work \cup {None} /\ capture = None
    BY <1>2 DEF Discipline, WorkTyped, Capturing
  <2>3. \A v \in Inputs : htod_cache'[v] # None => m[htod_cache'[v]] = v
    BY <2>1, <2>2 DEF StagedKept, Holds, CacheTyped
  <2> QED  BY <1>2, <2>1, <2>2, <2>3, AdvanceStaged
<1> QED  BY <1>1, <1>2

LEMMA UploadStaged ==
  ASSUME Discipline, StagedKept, Discipline', NEW th \in Threads, UploadCached(th)
  PROVE  StagedKept'
<1> DEFINE v == Head(todo[th]).cmd.val
           x == Head(todo[th]).cmd.dst
<1>1. v \in Inputs /\ x \in Temps
  BY UploadCachedParts
<1>2. PICK b \in IF htod_cache[v] # None THEN {htod_cache[v]} ELSE Unused :
        /\ htod_cache' = [htod_cache EXCEPT ![v] = b]
        /\ Advance(th, Enqueued(StagedIn(v, b), Copy(Cell(th, x), b)), Captured(Copy(Cell(th, x), b)))
  BY UploadCachedParts
<1> HIDE DEF v, x
<1> DEFINE c == Copy(Cell(th, x), b)
           m0 == StagedIn(v, b)
<1>3. /\ b \in Staged /\ b \in Cells /\ m0 \in [Cells -> Contents]
      /\ htod_cache[v] = None => m0[b] = v
      /\ \A l \in Cells : l # b => m0[l] = mem[l]
      /\ htod_cache[v] # None => htod_cache[v] = b /\ m0 = mem
      /\ htod_cache[v] = None => \A u \in Inputs : htod_cache[u] # b
  BY <1>1, StagedFacts
<1>4. /\ Holds(mem) /\ CacheTyped' /\ WorkTyped
      /\ htod_cache \in [Inputs -> Staged \cup {None}]
      /\ \A u, w \in Inputs : htod_cache[u] = htod_cache[w] /\ htod_cache[u] # None => u = w
  BY DEF StagedKept, Discipline, CacheTyped
<1>5. c \in CommandsOver(Cells) /\ c.dst \notin Staged /\ c.src = b
  <2>1. x \in Names /\ 0 \in Contents
    BY <1>1, NamesOf, NValAssumption DEF Contents
  <2>2. Cell(th, x) \in Cells /\ Cell(th, x) \notin Staged
    BY <2>1, CellFacts, CellsApart
  <2> QED  BY <1>3, <2>1, <2>2 DEF Copy, CommandsOver
<1> HIDE DEF c, m0
<1>6. Enqueued(m0, c) \in [Cells -> Contents] /\ \A l \in Staged : Enqueued(m0, c)[l] = m0[l]
  BY <1>3, <1>5, EnqueuedStaged
<1>7. m0[b] = v
  BY <1>1, <1>3, <1>4 DEF Holds
<1>8. ASSUME NEW w \in Inputs, htod_cache'[w] # None PROVE Enqueued(m0, c)[htod_cache'[w]] = w
  <2>1. CASE w = v
    BY <1>1, <1>2, <1>3, <1>4, <1>6, <1>7, <2>1
  <2>2. CASE w # v
    <3>1. htod_cache'[w] = htod_cache[w] /\ htod_cache[w] \in Staged /\ htod_cache[w] # b
      BY <1>1, <1>2, <1>3, <1>4, <1>8, <2>2
    <3>2. m0[htod_cache[w]] = mem[htod_cache[w]]
      BY <1>3, <3>1 DEF Cells
    <3> QED  BY <1>4, <1>6, <1>8, <3>1, <3>2 DEF Holds
  <2> QED  BY <2>1, <2>2
<1>9. /\ \A w \in Inputs : htod_cache[w] # None => htod_cache'[w] = htod_cache[w]
      /\ htod_cache'[v] = b
  BY <1>1, <1>2, <1>3, <1>4
<1>10. /\ Captured(c) \in Work \cup {None} /\ (Capturing <=> Captured(c) # None)
       /\ Capturing => Captured(c).cmds = Append(capture.cmds, c)
                       /\ capture.cmds \in Seq(CommandsOver(Cells))
  BY <1>4, <1>5, CapturedTyped
<1>11. Captured(c) # None => Reading(Captured(c).cmds, htod_cache')
  <2>1. Capturing => Reading(capture.cmds, htod_cache')
    <3>1. Capturing => Reading(capture.cmds, htod_cache)
      BY DEF StagedKept, Capturing
    <3> QED  BY <1>9, <3>1, ReadingKept
  <2> QED  BY <1>1, <1>5, <1>9, <1>10, <2>1, ReadingAppend
<1>12. Advance(th, Enqueued(m0, c), Captured(c))
  BY <1>2 DEF m0, c
<1> QED  BY <1>4, <1>6, <1>8, <1>9, <1>10, <1>11, <1>12, AdvanceStaged

LEMMA ProceedStaged ==
  ASSUME Discipline, StagedKept, Discipline', NEW th \in Threads, Proceed(th)
  PROVE  StagedKept'
<1>1. CASE CopyFromHost(th)
  <2>1. ~Idle(th) /\ Head(todo[th]).do = "hostcopy" /\ HostToDevice(th)
    BY <1>1 DEF CopyFromHost, Next1
  <2>2. op[th].dst # None
    BY <2>1, Busy
  <2> QED  BY <2>1, <2>2, HostStaged
<1>2. CASE UploadPlain(th)
  <2>1. seen[th] # None /\ HostToDevice(th)
    BY <1>2, NoneFacts DEF UploadPlain, Modes
  <2>2. ~Idle(th) /\ op[th].dst # None
    BY <2>1, Uploading
  <2> QED  BY <2>1, <2>2, HostStaged
<1>3. CASE UploadUnrecorded(th) \/ LoadMode(th)
  BY <1>3, UnchangedStaged DEF UploadUnrecorded, Fail, LoadMode
<1> QED  BY <1>1, <1>2, <1>3, LaunchStaged, HostStaged, UploadStaged DEF Proceed

LEMMA ControlStaged ==
  ASSUME Discipline, StagedKept, Discipline', Control
  PROVE  StagedKept'
<1>1. CASE capture_record_begin \/ capture_record_end
  BY <1>1, UnchangedStaged DEF capture_record_begin, capture_record_end
<1>2. CASE capture_begin
  <2>1. UNCHANGED <<mem, htod_cache, graph>> /\ capture' = NoWork
    BY <1>2 DEF capture_begin
  <2>2. Reading(NoWork.cmds, htod_cache)
    BY DEF Reading, NoWork
  <2> QED  BY <2>1, <2>2 DEF StagedKept, Holds
<1>3. CASE capture_end \/ capture_abort \/ DropGraph
  <2>1. UNCHANGED <<mem, htod_cache>> /\ {capture', graph'} \subseteq {capture, graph, None}
    BY <1>3 DEF capture_end, capture_abort, DropGraph
  <2> QED  BY <2>1 DEF StagedKept, Holds
<1>4. CASE launch
  <2>1. graph # None /\ UNCHANGED <<htod_cache, capture, graph>>
        /\ mem' = Recycled(ExecAll(mem, graph.cmds), {Driver} \X Temps)
    BY <1>4 DEF launch, Launchable
  <2>2. graph.cmds \in Seq(CommandsOver(Cells)) /\ mem \in [Cells -> Contents] /\ Driver \in Threads
    BY <2>1, CaptureAssumption, LaunchTypes DEF Discipline, StoreTyped
  <2>3. ASSUME NEW b \in Staged PROVE mem'[b] = mem[b]
    <3>1. Spares(graph.cmds, b)
      BY <2>1 DEF StagedKept, Reading, Spares
    <3>2. ExecAll(mem, graph.cmds)[b] = mem[b]
      BY <2>2, <3>1, CellsApart, ExecAllUnwritten
    <3> QED  BY <2>1, <2>2, <3>2, CellsApart DEF Recycled
  <2>4. \A v \in Inputs : htod_cache[v] # None => htod_cache[v] \in Staged
    BY DEF Discipline, CacheTyped
  <2> QED  BY <2>1, <2>3, <2>4 DEF StagedKept, Holds
<1>5. CASE capture_cache_clear
  <2>1. /\ graph' = None /\ capture' = None
        /\ htod_cache' = [v \in Inputs |-> None]
    BY <1>5 DEF capture_cache_clear, Capturing
  <2> QED  BY <2>1 DEF StagedKept, Holds
<1> QED  BY <1>1, <1>2, <1>3, <1>4, <1>5 DEF Control

LEMMA NextStaged ==
  ASSUME Discipline, StagedKept, Discipline', [Next]_vars
  PROVE  StagedKept'
<1>1. ASSUME NEW th \in Threads, Start(th) PROVE StagedKept'
  <2>1. PICK d, s, p : Begin(th, d, s, p)
    BY <1>1, StartFits
  <2> QED  BY <2>1, UnchangedStaged DEF Begin
<1>2. CASE UNCHANGED vars
  BY <1>2, UnchangedStaged DEF vars
<1> QED  BY <1>1, <1>2, ControlStaged, ProceedStaged DEF Next

-----------------------------------------------------------------------------
(* A capture that was disturbed stays so.                                  *)
LEMMA DisturbedStays ==
  ASSUME [Next]_vars, ~disturbed'
  PROVE  ~disturbed
<1>1. ASSUME NEW th \in Threads, Start(th) PROVE ~disturbed
  <2>1. PICK d, s, p : Begin(th, d, s, p)
    BY <1>1, StartFits
  <2> QED  BY <2>1 DEF Begin
<1>2. ASSUME NEW th \in Threads, Proceed(th) PROVE disturbed' = disturbed
  BY <1>2 DEF Proceed, LaunchKernel, CopyFromHost, HostToDevice, HostWait, LoadMode, UploadPlain,
              UploadCached, UploadUnrecorded, Advance, Fail
<1>3. CASE Control
  BY <1>3 DEF Control, capture_record_begin, capture_record_end, capture_begin, capture_end,
              capture_abort, launch, DropGraph, capture_cache_clear
<1>4. CASE UNCHANGED vars
  BY <1>4 DEF vars
<1> QED  BY <1>1, <1>2, <1>3, <1>4 DEF Next

LEMMA NextAgrees ==
  ASSUME Settled, Discipline', ~disturbed', [Next]_vars
  PROVE  Agreement'
<1>1. CASE Control
  <2>1. Idle(Driver)
    BY <1>1 DEF Control
  <2>2. CASE capture_record_begin \/ capture_record_end
    <3>1. UNCHANGED <<val, mem, op, todo, htod_cache, capture, graph>>
      BY <2>2 DEF capture_record_begin, capture_record_end, eager, calls
    <3> QED  BY <3>1, UnchangedAgrees
  <2> QED
    BY <1>1, <2>1, <2>2, CaptureBeginAgrees, CaptureStopAgrees, GraphLaunchAgrees,
       DropGraphAgrees, CacheClearAgrees DEF Control
<1>2. ASSUME NEW th \in Threads, Start(th) PROVE Agreement'
  BY <1>2, StartFits, BeginAgrees
<1>3. ASSUME NEW th \in Threads, Proceed(th) PROVE Agreement'
  BY <1>3, ProceedAgrees
<1>4. CASE UNCHANGED vars
  <2>1. UNCHANGED <<val, mem, op, todo, htod_cache, capture, graph>>
    BY <1>4 DEF vars, eager, calls
  <2> QED  BY <2>1, UnchangedAgrees
<1> QED  BY <1>1, <1>2, <1>3, <1>4 DEF Next

LEMMA NextInvariant == IInv /\ [Next]_vars => IInv'
<1> SUFFICES ASSUME IInv, [Next]_vars PROVE IInv'
  OBVIOUS
<1>1. Discipline /\ StagedKept /\ Discipline'
  BY NextDisciplined DEF IInv
<1>2. StagedKept'
  BY <1>1, NextStaged
<1>3. ASSUME ~disturbed' PROVE Agreement'
  <2>1. ~disturbed
    BY <1>3, DisturbedStays
  <2>2. Settled
    BY <2>1 DEF IInv, Settled
  <2> QED  BY <1>1, <1>3, <2>2, NextAgrees
<1> QED  BY <1>1, <1>2, <1>3 DEF IInv

-----------------------------------------------------------------------------
(* The inductive invariant holds of every state: what is captured reads    *)
(* what is staged, whoever uploads meanwhile; and as long as no capture    *)
(* has been disturbed, what is left of every operation makes of memory     *)
(* what eager execution makes of the storages' values, and what has been   *)
(* captured does to any storages what its operations would, given what is  *)
(* staged.                                                                 *)
THEOREM InvariantHolds == Spec => []IInv
<1>1. Init => IInv
  <2> SUFFICES ASSUME Init PROVE StagedKept
    BY InitDisciplined, InitAgrees DEF IInv
  <2> QED  BY DEF Init, StagedKept, Holds
<1>2. IInv /\ [Next]_vars => IInv'
  BY NextInvariant
<1> QED  BY <1>1, <1>2, PTL DEF Spec

(* Uploads served from staged copies, and a graph launched again and again *)
(* instead of the operations it was captured from (CaptureGraph::launch),  *)
(* leave storages with the contents eager execution gives them, as long as *)
(* only the driver used the device during captures.                        *)
THEOREM CapturedAsEager == Spec => []AsIfEager
<1>1. IInv => AsIfEager
  <2> SUFFICES ASSUME Settled
               PROVE  /\ \A t \in Tensors : Unwritten(t) => mem[t] = val[t]
                      /\ Launchable => \A t \in Tensors :
                           Unwritten(t) => ExecAll(mem, graph.cmds)[t] = Rerun(graph.meant)[t]
    BY DEF IInv, Settled, AsIfEager, Unwritten
  <2>1. \A t \in Tensors : Unwritten(t) => mem[t] = val[t]
    BY DEF Settled, Agreement, Current
  <2> QED  BY <2>1, LaunchReplays
<1> QED  BY <1>1, InvariantHolds, PTL

(* Whoever uploads while the stream captures, and whatever mode it read    *)
(* before (cached_htod): what is captured, and every graph kept, reads     *)
(* only buffers that are in the cache, with the content staged there.      *)
THEOREM StagedHolds == Spec => []GraphReadsStaged
<1>1. IInv => GraphReadsStaged
  <2> SUFFICES ASSUME IInv, NEW w \in {capture, graph} \ {None}, NEW i \in DOMAIN w.cmds,
                      w.cmds[i].src \in Staged
               PROVE  \E v \in Inputs : htod_cache[v] = w.cmds[i].src /\ mem[w.cmds[i].src] = v
    BY DEF GraphReadsStaged
  <2>1. Holds(mem) /\ Reading(w.cmds, htod_cache)
    BY DEF IInv, StagedKept
  <2>2. PICK v \in Inputs : htod_cache[v] = w.cmds[i].src
    BY <2>1 DEF Reading
  <2> QED  BY <2>1, <2>2, NoneFacts DEF Holds
<1> QED  BY <1>1, InvariantHolds, PTL
=============================================================================
