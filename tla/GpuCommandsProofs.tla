------------------------- MODULE GpuCommandsProofs -------------------------
(***************************************************************************)
(* What executing a list of commands does, by induction on its length.     *)
(***************************************************************************)
EXTENDS GpuCommands, SequenceTheorems, WellFoundedInduction, TLAPS

(* A set of numbers with 0 and, with each of them, the next one is all of  *)
(* Nat. (The library states induction for predicates, which no prover here *)
(* can instantiate; its theorem on minimal elements is about sets.)        *)
LEMMA Induction ==
  ASSUME NEW S, 0 \in S, \A n \in Nat : n \in S => n + 1 \in S
  PROVE  Nat \subseteq S
<1> SUFFICES ASSUME Nat \ S # {} PROVE FALSE
  OBVIOUS
<1>1. PICK x \in Nat \ S : \A y \in Nat \ S : <<y, x>> \notin OpToRel(<, Nat)
  <2>1. Nat \ S \subseteq Nat
    OBVIOUS
  <2> QED  BY <2>1, WFMin, NatLessThanWellFounded
<1>2. x # 0 /\ x - 1 \in Nat /\ x - 1 + 1 = x
  OBVIOUS
<1>3. x - 1 \in Nat \ S
  BY <1>2
<1>4. <<x - 1, x>> \in OpToRel(<, Nat)
  <2>1. x - 1 < x
    BY <1>2
  <2> QED  BY <1>2, <2>1 DEF OpToRel
<1> QED  BY <1>1, <1>3, <1>4

-----------------------------------------------------------------------------
(* f is the memory after each of the first n commands.                     *)
Trace(m, cs, n, f) ==
  f = [i \in 0 .. n |-> IF i = 0 THEN m ELSE Exec(f[i - 1], cs[i])]

LEMMA TraceExists ==
  ASSUME NEW m, NEW cs, NEW n \in Nat
  PROVE  \E f : Trace(m, cs, n, f)
<1> DEFINE S == {k \in Nat : \E f : Trace(m, cs, k, f)}
<1>1. 0 \in S
  <2>1. Trace(m, cs, 0, [i \in 0 .. 0 |-> m])
    BY DEF Trace
  <2> QED  BY <2>1
<1>2. ASSUME NEW k \in Nat, k \in S PROVE k + 1 \in S
  <2>1. PICK f : Trace(m, cs, k, f)
    BY <1>2
  <2> DEFINE g == [i \in 0 .. k + 1 |-> IF i = k + 1 THEN Exec(f[k], cs[k + 1]) ELSE f[i]]
  <2>2. \A i \in 0 .. k : f[i] = IF i = 0 THEN m ELSE Exec(f[i - 1], cs[i])
    BY <2>1 DEF Trace
  <2>3. \A i \in 0 .. k + 1 : g[i] = IF i = 0 THEN m ELSE Exec(g[i - 1], cs[i])
    BY <2>2
  <2>4. Trace(m, cs, k + 1, g)
    BY <2>3 DEF Trace
  <2> QED  BY <2>4
<1> HIDE DEF S
<1>3. Nat \subseteq S
  BY <1>1, <1>2, Induction
<1> QED  BY <1>3 DEF S

LEMMA ExecAllTrace ==
  ASSUME NEW m, NEW cs, Len(cs) \in Nat
  PROVE  \E f : Trace(m, cs, Len(cs), f) /\ ExecAll(m, cs) = f[Len(cs)]
<1> DEFINE F == CHOOSE f : Trace(m, cs, Len(cs), f)
<1>1. Trace(m, cs, Len(cs), F)
  BY TraceExists
<1>2. ExecAll(m, cs) = F[Len(cs)]
  BY DEF ExecAll, Trace
<1> QED  BY <1>1, <1>2

LEMMA ExecAllEmpty == ASSUME NEW m PROVE ExecAll(m, <<>>) = m
<1>1. Len(<<>>) = 0
  OBVIOUS
<1>2. PICK f : Trace(m, <<>>, 0, f) /\ ExecAll(m, <<>>) = f[0]
  BY <1>1, ExecAllTrace
<1> QED  BY <1>2 DEF Trace

LEMMA ExecAllAppend ==
  ASSUME NEW m, NEW C, NEW cs \in Seq(C), NEW c \in C
  PROVE  ExecAll(m, Append(cs, c)) = Exec(ExecAll(m, cs), c)
<1> DEFINE n == Len(cs)
           ds == Append(cs, c)
<1>1. /\ n \in Nat /\ n + 1 \in Nat /\ n <= n + 1
      /\ Len(ds) = n + 1 /\ ds[n + 1] = c /\ \A i \in 1 .. n : cs[i] = ds[i]
  OBVIOUS
<1> HIDE DEF n, ds
<1>2. PICK f : Trace(m, cs, n, f) /\ ExecAll(m, cs) = f[n]
  BY <1>1, ExecAllTrace DEF n
<1>3. PICK g : Trace(m, ds, n + 1, g) /\ ExecAll(m, ds) = g[n + 1]
  BY <1>1, ExecAllTrace
<1>4. /\ \A i \in 0 .. n : f[i] = IF i = 0 THEN m ELSE Exec(f[i - 1], cs[i])
      /\ \A i \in 0 .. n + 1 : g[i] = IF i = 0 THEN m ELSE Exec(g[i - 1], ds[i])
  BY <1>2, <1>3 DEF Trace
<1>5. f[n] = g[n]
  <2> DEFINE S == {i \in Nat : i <= n => f[i] = g[i]}
  <2>1. 0 \in S
    BY <1>1, <1>4
  <2>2. ASSUME NEW i \in Nat, i \in S PROVE i + 1 \in S
    <3> SUFFICES ASSUME i + 1 <= n PROVE f[i + 1] = g[i + 1]
      OBVIOUS
    <3>1. /\ i + 1 \in 1 .. n /\ i + 1 \in 0 .. n /\ i + 1 \in 0 .. n + 1
          /\ i + 1 # 0 /\ i + 1 - 1 = i /\ i <= n
      BY <1>1
    <3>2. f[i] = g[i]
      BY <2>2, <3>1
    <3>3. f[i + 1] = Exec(f[i], cs[i + 1]) /\ g[i + 1] = Exec(g[i], ds[i + 1])
      BY <1>4, <3>1
    <3> QED  BY <1>1, <3>1, <3>2, <3>3
  <2> HIDE DEF S
  <2>3. Nat \subseteq S
    BY <2>1, <2>2, Induction
  <2> QED  BY <1>1, <2>3 DEF S
<1>6. g[n + 1] = Exec(g[n], ds[n + 1])
  <2>1. n + 1 \in 0 .. n + 1 /\ n + 1 # 0 /\ n + 1 - 1 = n
    BY <1>1
  <2> QED  BY <1>1, <1>4, <2>1
<1> QED  BY <1>1, <1>2, <1>3, <1>5, <1>6 DEF ds

-----------------------------------------------------------------------------
Reads(c) ==
  CASE c.op = "fill" -> {}
    [] c.op = "accum" -> {c.dst, c.src}
    [] c.op = "copy" -> {c.src}
    [] c.op = "merge" -> {c.src, c.aux}

Spares(cs, l) == \A i \in DOMAIN cs : cs[i].dst # l
ClosedCommand(c, K) == c.dst \in K => Reads(c) \subseteq K
ClosedIn(cs, K) == \A i \in DOMAIN cs : ClosedCommand(cs[i], K)
SameOn(m1, m2, K) == \A l \in K : m1[l] = m2[l]
CopiedFrom(cs, l, b) ==
  /\ \A i \in DOMAIN cs : cs[i].dst = l => cs[i].op = "copy" /\ cs[i].src = b
  /\ \E i \in DOMAIN cs : cs[i].dst = l

LEMMA ResultType ==
  ASSUME NEW L, NEW m \in [L -> Contents], NEW c \in CommandsOver(L)
  PROVE  Result(m, c) \in Contents
<1>1. \A a, b \in Contents : Combine(a, b) \in Contents
  BY NValAssumption DEF Contents, Combine
<1> QED  BY <1>1 DEF Result, CommandsOver

LEMMA ExecType ==
  ASSUME NEW L, NEW m \in [L -> Contents], NEW c \in CommandsOver(L)
  PROVE  /\ Exec(m, c) \in [L -> Contents]
         /\ Exec(m, c) = [l \in L |-> IF l = c.dst THEN Result(m, c) ELSE m[l]]
<1>1. c.dst \in L
  BY DEF CommandsOver
<1> QED  BY <1>1, ResultType DEF Exec

(* Every list is empty or one command longer than another.                 *)
LEMMA ListCases ==
  ASSUME NEW C, NEW n \in Nat, NEW cs \in Seq(C), Len(cs) = n + 1
  PROVE  \E ds \in Seq(C), c \in C : cs = Append(ds, c) /\ Len(ds) = n
<1>1. cs # <<>>
  OBVIOUS
<1>2. PICK ds \in Seq(C), c \in C : cs = Append(ds, c)
  BY <1>1, SequenceEmptyOrAppend
<1>3. Len(cs) = Len(ds) + 1 /\ Len(ds) \in Nat
  BY <1>2
<1> QED  BY <1>2, <1>3

LEMMA ExecAllType ==
  ASSUME NEW L, NEW m \in [L -> Contents], NEW cs \in Seq(CommandsOver(L))
  PROVE  ExecAll(m, cs) \in [L -> Contents]
<1> DEFINE S == {n \in Nat : \A ds \in Seq(CommandsOver(L)) : Len(ds) = n => ExecAll(m, ds) \in [L -> Contents]}
<1>1. 0 \in S
  BY ExecAllEmpty, EmptySeq
<1>2. ASSUME NEW n \in Nat, n \in S PROVE n + 1 \in S
  <2> SUFFICES ASSUME NEW ds \in Seq(CommandsOver(L)), Len(ds) = n + 1
               PROVE  ExecAll(m, ds) \in [L -> Contents]
    OBVIOUS
  <2>1. PICK es \in Seq(CommandsOver(L)), c \in CommandsOver(L) : ds = Append(es, c) /\ Len(es) = n
    BY ListCases
  <2>2. ExecAll(m, es) \in [L -> Contents]
    BY <1>2, <2>1
  <2>3. ExecAll(m, ds) = Exec(ExecAll(m, es), c)
    BY <2>1, ExecAllAppend
  <2> QED  BY <2>2, <2>3, ExecType
<1> HIDE DEF S
<1>3. Nat \subseteq S
  BY <1>1, <1>2, Induction
<1>4. Len(cs) \in S
  BY <1>3
<1> QED  BY <1>4 DEF S

(* Executing one list after another is executing the two as one.           *)
LEMMA ExecAllConcat ==
  ASSUME NEW C, NEW m, NEW bs \in Seq(C), NEW cs \in Seq(C)
  PROVE  ExecAll(m, bs \o cs) = ExecAll(ExecAll(m, bs), cs)
<1> DEFINE Same(ds) == ExecAll(m, bs \o ds) = ExecAll(ExecAll(m, bs), ds)
           S == {n \in Nat : \A ds \in Seq(C) : Len(ds) = n => Same(ds)}
<1>1. 0 \in S
  <2> SUFFICES ASSUME NEW ds \in Seq(C), Len(ds) = 0 PROVE Same(ds)
    OBVIOUS
  <2>1. ds = <<>> /\ bs \o ds = bs
    BY EmptySeq
  <2> QED  BY <2>1, ExecAllEmpty
<1>2. ASSUME NEW n \in Nat, n \in S PROVE n + 1 \in S
  <2> SUFFICES ASSUME NEW ds \in Seq(C), Len(ds) = n + 1 PROVE Same(ds)
    OBVIOUS
  <2>1. PICK es \in Seq(C), c \in C : ds = Append(es, c) /\ Len(es) = n
    BY ListCases
  <2>2. bs \o es \in Seq(C) /\ bs \o ds = Append(bs \o es, c)
    BY <2>1
  <2>3. Same(es)
    BY <1>2, <2>1
  <2>4. \A n1 : \A xs \in Seq(C) : ExecAll(n1, Append(xs, c)) = Exec(ExecAll(n1, xs), c)
    BY ExecAllAppend
  <2>5. /\ ExecAll(m, bs \o ds) = Exec(ExecAll(m, bs \o es), c)
        /\ ExecAll(ExecAll(m, bs), ds) = Exec(ExecAll(ExecAll(m, bs), es), c)
    BY <2>1, <2>2, <2>4, Zenon
  <2> QED  BY <2>3, <2>5
<1> HIDE DEF S
<1>3. Nat \subseteq S
  BY <1>1, <1>2, Induction
<1>4. Len(cs) \in S
  BY <1>3
<1> QED  BY <1>4 DEF S

(* The last command of a list and those before it.                         *)
LEMMA ListParts ==
  ASSUME NEW C, NEW es \in Seq(C), NEW c \in C
  PROVE  /\ DOMAIN es = 1 .. Len(es) /\ DOMAIN Append(es, c) = 1 .. Len(es) + 1
         /\ \A i \in DOMAIN es : i \in DOMAIN Append(es, c) /\ Append(es, c)[i] = es[i]
         /\ Len(es) + 1 \in DOMAIN Append(es, c) /\ Append(es, c)[Len(es) + 1] = c
         /\ \A i \in DOMAIN Append(es, c) : i \in DOMAIN es \/ i = Len(es) + 1
OBVIOUS

(* A location no command writes keeps its contents.                        *)
LEMMA ExecAllUnwritten ==
  ASSUME NEW L, NEW m \in [L -> Contents], NEW cs \in Seq(CommandsOver(L)), NEW l \in L,
         Spares(cs, l)
  PROVE  ExecAll(m, cs)[l] = m[l]
<1> DEFINE S == {n \in Nat : \A ds \in Seq(CommandsOver(L)) :
                   Len(ds) = n /\ Spares(ds, l) => ExecAll(m, ds)[l] = m[l]}
<1>1. 0 \in S
  BY ExecAllEmpty, EmptySeq
<1>2. ASSUME NEW n \in Nat, n \in S PROVE n + 1 \in S
  <2> SUFFICES ASSUME NEW ds \in Seq(CommandsOver(L)), Len(ds) = n + 1, Spares(ds, l)
               PROVE  ExecAll(m, ds)[l] = m[l]
    OBVIOUS
  <2>1. PICK es \in Seq(CommandsOver(L)), c \in CommandsOver(L) : ds = Append(es, c) /\ Len(es) = n
    BY ListCases
  <2>2. c.dst # l /\ Spares(es, l)
    BY <2>1, ListParts DEF Spares
  <2>3. ExecAll(m, es)[l] = m[l] /\ ExecAll(m, es) \in [L -> Contents]
    BY <1>2, <2>1, <2>2, ExecAllType
  <2>4. ExecAll(m, ds) = Exec(ExecAll(m, es), c)
    BY <2>1, ExecAllAppend
  <2> QED  BY <2>2, <2>3, <2>4, ExecType
<1> HIDE DEF S
<1>3. Nat \subseteq S
  BY <1>1, <1>2, Induction
<1>4. Len(cs) \in S
  BY <1>3
<1> QED  BY <1>4 DEF S

(* Memories that agree on K agree there afterwards if what is written in K *)
(* is computed from K.                                                     *)
LEMMA ResultAgree ==
  ASSUME NEW L, NEW a \in [L -> Contents], NEW b \in [L -> Contents],
         NEW c \in CommandsOver(L), \A l \in Reads(c) : a[l] = b[l]
  PROVE  Result(a, c) = Result(b, c)
<1>1. CASE c.op = "fill"
  BY <1>1 DEF Result
<1>2. CASE c.op = "accum"
  <2>1. a[c.dst] = b[c.dst] /\ a[c.src] = b[c.src]
    BY <1>2 DEF Reads
  <2> QED  BY <1>2, <2>1 DEF Result
<1>3. CASE c.op = "copy"
  <2>1. a[c.src] = b[c.src]
    BY <1>3 DEF Reads
  <2> QED  BY <1>3, <2>1 DEF Result
<1>4. CASE c.op = "merge"
  <2>1. a[c.src] = b[c.src] /\ a[c.aux] = b[c.aux]
    BY <1>4 DEF Reads
  <2> QED  BY <1>4, <2>1 DEF Result
<1> QED  BY <1>1, <1>2, <1>3, <1>4 DEF CommandsOver

LEMMA ExecAgree ==
  ASSUME NEW L, NEW K \in SUBSET L, NEW a \in [L -> Contents], NEW b \in [L -> Contents],
         NEW c \in CommandsOver(L), SameOn(a, b, K), ClosedCommand(c, K)
  PROVE  SameOn(Exec(a, c), Exec(b, c), K)
<1>1. ASSUME c.dst \in K PROVE Result(a, c) = Result(b, c)
  <2>1. \A l \in Reads(c) : a[l] = b[l]
    BY <1>1 DEF SameOn, ClosedCommand
  <2> QED  BY <2>1, ResultAgree
<1> QED  BY <1>1, ExecType DEF SameOn

LEMMA ExecAllAgree ==
  ASSUME NEW L, NEW K \in SUBSET L, NEW m1 \in [L -> Contents], NEW m2 \in [L -> Contents],
         NEW cs \in Seq(CommandsOver(L)), SameOn(m1, m2, K), ClosedIn(cs, K)
  PROVE  SameOn(ExecAll(m1, cs), ExecAll(m2, cs), K)
<1> DEFINE Agree(ds) == SameOn(ExecAll(m1, ds), ExecAll(m2, ds), K)
           S == {n \in Nat : \A ds \in Seq(CommandsOver(L)) :
                   Len(ds) = n /\ ClosedIn(ds, K) => Agree(ds)}
<1>1. 0 \in S
  BY ExecAllEmpty, EmptySeq
<1>2. ASSUME NEW n \in Nat, n \in S PROVE n + 1 \in S
  <2> SUFFICES ASSUME NEW ds \in Seq(CommandsOver(L)), Len(ds) = n + 1, ClosedIn(ds, K)
               PROVE  Agree(ds)
    OBVIOUS
  <2>1. PICK es \in Seq(CommandsOver(L)), c \in CommandsOver(L) :
               ds = Append(es, c) /\ Len(es) = n
    BY ListCases
  <2>2. ClosedCommand(c, K) /\ ClosedIn(es, K)
    BY <2>1, ListParts DEF ClosedIn
  <2>3. Agree(es)
    BY <1>2, <2>1, <2>2
  <2>4. /\ ExecAll(m1, ds) = Exec(ExecAll(m1, es), c)
        /\ ExecAll(m2, ds) = Exec(ExecAll(m2, es), c)
    BY <2>1, ExecAllAppend
  <2>5. ExecAll(m1, es) \in [L -> Contents] /\ ExecAll(m2, es) \in [L -> Contents]
    BY ExecAllType
  <2> HIDE DEF S
  <2>6. SameOn(Exec(ExecAll(m1, es), c), Exec(ExecAll(m2, es), c), K)
    BY <2>2, <2>3, <2>5, ExecAgree
  <2> QED  BY <2>4, <2>6
<1> HIDE DEF S
<1>3. Nat \subseteq S
  BY <1>1, <1>2, Induction
<1>4. Len(cs) \in S
  BY <1>3
<1> QED  BY <1>4 DEF S

(* A location that is copied to from one that no command writes ends with  *)
(* the contents of that other.                                             *)
LEMMA ExecAllCopied ==
  ASSUME NEW L, NEW m \in [L -> Contents], NEW cs \in Seq(CommandsOver(L)),
         NEW l \in L, NEW b \in L, Spares(cs, b), CopiedFrom(cs, l, b)
  PROVE  ExecAll(m, cs)[l] = m[b]
<1> DEFINE S == {n \in Nat : \A ds \in Seq(CommandsOver(L)) :
                   Len(ds) = n /\ Spares(ds, b) /\ CopiedFrom(ds, l, b) => ExecAll(m, ds)[l] = m[b]}
<1>1. 0 \in S
  BY DEF CopiedFrom
<1>2. ASSUME NEW n \in Nat, n \in S PROVE n + 1 \in S
  <2> SUFFICES ASSUME NEW ds \in Seq(CommandsOver(L)), Len(ds) = n + 1, Spares(ds, b), CopiedFrom(ds, l, b)
               PROVE  ExecAll(m, ds)[l] = m[b]
    OBVIOUS
  <2>1. PICK es \in Seq(CommandsOver(L)), c \in CommandsOver(L) : ds = Append(es, c) /\ Len(es) = n
    BY ListCases
  <2>2. /\ Spares(es, b)
        /\ c.dst = l => c.op = "copy" /\ c.src = b
        /\ c.dst # l => CopiedFrom(es, l, b)
    BY <2>1, ListParts DEF Spares, CopiedFrom
  <2>3. /\ ExecAll(m, ds) = Exec(ExecAll(m, es), c)
        /\ ExecAll(m, es) \in [L -> Contents]
        /\ ExecAll(m, es)[b] = m[b]
    BY <2>1, <2>2, ExecAllAppend, ExecAllType, ExecAllUnwritten
  <2>4. c.dst # l => ExecAll(m, es)[l] = m[b]
    BY <1>2, <2>1, <2>2
  <2>5. c.dst = l => Result(ExecAll(m, es), c) = m[b]
    BY <2>2, <2>3 DEF Result
  <2> QED  BY <2>3, <2>4, <2>5, ExecType
<1> HIDE DEF S
<1>3. Nat \subseteq S
  BY <1>1, <1>2, Induction
<1>4. Len(cs) \in S
  BY <1>3
<1> QED  BY <1>4 DEF S

=============================================================================
