---------------------------- MODULE GpuCommands ----------------------------
(***************************************************************************)
(* What the commands a backend records do to device memory. Only the data  *)
(* flow matters: a kernel that overwrites its output from parameters       *)
(* (fill), one that combines an output with an input (accumulate, as the   *)
(* in-place, scatter and matmul-accumulate kernels do), one that reads an  *)
(* input through a table of dims and strides (merge), and a buffer copy.   *)
(* A value stands for the contents of a whole buffer.                      *)
(***************************************************************************)
EXTENDS Naturals, Sequences, SequencesExt

CONSTANT NVal     (* contents a buffer can have, 0 .. NVal-1               *)

ASSUME NValAssumption == NVal \in Nat \ {0}

Contents == 0 .. NVal - 1
Combine(a, b) == (a + b) % NVal

Fill(d, v)  == [op |-> "fill", dst |-> d, src |-> d, aux |-> 0, val |-> v]
Accum(d, s) == [op |-> "accum", dst |-> d, src |-> s, aux |-> 0, val |-> 0]
Copy(d, s)  == [op |-> "copy", dst |-> d, src |-> s, aux |-> 0, val |-> 0]
Merge(d, s, x) == [op |-> "merge", dst |-> d, src |-> s, aux |-> x, val |-> 0]

(* Commands over a set of locations.                                       *)
CommandsOver(L) ==
  {c \in [op : {"fill", "accum", "copy", "merge"}, dst : L, src : L, aux : L \cup {0}, val : Contents] :
     c.aux \in IF c.op = "merge" THEN L ELSE {0}}

Result(mem, c) ==
  CASE c.op = "fill"  -> c.val
    [] c.op = "accum" -> Combine(mem[c.dst], mem[c.src])
    [] c.op = "copy"  -> mem[c.src]
    [] c.op = "merge" -> Combine(mem[c.src], mem[c.aux])

Exec(mem, c) == [mem EXCEPT ![c.dst] = Result(mem, c)]
ExecAll(mem, cs) ==
  LET after[i \in 0 .. Len(cs)] == IF i = 0 THEN mem ELSE Exec(after[i - 1], cs[i])
  IN after[Len(cs)]

(* The buffers a list of commands touches.                                 *)
Touched(cs) ==
  UNION {{cs[i].dst, cs[i].src} \cup (IF cs[i].op = "merge" THEN {cs[i].aux} ELSE {}) :
           i \in DOMAIN cs}

=============================================================================
