--------------------------- MODULE MCCudaCapture ---------------------------
(* A small instance of graph capture.                                      *)
EXTENDS CudaCapture, TLC

Symmetry == Permutations(Tensors) \cup Permutations(Staged)

(* Once a capture has been disturbed AsIfEager says nothing, and guards    *)
(* depend on what a graph touches and how long a capture is, but neither   *)
(* on what storages hold nor on what captured work does or stands for:     *)
(* that no longer tells states apart, beyond what the other properties say *)
(* of it.                                                                  *)
Extent(w) == IF w = None THEN <<>> ELSE <<Touched(w.cmds), Len(w.meant)>>
View ==
  IF disturbed
  THEN <<TypeOK, GraphReadsStaged, calls, htod_mode, htod_cache, Extent(capture),
         IF graph = None THEN <<>> ELSE <<Touched(graph.cmds)>>, [b \in Staged |-> mem[b]]>>
  ELSE <<vars>>

=============================================================================
