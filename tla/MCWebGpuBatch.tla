--------------------------- MODULE MCWebGpuBatch ---------------------------
(* Small instances of WebGpuBatch for TLC.                                 *)
EXTENDS WebGpuBatch, TLC

Symmetry == Permutations(Tensors) \cup Permutations(Buffers)

=============================================================================
