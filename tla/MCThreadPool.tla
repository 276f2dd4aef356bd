---------------------------- MODULE MCThreadPool ----------------------------
(* Instances of ThreadPool for TLC: calls and workers are interchangeable. *)
EXTENDS ThreadPoolInductive, TLC

Symmetry == Permutations(Calls) \cup Permutations(Workers)

=============================================================================
