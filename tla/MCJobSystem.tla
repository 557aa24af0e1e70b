----------------------------- MODULE MCJobSystem -----------------------------
(* Model-checking instance of JobSystem: symmetric sets for the safety runs. *)
EXTENDS JobSystem, TLC

Symmetry ==
  Permutations(Invocations) \cup Permutations(Reports) \cup Permutations(Triggers)
    \cup Permutations(Closures)

=============================================================================
