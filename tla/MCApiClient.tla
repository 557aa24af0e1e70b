----------------------------- MODULE MCApiClient -----------------------------
(* Model-checking instance of ApiClient: symmetric sets for the safety runs. *)
EXTENDS ApiClient, TLC

Symmetry == Permutations(Calls) \cup Permutations(Flights)

=============================================================================
