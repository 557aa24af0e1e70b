------------------------------ MODULE MCJobsApi ------------------------------
(* Model-checking instance of JobsApi. *)
EXTENDS JobsApi, TLC

\* A header may be absent or blank, and may be padded.
MCTrim == [h \in Headers |-> IF h \in {"absent", "blank"} THEN NoKey ELSE "k"]

Symmetry == Permutations(Creates) \cup Permutations(Users)

=============================================================================
