------------------------- MODULE MCIdempotentOperations -------------------------
(* IdempotentOperations with interchangeable callers, requests and contents. *)
EXTENDS IdempotentOperations, TLC

Symmetry == Permutations(Callers) \cup Permutations(Bodies) \cup Permutations(Contents)

================================================================================
