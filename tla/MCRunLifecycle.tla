----------------------------- MODULE MCRunLifecycle -----------------------------
(* RunLifecycle with two interchangeable clients. *)
EXTENDS RunLifecycle, TLC

ClientSymmetry == Permutations(Clients)

================================================================================
