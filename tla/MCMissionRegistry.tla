---- MODULE MCMissionRegistry ----
(* Model checking of MissionRegistry: the two requests have one profile    *)
(* and are interchangeable; a machine with both providers and one without. *)
EXTENDS MissionRegistry, TLC

ReviewOfEach == [r \in Requests |-> "codex-then-omx-review"]

BothOrNone ==
    {[binaries |-> ps, direct |-> ps, resume |-> ps, login |-> "in"] : ps \in {{}, Providers}}

Symmetry == Permutations(Requests)
====
