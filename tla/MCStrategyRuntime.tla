---------------------------- MODULE MCStrategyRuntime ----------------------------
(***************************************************************************)
(* Instances of StrategyRuntime: the Strategies of the Mission profiles,   *)
(* and every Strategy of two Stages and a finish over a choice of nodes,   *)
(* conditions, failure policies and criteria.                              *)
(***************************************************************************)
EXTENDS StrategyRuntime, MissionCompiler

Compiled(profile) ==
    {Compile(request) : request \in
        {r \in MissionRequest({"t"}, {}) : r.profile = profile /\ r.process /\ r.semantic}}

ReviewOnly == Compiled("codex-then-omx-review")

FirstStages ==
    { [Stage("native_run", "t") EXCEPT !.attempts = 2],
      [Stage("native_run", "t") EXCEPT !.action = "continue", !.expects = {BlockerPath}] }

\* The second Stage takes the first one as its source, under a condition.
Second(node, condition) ==
    [Stage(node, "t") EXCEPT !.dependencies = {1}, !.source = 1, !.condition = condition]

SecondStages ==
    { Second("native_resume", condition) : condition \in Conditions }
    \cup { [Second("handoff", "all_dependencies_succeeded") EXCEPT
              !.attempts = 2, !.semantic = FALSE] }
    \cup { [Second("validator", "any_dependency_succeeded") EXCEPT
              !.action = "continue", !.reads = {BlockerPath}, !.validator = kind] :
            kind \in Validators \ {"none"} }
    \cup { [Second("validator", "any_dependency_failed") EXCEPT
              !.action = "continue", !.validator = "run_evidence"] }

Finishes ==
    { [Stage("finish", "t") EXCEPT !.dependencies = {1, 2}, !.condition = condition] :
        condition \in Conditions }

TwoStages == {<<s1, s2, f>> : s1 \in FirstStages, s2 \in SecondStages, f \in Finishes}

Everything == TwoStages \cup ReviewOnly \cup Compiled("codex-native")

\* Two submissions under one strategy_id: a Run, a handoff of it with a second try, and
\* a finish; they differ in what the first Run is asked to do.
Reviewed(task) ==
    << [Stage("native_run", task) EXCEPT !.action = "continue"],
       [Stage("handoff", "t") EXCEPT !.dependencies = {1}, !.source = 1,
            !.condition = "any_dependency_succeeded", !.attempts = 2],
       [Stage("finish", "t") EXCEPT !.dependencies = {2}] >>

Rivals == {Reviewed("t"), Reviewed("u")}

================================================================================
