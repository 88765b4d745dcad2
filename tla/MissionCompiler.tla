----------------------------- MODULE MissionCompiler -----------------------------
(***************************************************************************)
(* The Strategies that a Mission compiles to (mission_compiler.py): one    *)
(* native Run and a finish, or Codex, an OMX review of it, a gate on the   *)
(* reviewer's blocker report, a resume of Codex and a finish.              *)
(***************************************************************************)
EXTENDS StrategyDefinitions

Profiles == {"codex-native", "omx-native", "codex-then-omx-review"}

\* The artifact kind of the result.md of a Run.
ResultKind == "result"

\* The parts of a MissionRequest that its Strategy depends on: the profile, the
\* objective, and the verification the caller asks for.
MissionRequest(Objectives, Paths) ==
    [profile : Profiles, objective : Objectives, process : BOOLEAN,
     semantic : BOOLEAN, required : SUBSET Paths]

\* A native Stage that is held to the verification of the Mission.
Verified(stage, request) ==
    [stage EXCEPT !.expects = request.required, !.process = request.process,
                  !.semantic = request.semantic]

DirectStrategy(request) ==
    << Verified(Stage("native_run", request.objective), request),
       [Stage("finish", request.objective) EXCEPT !.dependencies = {1}] >>

\* The numbers are positions: codex-primary, omx-review, blocker-gate,
\* codex-resume, finish.
ReviewStrategy(request) ==
    << Verified(Stage("native_run", request.objective), request),
       [Stage("handoff", request.objective) EXCEPT
            !.dependencies = {1}, !.source = 1,
            !.reads = {ResultKind}, !.expects = {BlockerPath}],
       [Stage("validator", request.objective) EXCEPT
            !.dependencies = {2}, !.source = 2, !.validator = "blocker_count",
            !.reads = {BlockerPath}, !.action = "continue"],
       [Verified(Stage("native_resume", request.objective), request) EXCEPT
            !.dependencies = {1, 3}, !.source = 1,
            !.condition = "any_dependency_failed"],
       [Stage("finish", request.objective) EXCEPT
            !.dependencies = {3, 4}, !.condition = "any_dependency_succeeded"] >>

Compile(request) ==
    IF request.profile = "codex-then-omx-review"
    THEN ReviewStrategy(request) ELSE DirectStrategy(request)

================================================================================
