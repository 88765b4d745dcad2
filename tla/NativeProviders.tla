---------------------------- MODULE NativeProviders ----------------------------
(***************************************************************************)
(* The native providers Codex and OMX as discovery sees them, the          *)
(* capability matrix resolved from that, and what validation makes of it   *)
(* for the Stages of a Mission.  A machine is what the probes find on it.  *)
(* Paths, versions and details are left out.                               *)
(***************************************************************************)

Providers == {"codex", "omx"}

(* Which binaries shutil.which finds, whose parser accepts the two probed  *)
(* argument vectors in time (exec and exec resume), and what codex login   *)
(* status answers: success, failure, or nothing that can be run in time.   *)
Machine == [binaries : SUBSET Providers, direct : SUBSET Providers,
            resume : SUBSET Providers, login : {"in", "out", "silent"}]

CapabilitySupport == {"supported", "conditional", "unsupported", "unknown"}

Operations == {"capabilities", "plan", "run", "handoff", "status", "events", "cancel",
               "resume", "artifacts"}

NativeCapability ==
    {"detached_execution", "cancellation", "resume", "interactive_input",
     "structured_events", "structured_subagents", "artifacts", "native_team",
     "native_loop", "parallel_workers"}

-----------------------------------------------------------------------------
(* ProviderAdapter.discover.                                               *)

(* _probe_native_contract, which require_available asks again of every     *)
(* plan and resume.                                                        *)
Compatible(m, p) == p \in m.binaries /\ p \in m.direct /\ p \in m.resume

(* _probe_authentication: OMX asks the Codex binary too.                   *)
LoginProbe(m, success) ==
    CASE m.login = "in" -> success
      [] m.login = "out" -> "unsupported"
      [] m.login = "silent" -> "unknown"

Authentication(m, p) ==
    IF p \notin m.binaries \/ "codex" \notin m.binaries THEN "unsupported"
    ELSE LoginProbe(m, IF p = "codex" THEN "supported" ELSE "conditional")

(* _capabilities: what needs no binary is always there.                    *)
SupportedOperations(m, p) ==
    IF Compatible(m, p) THEN Operations
    ELSE {"capabilities", "status", "events", "artifacts"}

Features(p) ==
    IF p = "codex"
    THEN {"exec", "review", "mcp", "plugin", "sandbox", "resume", "fork", "cloud"}
    ELSE {"exec", "mission", "team", "ralph", "ralplan", "ultragoal", "performance-goal",
          "autoresearch-goal", "capabilities", "state", "sidecar"}

ProviderInfo(m, p) ==
    [provider |-> p, available |-> p \in m.binaries, authentication |-> Authentication(m, p),
     operations |-> SupportedOperations(m, p), features |-> Features(p)]

-----------------------------------------------------------------------------
(* resolve_capability_matrix.                                              *)

Readiness(info) ==
    LET runs == "run" \in info.operations
        refused == info.authentication = "unsupported"
    IN  [installed |-> info.available,
         authenticated |-> info.authentication,
         executionReady |-> IF runs /\ ~refused THEN "conditional" ELSE "unsupported",
         unavailable |-> ~info.available \/ ~runs \/ refused]

ConditionalIf(condition) == IF condition THEN "conditional" ELSE "unsupported"

HasTeam(info) == info.provider = "omx" /\ "team" \in info.features

(* _native_capability_state.                                               *)
SupportOf(info, capability) ==
    CASE capability \in {"detached_execution", "structured_events"} ->
            ConditionalIf("run" \in info.operations)
      [] capability = "cancellation" -> ConditionalIf("cancel" \in info.operations)
      [] capability = "resume" -> ConditionalIf("resume" \in info.operations)
      [] capability = "interactive_input" -> "unsupported"
      [] capability = "artifacts" -> "supported"
      [] capability = "native_team" -> ConditionalIf(HasTeam(info))
      [] capability = "native_loop" ->
            ConditionalIf(info.features \cap {"ralph", "ultragoal", "ralplan"} # {})
      [] capability = "structured_subagents" ->
            IF HasTeam(info) THEN "conditional"
            ELSE IF info.provider = "codex" THEN "unknown" ELSE "unsupported"
      [] capability = "parallel_workers" ->
            IF HasTeam(info) THEN "conditional" ELSE "unknown"

(* The providers of the discovery; of another one nothing is known.        *)
Support(m, p, capability) ==
    IF p \in Providers THEN SupportOf(ProviderInfo(m, p), capability) ELSE "unknown"

-----------------------------------------------------------------------------
(* What the Stages of a Mission ask of their providers (MissionCompiler),  *)
(* and StrategyService.validate of them: a resume and a handoff ask for    *)
(* one capability more, and whatever is unsupported or unknown is an issue.*)
(* A Mission has no workflow and no native surface.                        *)

Need(node, p, requirements) == [node |-> node, provider |-> p, requirements |-> requirements]

RunNeeds == {"detached_execution", "structured_events", "artifacts"}

StageNeeds(profile) ==
    CASE profile = "codex-native" -> {Need("native_run", "codex", RunNeeds)}
      [] profile = "omx-native" -> {Need("native_run", "omx", RunNeeds)}
      [] profile = "codex-then-omx-review" ->
            {Need("native_run", "codex", RunNeeds),
             Need("handoff", "omx", {"artifacts"}),
             Need("native_resume", "codex", {"resume", "artifacts"})}

Requirements(need) ==
    need.requirements
    \cup (IF need.node = "native_resume" THEN {"resume"} ELSE {})
    \cup (IF need.node = "handoff" THEN {"artifacts"} ELSE {})

Issues(m, needs) ==
    UNION {{<<n.provider, c>> : c \in {d \in Requirements(n) :
                Support(m, n.provider, d) \in {"unsupported", "unknown"}}} : n \in needs}

MissionIsValid(m, profile) == Issues(m, StageNeeds(profile)) = {}
=============================================================================
