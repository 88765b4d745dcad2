--------------------------- MODULE StrategyDefinitions ---------------------------
(***************************************************************************)
(* A Strategy as its caller submits it: a sequence of Stages, and what the *)
(* schema accepts (strategy_schemas.py).  A Stage is known by its position *)
(* in the sequence.                                                        *)
(***************************************************************************)
EXTENDS Naturals, Sequences

Nodes == {"native_run", "native_resume", "handoff", "validator", "finish"}

ProviderNodes == {"native_run", "native_resume", "handoff"}

Conditions == {"all_dependencies_succeeded", "any_dependency_succeeded",
               "any_dependency_failed"}

Actions == {"stop", "continue"}

Validators == {"none", "run_evidence", "artifact_presence", "blocker_count"}

MaxAttempts == 3

MaxStages == 64

\* The file a blocker_count validator reads, written in the schema blocker-report.v1.
BlockerPath == "blockers.json"

\* The Stage with the schema's defaults.  `source` is the position of the source
\* Stage or 0, `expects` and `reads` are artifact paths, `process` and `semantic`
\* the two completion criteria about the Run itself, `task` what distinguishes the
\* request from another one under the same stage_id.
Stage(node, task) ==
    [node |-> node, task |-> task, dependencies |-> {}, source |-> 0,
     condition |-> "all_dependencies_succeeded", action |-> "stop", attempts |-> 1,
     validator |-> "none", expects |-> {}, reads |-> {}, process |-> TRUE,
     semantic |-> TRUE, blockers |-> 0]

\* The fields of a Stage that are enumerations.
ValidFields(s) ==
    /\ s.node \in Nodes /\ s.condition \in Conditions
    /\ s.action \in Actions /\ s.validator \in Validators

\* validate_node_contract.
ValidNode(s) ==
    /\ s.attempts \in 1..MaxAttempts
    /\ s.condition # "all_dependencies_succeeded" => s.dependencies # {}
    /\ s.node \in {"native_run", "finish"} => s.source = 0
    /\ s.node \in {"native_resume", "handoff", "validator"} => s.source # 0
    /\ s.node = "validator" <=> s.validator # "none"
    /\ s.validator = "blocker_count" => \E path \in s.reads : s.reads = {path}

\* validate_sequence: Stages depend on earlier ones, a source is a dependency, and
\* the last Stage, and no other, is the finish.
ValidSequence(d) ==
    /\ Len(d) \in 1..MaxStages
    /\ \A i \in 1..Len(d) :
        /\ ValidFields(d[i]) /\ ValidNode(d[i])
        /\ d[i].dependencies \subseteq 1..(i - 1)
        /\ d[i].source # 0 => d[i].source \in d[i].dependencies
        /\ d[i].node = "finish" <=> i = Len(d)

================================================================================
