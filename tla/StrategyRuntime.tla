----------------------------- MODULE StrategyRuntime -----------------------------
(***************************************************************************)
(* StrategyService.execute and StrategyStageExecutor: callers that execute *)
(* the Strategies of one strategy_id, the aggregate record they share, and *)
(* the Runs their Stages are bound to.                                     *)
(*                                                                         *)
(* A caller keeps the record in memory and overwrites the file with its    *)
(* whole copy at every step; nothing locks the file.  HarnessTools.run,    *)
(* resume and handoff appear as their results: a key is bound to one       *)
(* request and one Run (IdempotentOperations), and the executor of a Run   *)
(* that has started may conclude a verdict, while any status or cancel     *)
(* call may overwrite the Run's record before and after (RunLifecycle).    *)
(* Every write of the record, every event appended and every call of a     *)
(* tool is a step.                                                         *)
(***************************************************************************)
EXTENDS StrategyDefinitions

CONSTANTS
    Callers,     \* processes that may be inside execute at the same time
    Catalogue,   \* the definitions that are submitted under the strategy_id
    Crashable,   \* the callers that may die at any step
    Counts       \* the values of blocker_count that a reviewer reports, here

ASSUME CatalogueAssumption == \A d \in Catalogue : ValidSequence(d)
ASSUME CountsAssumption == Counts \subseteq Nat

VARIABLES
    record,      \* strategy.json
    log,         \* the events appended to events.jsonl, without their numbers
    runs,        \* runs[k]: the Run bound to the key k
    report,      \* the blocker_count in the file at BlockerPath; {} if there is none
    pc,          \* pc[c]: where caller c is
    copy,        \* copy[c]: the record c holds in memory
    at,          \* at[c]: the position of the Stage c works on
    attempt,     \* attempt[c]: its attempt
    result       \* result[c]: what _attempt returns, the Run and the verdict

vars == <<record, log, runs, report, pc, copy, at, attempt, result>>
callerVars == <<pc, copy, at, attempt, result>>

-----------------------------------------------------------------------------
Positions == 1..MaxStages

StrategyStatus == {"none", "pending", "running", "succeeded", "failed"}

StageStatus == {"pending", "running", "succeeded", "failed", "skipped"}

\* One key per Stage and operation: run, resume and handoff have namespaces of their own.
Key == [stage : Positions, node : ProviderNodes]

NoKey == [stage |-> 0, node |-> "none"]

RunState == {"none", "planned", "running", "succeeded", "blocked", "failed"}

\* "blocked" stands for every Run whose process ended with code zero and which did not
\* succeed, "failed" for the others that did not.
EndedRun == {"succeeded", "blocked", "failed"}

\* `state` is what the record of the Run says on disk, `verdict` what its executor has
\* concluded; `task` is the request the key is bound to, `expects` the artifacts that
\* the plan of the Run declares.
NoRun == [state |-> "none", verdict |-> "none", task |-> "none", expects |-> {}]

\* The Run as it is planned and bound to its key.
PlannedRun(task, expects) ==
    [state |-> "planned", verdict |-> "none", task |-> task, expects |-> expects]

\* The Run with the terminal record that its executor writes.
EndedAs(run, v) == [state |-> v, verdict |-> v, task |-> run.task, expects |-> run.expects]

NoRecord == [definition |-> <<>>, status |-> "none", stages |-> <<>>, current |-> 0]

\* A StrategyStageRecord.
StageRecord(status, tries, run) == [status |-> status, attempts |-> tries, run |-> run]

NewRecord(d) ==
    [definition |-> d, status |-> "pending", current |-> 0,
     stages |-> [i \in 1..Len(d) |-> StageRecord("pending", 0, NoKey)]]

NoResult == [run |-> NoKey, passed |-> FALSE]

Keys(d) ==
    {[stage |-> i, node |-> d[i].node] :
        i \in {j \in 1..Len(d) : d[j].node \in ProviderNodes}}

BoundKeys == UNION {Keys(d) : d \in Catalogue}

CallerPc == {"idle", "create", "logCreated", "start", "logStarted", "stage", "logSkipped",
             "begin", "logBegun", "call", "launch", "inside", "evidence", "complete",
             "logEvidence", "logStage", "next", "close", "logClosed", "returned",
             "raised", "crashed"}

Away == {"idle", "returned", "raised", "crashed"}

Init ==
    /\ record = NoRecord
    /\ log = {}
    /\ runs = [k \in BoundKeys |-> NoRun]
    /\ report = {}
    /\ pc = [c \in Callers |-> "idle"]
    /\ copy = [c \in Callers |-> NoRecord]
    /\ at = [c \in Callers |-> 0]
    /\ attempt = [c \in Callers |-> 0]
    /\ result = [c \in Callers |-> NoResult]

-----------------------------------------------------------------------------
Current(c) == copy[c].definition[at[c]]

KeyOf(c) == [stage |-> at[c], node |-> Current(c).node]

Status(r, i) == r.stages[i].status

\* _condition_satisfied, over the record in memory.
ConditionSatisfied(r, s) ==
    \/ s.dependencies = {}
    \/ /\ s.condition = "all_dependencies_succeeded"
       /\ \A i \in s.dependencies : Status(r, i) = "succeeded"
    \/ /\ s.condition = "any_dependency_succeeded"
       /\ \E i \in s.dependencies : Status(r, i) = "succeeded"
    \/ /\ s.condition = "any_dependency_failed"
       /\ \E i \in s.dependencies : Status(r, i) = "failed"

Goto(c, place) == pc' = [pc EXCEPT ![c] = place]

Keep(c, r) == copy' = [copy EXCEPT ![c] = r]

\* The caller changes its copy and overwrites the file with it.
Save(c, r) == Keep(c, r) /\ record' = r

\* _replace_stage: the other Stages of the caller's copy are written back with it.
ReplaceStage(r, i, s, current) ==
    [definition |-> r.definition, status |-> r.status,
     stages |-> [r.stages EXCEPT ![i] = s], current |-> current]

\* _update_strategy: the verdict on the whole, between two Stages.
UpdateStrategy(r, status) ==
    [definition |-> r.definition, status |-> status, stages |-> r.stages, current |-> 0]

AppendEvent(message, i) == log' = log \cup {[message |-> message, stage |-> i]}

-----------------------------------------------------------------------------
(***************************************************************************)
(* execute: the record is read, created and closed.                        *)
(***************************************************************************)
\* The record is looked up once, and then the caller is on its own.
Enter(c, place, r) ==
    /\ pc[c] \in Away
    /\ Goto(c, place) /\ Keep(c, r)
    /\ at' = [at EXCEPT ![c] = 0]
    /\ attempt' = [attempt EXCEPT ![c] = 0]
    /\ result' = [result EXCEPT ![c] = NoResult]
    /\ UNCHANGED <<record, log, runs, report>>

CallFirst(c, d) == record = NoRecord /\ Enter(c, "create", NewRecord(d))

\* The same definition is answered with the record as it is, whatever its status.
CallAgain(c) == record # NoRecord /\ Enter(c, "returned", NoRecord)

\* Another definition under the same strategy_id is refused.
CallOther(c) ==
    /\ record # NoRecord /\ Catalogue # {record.definition}
    /\ Enter(c, "raised", NoRecord)

Create(c) ==
    /\ pc[c] = "create"
    /\ Save(c, copy[c])
    /\ Goto(c, "logCreated")
    /\ UNCHANGED <<log, runs, report, at, attempt, result>>

LogCreated(c) ==
    /\ pc[c] = "logCreated"
    /\ AppendEvent("created", 0)
    /\ Goto(c, "start")
    /\ UNCHANGED <<record, runs, report, copy, at, attempt, result>>

Start(c) ==
    /\ pc[c] = "start"
    /\ Save(c, UpdateStrategy(copy[c], "running"))
    /\ Goto(c, "logStarted")
    /\ UNCHANGED <<log, runs, report, at, attempt, result>>

LogStarted(c) ==
    /\ pc[c] = "logStarted"
    /\ AppendEvent("started", 0)
    /\ at' = [at EXCEPT ![c] = 1]
    /\ Goto(c, "stage")
    /\ UNCHANGED <<record, runs, report, copy, attempt, result>>

\* Variant: the failure policy is not looked at.
HaltsNever(c) == Status(copy[c], at[c]) = "failed" /\ Current(c).action = "none"

\* After a Stage: a failure under the stop action closes the Strategy at once, and so
\* does the end of the sequence; otherwise it is the next Stage's turn.
Halts(c) == Status(copy[c], at[c]) = "failed" /\ Current(c).action = "stop"

NextStage(c) ==
    /\ pc[c] = "next"
    /\ IF Halts(c) \/ at[c] = Len(copy[c].definition)
       THEN Goto(c, "close") /\ UNCHANGED at
       ELSE Goto(c, "stage") /\ at' = [at EXCEPT ![c] = at[c] + 1]
    /\ attempt' = [attempt EXCEPT ![c] = 0]
    /\ result' = [result EXCEPT ![c] = NoResult]
    /\ UNCHANGED <<record, log, runs, report, copy>>

\* Variant: some Stage that succeeded is enough.
VerdictOfAny(c) ==
    IF \E i \in DOMAIN copy[c].stages : Status(copy[c], i) = "succeeded"
    THEN "succeeded" ELSE "failed"

\* The verdict: failed after a halt, else the verdict of the last Stage.
Verdict(c) ==
    IF ~Halts(c) /\ Status(copy[c], Len(copy[c].stages)) = "succeeded"
    THEN "succeeded" ELSE "failed"

Close(c) ==
    /\ pc[c] = "close"
    /\ Save(c, UpdateStrategy(copy[c], Verdict(c)))
    /\ Goto(c, "logClosed")
    /\ UNCHANGED <<log, runs, report, at, attempt, result>>

LogClosed(c) ==
    /\ pc[c] = "logClosed"
    /\ AppendEvent(copy[c].status, IF Halts(c) THEN at[c] ELSE 0)
    /\ Goto(c, "returned")
    /\ UNCHANGED <<record, runs, report, copy, at, attempt, result>>

-----------------------------------------------------------------------------
(***************************************************************************)
(* StrategyStageExecutor.execute: one Stage, with its attempts.            *)
(***************************************************************************)
\* The condition is looked at once, before the first attempt.
Skip(c) ==
    /\ pc[c] = "stage"
    /\ ~ConditionSatisfied(copy[c], Current(c))
    /\ Save(c, ReplaceStage(copy[c], at[c], StageRecord("skipped", 0, NoKey), 0))
    /\ Goto(c, "logSkipped")
    /\ UNCHANGED <<log, runs, report, at, attempt, result>>

LogSkipped(c) ==
    /\ pc[c] = "logSkipped"
    /\ AppendEvent("skipped", at[c])
    /\ Goto(c, "next")
    /\ UNCHANGED <<record, runs, report, copy, at, attempt, result>>

\* Variant: the attempts are counted in the record only.
BeginUncounted(c) ==
    /\ \/ pc[c] = "stage" /\ ConditionSatisfied(copy[c], Current(c))
       \/ pc[c] = "begin"
    /\ Save(c, ReplaceStage(copy[c], at[c], StageRecord("running", 1, NoKey), at[c]))
    /\ result' = [result EXCEPT ![c] = NoResult]
    /\ Goto(c, "logBegun")
    /\ UNCHANGED <<log, runs, report, at, attempt>>

\* Every attempt begins with a new Stage record, without the Run of the last one.
Begin(c) ==
    /\ \/ pc[c] = "stage" /\ ConditionSatisfied(copy[c], Current(c))
       \/ pc[c] = "begin"
    /\ attempt' = [attempt EXCEPT ![c] = attempt[c] + 1]
    /\ Save(c, ReplaceStage(copy[c], at[c],
                            StageRecord("running", attempt[c] + 1, NoKey), at[c]))
    /\ result' = [result EXCEPT ![c] = NoResult]
    /\ Goto(c, "logBegun")
    /\ UNCHANGED <<log, runs, report, at>>

LogBegun(c) ==
    /\ pc[c] = "logBegun"
    /\ AppendEvent("attempt started", at[c])
    /\ Goto(c, "call")
    /\ UNCHANGED <<record, runs, report, copy, at, attempt, result>>

\* Variant: the completed Stage is kept in memory only.
CompleteUnsaved(c) ==
    /\ pc[c] = "complete"
    /\ LET status == IF result[c].passed THEN "succeeded" ELSE "failed"
       IN  Keep(c, ReplaceStage(copy[c], at[c],
                               StageRecord(status, attempt[c], result[c].run), 0))
    /\ Goto(c, "logEvidence")
    /\ UNCHANGED <<record, log, runs, report, at, attempt, result>>

Complete(c) ==
    /\ pc[c] = "complete"
    /\ LET status == IF result[c].passed THEN "succeeded" ELSE "failed"
       IN  Save(c, ReplaceStage(copy[c], at[c],
                               StageRecord(status, attempt[c], result[c].run), 0))
    /\ Goto(c, "logEvidence")
    /\ UNCHANGED <<log, runs, report, at, attempt, result>>

\* Variant: one attempt more than the policy grants.
LogEvidenceOnceMore(c) ==
    /\ pc[c] = "logEvidence"
    /\ AppendEvent("evidence", at[c])
    /\ Goto(c, IF result[c].passed \/ attempt[c] > Current(c).attempts
               THEN "logStage" ELSE "begin")
    /\ UNCHANGED <<record, runs, report, copy, at, attempt, result>>

LogEvidence(c) ==
    /\ pc[c] = "logEvidence"
    /\ AppendEvent("evidence", at[c])
    /\ Goto(c, IF result[c].passed \/ attempt[c] = Current(c).attempts
               THEN "logStage" ELSE "begin")
    /\ UNCHANGED <<record, runs, report, copy, at, attempt, result>>

LogStage(c) ==
    /\ pc[c] = "logStage"
    /\ AppendEvent(Status(copy[c], at[c]), at[c])
    /\ Goto(c, "next")
    /\ UNCHANGED <<record, runs, report, copy, at, attempt, result>>

-----------------------------------------------------------------------------
(***************************************************************************)
(* _attempt and _execute_stage: what the tools answer, and the evidence.   *)
(***************************************************************************)
\* The Run of the source Stage, as the caller's copy knows it.
Source(c) == copy[c].stages[Current(c).source].run

HasSource(c) == Current(c).source # 0 => Source(c) # NoKey

Calls(c) == pc[c] = "call" /\ Current(c).node \in ProviderNodes /\ HasSource(c)

\* handoff holds the lock of its key for as long as the target Run takes.
Locked(c) ==
    /\ Current(c).node = "handoff"
    /\ \E o \in Callers \ {c} : pc[o] \in {"launch", "inside"} /\ KeyOf(o) = KeyOf(c)

\* The artifacts that the plan of a new Run declares: those of the Stage, those of the
\* source's plan for a resume, and none for a handoff, whose request has no such field.
Declared(c) ==
    CASE Current(c).node = "native_run" -> Current(c).expects
      [] Current(c).node = "native_resume" -> runs[Source(c)].expects
      [] OTHER -> {}

SetRun(k, run) == runs' = [runs EXCEPT ![k] = run]

\* FileNotFoundError, KeyError, OSError and ValueError are the attempt's evidence: it
\* has failed, and no Run is recorded for it.  A source without a Run is one of them.
Fails(c) ==
    /\ pc[c] \in {"call", "inside", "evidence"}
    /\ Current(c).node # "finish"
    /\ result' = [result EXCEPT ![c] = NoResult]
    /\ Goto(c, "complete")
    /\ UNCHANGED <<record, log, runs, report, copy, at, attempt>>

SourceMissing(c) == pc[c] = "call" /\ ~HasSource(c) /\ Fails(c)

ToolFails(c) == Fails(c) /\ HasSource(c)

\* A HarnessError or a ProviderUnavailableError is none of them: no session to resume,
\* no artifact to hand off, no binary.  It leaves execute, and the record as it is.
Escapes(c) ==
    /\ Goto(c, "raised")
    /\ UNCHANGED <<record, log, runs, report, copy, at, attempt, result>>

ToolEscapes(c) == Calls(c) /\ Escapes(c)

LockTimesOut(c) == Calls(c) /\ Locked(c) /\ Escapes(c)

\* Variant: only a Run that succeeded answers its key, the next attempt binds a new one.
BindUnlessSucceeded(c) ==
    /\ Calls(c) /\ ~Locked(c)
    /\ runs[KeyOf(c)].state \notin {"planned", "running", "succeeded"}
    /\ SetRun(KeyOf(c), PlannedRun(Current(c).task, Declared(c)))
    /\ Goto(c, "launch")
    /\ UNCHANGED <<record, log, report, copy, at, attempt, result>>

Bind(c) ==
    /\ Calls(c) /\ ~Locked(c)
    /\ runs[KeyOf(c)].state = "none"
    /\ SetRun(KeyOf(c), PlannedRun(Current(c).task, Declared(c)))
    /\ Goto(c, "launch")
    /\ UNCHANGED <<record, log, report, copy, at, attempt, result>>

\* Variants: a later attempt waits for the end of its Run; a key answers any request.
ReplayEnded(c) ==
    /\ Calls(c) /\ ~Locked(c)
    /\ runs[KeyOf(c)].state \in EndedRun
    /\ runs[KeyOf(c)].task = Current(c).task
    /\ result' = [result EXCEPT ![c].run = KeyOf(c)]
    /\ Goto(c, "evidence")
    /\ UNCHANGED <<record, log, runs, report, copy, at, attempt>>

ReplayAny(c) ==
    /\ Calls(c) /\ ~Locked(c)
    /\ runs[KeyOf(c)].state # "none"
    /\ result' = [result EXCEPT ![c].run = KeyOf(c)]
    /\ Goto(c, "evidence")
    /\ UNCHANGED <<record, log, runs, report, copy, at, attempt>>

\* The Run the key is bound to is the answer, in whatever state it is.
Replay(c) ==
    /\ Calls(c) /\ ~Locked(c)
    /\ runs[KeyOf(c)].state # "none"
    /\ runs[KeyOf(c)].task = Current(c).task
    /\ result' = [result EXCEPT ![c].run = KeyOf(c)]
    /\ Goto(c, "evidence")
    /\ UNCHANGED <<record, log, runs, report, copy, at, attempt>>

Conflict(c) ==
    /\ Calls(c) /\ ~Locked(c)
    /\ runs[KeyOf(c)].state # "none"
    /\ runs[KeyOf(c)].task # Current(c).task
    /\ Escapes(c)

\* A launch that fails is a Run that fails at once.
Launch(c) ==
    /\ pc[c] = "launch"
    /\ SetRun(KeyOf(c), [runs[KeyOf(c)] EXCEPT !.state = "running"])
    /\ Goto(c, "inside")
    /\ UNCHANGED <<record, log, report, copy, at, attempt, result>>

Attended(k) == \E c \in Callers : pc[c] = "inside" /\ KeyOf(c) = k

Reports == {{}} \cup {{n} : n \in Counts}

\* The executor writes its verdict over whatever the record says by now.  The provider
\* may have written the report; a success has every declared artifact.
RunEnds(k) ==
    /\ Attended(k) /\ runs[k].verdict = "none"
    /\ \E v \in EndedRun : SetRun(k, EndedAs(runs[k], v))
    /\ report' \in Reports
    /\ runs'[k].state = "succeeded" /\ BlockerPath \in runs[k].expects => report' # {}
    /\ UNCHANGED <<record, log, callerVars>>

\* A client that found the Run running writes "stale" or "cancelled", without an exit
\* code: the status call of another caller's evidence, or anybody else.  Its write may
\* come late, over the verdict, or for a Run whose executor has died.
RunOverwritten(k) ==
    /\ runs[k].state \in {"running", "succeeded", "blocked"}
    /\ SetRun(k, [runs[k] EXCEPT !.state = "failed"])
    /\ UNCHANGED <<record, log, report, callerVars>>

\* The call returns when its executor has concluded.
Return(c) ==
    /\ pc[c] = "inside"
    /\ runs[KeyOf(c)].verdict # "none"
    /\ result' = [result EXCEPT ![c].run = KeyOf(c)]
    /\ Goto(c, "evidence")
    /\ UNCHANGED <<record, log, runs, report, copy, at, attempt>>

\* Variant: the criterion about the Run's status is left out.
RunEvidenceByExit(s, k, found) ==
    /\ s.process => runs[k].state \in {"succeeded", "blocked"}
    /\ found

\* run_evidence: the criteria about the Run, as its record stands on disk, and whether
\* the required files are there now, which other tools of the workspace decide.
RunEvidence(s, k, found) ==
    /\ s.process => runs[k].state \in {"succeeded", "blocked"}
    /\ s.semantic => runs[k].state = "succeeded"
    /\ found

\* The report counts only if the plan of the source Run declares it.
BlockerCount(s, k) ==
    s.reads \subseteq runs[k].expects /\ \E n \in report : n <= s.blockers

ValidatorEvidence(s, k, found) ==
    CASE s.validator = "run_evidence" -> RunEvidence(s, k, found)
      [] s.validator = "artifact_presence" -> found
      [] s.validator = "blocker_count" -> BlockerCount(s, k)

Judge(c, passed) ==
    /\ result' = [result EXCEPT ![c].passed = passed]
    /\ Goto(c, "complete")
    /\ UNCHANGED <<record, log, runs, report, copy, at, attempt>>

Evaluate(c) ==
    \/ /\ pc[c] = "evidence"
       /\ \E found \in BOOLEAN : Judge(c, RunEvidence(Current(c), KeyOf(c), found))
    \/ /\ pc[c] = "call" /\ Current(c).node = "validator" /\ HasSource(c)
       /\ \E found \in BOOLEAN : Judge(c, ValidatorEvidence(Current(c), Source(c), found))
    \/ /\ pc[c] = "call" /\ Current(c).node = "finish"
       /\ Judge(c, ConditionSatisfied(copy[c], Current(c)))

-----------------------------------------------------------------------------
Crash(c) ==
    /\ c \in Crashable
    /\ pc[c] \notin Away
    /\ Goto(c, "crashed")
    /\ UNCHANGED <<record, log, runs, report, copy, at, attempt, result>>

Execute(c) ==
    \/ Create(c) \/ LogCreated(c) \/ Start(c) \/ LogStarted(c)
    \/ NextStage(c) \/ Close(c) \/ LogClosed(c)
    \/ Skip(c) \/ LogSkipped(c) \/ Begin(c) \/ LogBegun(c)
    \/ Complete(c) \/ LogEvidence(c) \/ LogStage(c)
    \/ SourceMissing(c) \/ Bind(c) \/ Replay(c) \/ Conflict(c) \/ Launch(c)
    \/ LockTimesOut(c) \/ Return(c) \/ Evaluate(c)

Trouble(c) == ToolFails(c) \/ ToolEscapes(c) \/ Crash(c)

Next ==
    \/ \E c \in Callers :
        \/ \E d \in Catalogue : CallFirst(c, d)
        \/ CallAgain(c) \/ CallOther(c)
        \/ Execute(c) \/ Trouble(c)
    \/ \E k \in BoundKeys : RunEnds(k) \/ RunOverwritten(k)

Spec == Init /\ [][Next]_vars

\* A caller is a running thread.  That the Run it is inside of ends is not assumed: a
\* helper of the provider may hold its executor for ever (RunConcludes of RunLifecycle).
Fairness == \A c \in Callers : WF_vars(Execute(c))

FairSpec == Spec /\ Fairness

-----------------------------------------------------------------------------
(***************************************************************************)
(* Properties.                                                             *)
(***************************************************************************)
Final == {"succeeded", "failed"}

StageRecordOK(s) ==
    /\ DOMAIN s = {"status", "attempts", "run"}
    /\ s.status \in StageStatus /\ s.attempts \in 0..MaxAttempts
    /\ s.run \in BoundKeys \cup {NoKey}

RecordOK(r) ==
    \/ r = NoRecord
    \/ /\ DOMAIN r = DOMAIN NoRecord
       /\ r.definition \in Catalogue /\ r.status \in StrategyStatus \ {"none"}
       /\ DOMAIN r.stages = 1..Len(r.definition)
       /\ \A i \in DOMAIN r.stages : StageRecordOK(r.stages[i])
       /\ r.current \in 0..Len(r.definition)

\* The type invariant: every variable keeps its shape, and no Stage is attempted more
\* often than its policy and the schema (StrategyStageRecord.attempts) allow.
TypeOK ==
    /\ RecordOK(record)
    /\ \A ev \in log : ev.stage \in 0..MaxStages
    /\ \A k \in BoundKeys :
        runs[k].state \in RunState /\ runs[k].verdict \in EndedRun \cup {"none"}
    /\ report \in Reports
    /\ \A c \in Callers :
        /\ pc[c] \in CallerPc /\ RecordOK(copy[c])
        /\ pc[c] \notin Away \cup {"create", "logCreated", "start", "logStarted"}
            => at[c] \in 1..Len(copy[c].definition)
        /\ attempt[c] \in 0..MaxAttempts
        /\ attempt[c] > 0 => attempt[c] <= Current(c).attempts
        /\ result[c].run \in BoundKeys \cup {NoKey} /\ result[c].passed \in BOOLEAN

\* strategy-runtime.md "A native Stage is successful only when required criteria are
\* backed by normalized Run evidence": the Run that a succeeded Stage names is the one
\* bound to its key, for its request, and its executor concluded what the criteria
\* demand, whatever a status or cancel call has written over that since; a blocker gate
\* that passed had a declared report of its source Run.
StageIsEarned(r, i) ==
    LET s == r.definition[i]
        k == r.stages[i].run
    IN  r.stages[i].status = "succeeded" =>
        /\ s.node \in ProviderNodes =>
            /\ k = [stage |-> i, node |-> s.node]
            /\ runs[k].task = s.task
            /\ s.semantic => runs[k].verdict = "succeeded"
            /\ s.process => runs[k].verdict \in {"succeeded", "blocked"}
        /\ s.validator = "blocker_count" =>
            s.reads \subseteq runs[r.stages[s.source].run].expects

\* A succeeded Strategy, whoever executed it and whoever overwrote it, has a last
\* Stage that succeeded, and every Stage that succeeded did so on evidence and after
\* dependencies that stand in the same record as its run condition wants them.
SuccessIsEarned ==
    record.status = "succeeded" =>
        /\ Status(record, Len(record.stages)) = "succeeded"
        /\ \A i \in 1..Len(record.stages) :
            /\ Status(record, i) \in {"succeeded", "failed", "skipped"}
            /\ StageIsEarned(record, i)
            /\ Status(record, i) # "skipped"
                => ConditionSatisfied(record, record.definition[i])

\* With one caller at a time: no Run is bound for a Stage whose run condition the
\* record does not show satisfied, or that lies behind a Stage whose failure stops
\* the Strategy.
RunsAreJustified ==
    \A k \in BoundKeys : runs[k].state # "none" =>
        /\ k.stage <= Len(record.stages)
        /\ ConditionSatisfied(record, record.definition[k.stage])
        /\ \A i \in 1..(k.stage - 1) :
            Status(record, i) = "failed" => record.definition[i].action = "continue"

\* With one caller at a time: the log never runs ahead of the record.
LogFollowsRecord ==
    \A ev \in log :
        /\ ev.message \in {"succeeded", "skipped"} /\ ev.stage # 0 =>
            Status(record, ev.stage) = ev.message
        /\ ev.message = "succeeded" /\ ev.stage = 0 => record.status = "succeeded"
        /\ ev.message = "attempt started" => record.stages[ev.stage].attempts > 0

\* What StrategyContract sees of a record.
Seen(r) == [i \in DOMAIN r.stages |-> r.stages[i].status]

Stopping(r) == [i \in DOMAIN r.stages |-> r.definition[i].action = "stop"]

\* With one caller at a time, the record implements StrategyContract.
Contract == INSTANCE StrategyContract WITH
    status <- record.status, stages <- Seen(record), stopping <- Stopping(record)

ImplementsContract == Contract!Spec

\* For any callers: the keys of the Stages keep the promise of a retry token, which
\* IdempotentOperations keeps for the tools themselves.
Once == INSTANCE OnceContract WITH
    Key <- BoundKeys, None <- <<>>,
    Request <- UNION {{<<d[i].task>> : i \in 1..Len(d)} : d \in Catalogue},
    decided <- [k \in BoundKeys |-> IF runs[k].state = "none" THEN <<>> ELSE <<runs[k].task>>],
    launches <- [k \in BoundKeys |-> IF runs[k].state \in {"none", "planned"} THEN 0 ELSE 1]

ImplementsOnce == Once!Spec

\* How far a caller in execute is from its end: the Stages and attempts that are left,
\* and within an attempt the place.
Rank == [logClosed |-> 1, close |-> 2, next |-> 3, logSkipped |-> 4, logStage |-> 4,
         begin |-> 5, logEvidence |-> 6, complete |-> 7, evidence |-> 8, inside |-> 9,
         launch |-> 10, call |-> 11, logBegun |-> 12, stage |-> 13, logStarted |-> 14,
         start |-> 15, logCreated |-> 16, create |-> 17]

Weight(i, n, rank) == ((MaxStages - i) * (MaxAttempts + 1) + (MaxAttempts - n)) * 20 + rank

Remaining(place, i, n) ==
    CASE place \in Away -> 0
      [] place \in {"close", "logClosed"} -> Rank[place]
      [] place \in {"create", "logCreated", "start", "logStarted"} -> Weight(0, 0, Rank[place])
      [] OTHER -> Weight(i, n, Rank[place])

\* execute cannot go in circles: every step of a caller brings it nearer to the end of
\* its call, and no step of another caller or of a Run takes it back, whatever they
\* write.  So a call takes at most Weight(0, 0, 17) steps of its own.
ExecuteAdvances ==
    [][ \A c \in Callers :
            pc[c] \notin Away =>
                \/ UNCHANGED <<pc[c], copy[c], at[c], attempt[c], result[c]>>
                \/ Remaining(pc'[c], at'[c], attempt'[c]) < Remaining(pc[c], at[c], attempt[c])
      ]_vars

\* Under FairSpec, with one caller at a time: execute ends, and unless it was left
\* by an error or its process died, the Strategy has its verdict on disk; only a Run
\* that never ends keeps a call from its end.
ExecuteConcludes ==
    \A c \in Callers :
        pc[c] \notin Away ~>
            \/ pc[c] \in {"raised", "crashed"}
            \/ pc[c] = "returned" /\ record.status \in Final
            \/ [](pc[c] = "inside")

(***************************************************************************)
(* A statement of the repository that the code does not keep.              *)
(***************************************************************************)
\* "Codex resumes only when the verified blocker-count validator fails", "conditional
\* Codex resume only when verified blockers exist" (README): when the resume of a
\* Strategy that has a blocker gate is started, and nothing else failed, there is a
\* report with blockers.
ResumeOnlyForBlockers ==
    \A c \in Callers :
        pc[c] = "launch" /\ Current(c).node = "native_resume"
            => \E n \in report : n > 0

================================================================================
