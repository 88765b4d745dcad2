----------------------------- MODULE DetachedLaunch -----------------------------
(***************************************************************************)
(* A call that is handed to a detached worker: DetachedStrategyService     *)
(* .start and the worker it starts (strategy_worker.execute_strategy), for *)
(* one strategy_id.  Starters are processes that call start once each, at  *)
(* any time; the worker is a process of its own that outlives them.  They  *)
(* share the files of the Strategy's directory: the request, the launch    *)
(* envelope, the streams of the worker and its result.  A detached         *)
(* operation (DetachedOperationService._start, worker.execute_operation)   *)
(* goes through the same steps under a fresh id, so it is the case of one  *)
(* starter.  Each file access is a step.                                   *)
(***************************************************************************)
CONSTANTS
    Starters,      \* the calls of start
    Definitions,   \* what they ask for
    None,          \* no definition
    Crashable      \* the starters that may die, and whose worker may

ASSUME NoneAssumption == None \notin Definitions

VARIABLES
    request,       \* request.json
    launch,        \* launch.json: its status, and whose worker's pid it carries
    streams,       \* the worker's stdout and stderr files exist
    result,        \* result.json
    spc,           \* spc[s]: where call s is
    asked,         \* asked[s]: the definition it was called with
    answer,        \* answer[s]: the envelope it holds, which a return gives to its caller
    wpc,           \* wpc[s]: where the worker that s started is
    wanted,        \* wanted[s]: the definition this worker has read
    seen           \* seen[s]: the envelope it holds

starterVars == <<spc, asked, answer>>
workerVars == <<wpc, wanted, seen>>
vars == <<request, launch, streams, result, spc, asked, answer, wpc, wanted, seen>>

-----------------------------------------------------------------------------
Status == {"none", "queued", "running", "succeeded", "failed"}

Envelope == [status : Status, pid : SUBSET Starters]

NoEnvelope == [status |-> "none", pid |-> {}]

Queued == [status |-> "queued", pid |-> {}]

StarterPc == {"idle", "compare", "request", "queue", "touch", "popen", "publish", "fail",
              "returned", "raised", "crashed"}

WorkerPc == {"none", "begun", "waiting", "working", "result", "succeed", "fail", "done",
             "gaveUp", "crashed"}

Init ==
    /\ request = None /\ launch = NoEnvelope /\ streams = FALSE /\ result = None
    /\ spc = [s \in Starters |-> "idle"]
    /\ asked = [s \in Starters |-> None]
    /\ answer = [s \in Starters |-> NoEnvelope]
    /\ wpc = [s \in Starters |-> "none"]
    /\ wanted = [s \in Starters |-> None]
    /\ seen = [s \in Starters |-> NoEnvelope]

-----------------------------------------------------------------------------
(***************************************************************************)
(* start.                                                                  *)
(***************************************************************************)
Goto(s, place) == spc' = [spc EXCEPT ![s] = place]

\* Variant: an envelope that is there does not end the call.
CheckIgnoring(s, d) ==
    /\ spc[s] = "idle"
    /\ asked' = [asked EXCEPT ![s] = d]
    /\ answer' = [answer EXCEPT ![s] = launch]
    /\ Goto(s, "request")
    /\ UNCHANGED <<request, launch, streams, result, workerVars>>

\* An envelope that is there is read and then compared; otherwise the directory is
\* this call's to fill, and of every other call that finds no envelope.
Check(s, d) ==
    /\ spc[s] = "idle"
    /\ asked' = [asked EXCEPT ![s] = d]
    /\ answer' = [answer EXCEPT ![s] = launch]
    /\ Goto(s, IF launch.status = "none" THEN "request" ELSE "compare")
    /\ UNCHANGED <<request, launch, streams, result, workerVars>>

Compare(s) ==
    /\ spc[s] = "compare"
    /\ Goto(s, IF request = asked[s] THEN "returned" ELSE "raised")
    /\ UNCHANGED <<request, launch, streams, result, asked, answer, workerVars>>

WriteRequest(s) ==
    /\ spc[s] = "request"
    /\ request' = asked[s]
    /\ Goto(s, "queue")
    /\ UNCHANGED <<launch, streams, result, asked, answer, workerVars>>

WriteQueued(s) ==
    /\ spc[s] = "queue"
    /\ launch' = Queued
    /\ Goto(s, "touch")
    /\ UNCHANGED <<request, streams, result, asked, answer, workerVars>>

\* Variant: the stream files may be there already.
TouchAny(s) ==
    /\ spc[s] = "touch"
    /\ streams' = TRUE /\ Goto(s, "popen")
    /\ UNCHANGED <<request, launch, result, asked, answer, workerVars>>

\* touch with exist_ok=False, outside the try: the only exclusive step.
Touch(s) ==
    /\ spc[s] = "touch"
    /\ IF streams
       THEN Goto(s, "raised") /\ UNCHANGED streams
       ELSE Goto(s, "popen") /\ streams' = TRUE
    /\ UNCHANGED <<request, launch, result, asked, answer, workerVars>>

Popen(s) ==
    /\ spc[s] = "popen"
    /\ wpc' = [wpc EXCEPT ![s] = "begun"]
    /\ Goto(s, "publish")
    /\ UNCHANGED <<request, launch, streams, result, asked, answer, wanted, seen>>

PopenFails(s) ==
    /\ spc[s] = "popen"
    /\ Goto(s, "fail")
    /\ UNCHANGED <<request, launch, streams, result, asked, answer, workerVars>>

Publish(s, envelope) ==
    /\ launch' = envelope
    /\ answer' = [answer EXCEPT ![s] = envelope]
    /\ Goto(s, "returned")
    /\ UNCHANGED <<request, streams, result, asked, workerVars>>

WriteRunning(s) == spc[s] = "publish" /\ Publish(s, [status |-> "running", pid |-> {s}])

WriteFailed(s) == spc[s] = "fail" /\ Publish(s, [status |-> "failed", pid |-> {}])

StarterCrashes(s) ==
    /\ s \in Crashable
    /\ spc[s] \notin {"idle", "returned", "raised", "crashed"}
    /\ Goto(s, "crashed")
    /\ UNCHANGED <<request, launch, streams, result, asked, answer, workerVars>>

-----------------------------------------------------------------------------
(***************************************************************************)
(* The worker that s started.                                              *)
(***************************************************************************)
WGoto(s, place) == wpc' = [wpc EXCEPT ![s] = place]

ReadRequest(s) ==
    /\ wpc[s] = "begun"
    /\ wanted' = [wanted EXCEPT ![s] = request]
    /\ WGoto(s, "waiting")
    /\ UNCHANGED <<request, launch, streams, result, starterVars, seen>>

\* Variant: the worker does not wait for its own pid.
SeeEnvelopeAny(s) ==
    /\ wpc[s] = "waiting"
    /\ seen' = [seen EXCEPT ![s] = launch]
    /\ WGoto(s, "working")
    /\ UNCHANGED <<request, launch, streams, result, starterVars, wanted>>

\* _wait_for_launch_record.
SeeEnvelope(s) ==
    /\ wpc[s] = "waiting"
    /\ launch.pid # {}
    /\ seen' = [seen EXCEPT ![s] = launch]
    /\ WGoto(s, "working")
    /\ UNCHANGED <<request, launch, streams, result, starterVars, wanted>>

\* Five seconds without a pid: the worker leaves, and writes nothing.
DeadlineExpires(s) ==
    /\ wpc[s] = "waiting"
    /\ launch.pid = {}
    /\ WGoto(s, "gaveUp")
    /\ UNCHANGED <<request, launch, streams, result, starterVars, wanted, seen>>

\* Variant: the verdict is written before the result.
WorkEndsAtOnce(s) ==
    /\ wpc[s] = "working"
    /\ \E place \in {"succeed", "fail"} : WGoto(s, place)
    /\ UNCHANGED <<request, launch, streams, result, starterVars, wanted, seen>>

\* execute returns, or it raises (as may the write of the result).
WorkEnds(s) ==
    /\ wpc[s] = "working"
    /\ \E place \in {"result", "fail"} : WGoto(s, place)
    /\ UNCHANGED <<request, launch, streams, result, starterVars, wanted, seen>>

WriteResult(s) ==
    /\ wpc[s] = "result"
    /\ result' = wanted[s]
    /\ WGoto(s, "succeed")
    /\ UNCHANGED <<request, launch, streams, starterVars, wanted, seen>>

\* Variants: the verdict of an error is not written.
WriteVerdictOfSuccess(s) ==
    /\ wpc[s] = "succeed"
    /\ launch' = [status |-> "succeeded", pid |-> seen[s].pid]
    /\ WGoto(s, "done")
    /\ UNCHANGED <<request, streams, result, starterVars, wanted, seen>>

\* The envelope the worker has seen, with its verdict; not the one on disk.
WriteVerdict(s) ==
    /\ wpc[s] \in {"succeed", "fail"}
    /\ launch' = [status |-> IF wpc[s] = "succeed" THEN "succeeded" ELSE "failed",
                  pid |-> seen[s].pid]
    /\ WGoto(s, "done")
    /\ UNCHANGED <<request, streams, result, starterVars, wanted, seen>>

WorkerCrashes(s) ==
    /\ s \in Crashable
    /\ wpc[s] \notin {"none", "done", "gaveUp", "crashed"}
    /\ WGoto(s, "crashed")
    /\ UNCHANGED <<request, launch, streams, result, starterVars, wanted, seen>>

-----------------------------------------------------------------------------
Start(s) ==
    \/ Compare(s) \/ WriteRequest(s) \/ WriteQueued(s) \/ Touch(s) \/ Popen(s)
    \/ PopenFails(s) \/ WriteRunning(s) \/ WriteFailed(s)

Work(s) ==
    \/ ReadRequest(s) \/ SeeEnvelope(s) \/ DeadlineExpires(s)
    \/ WorkEnds(s) \/ WriteResult(s) \/ WriteVerdict(s)

Next ==
    \E s \in Starters :
        \/ \E d \in Definitions : Check(s, d)
        \/ Start(s) \/ StarterCrashes(s) \/ Work(s) \/ WorkerCrashes(s)

Spec == Init /\ [][Next]_vars

\* Both are processes that run.  That what a worker executes ends is not assumed: a Run
\* may hold it for ever (ExecuteConcludes of StrategyRuntime).
FairSpec ==
    Spec /\ \A s \in Starters : WF_vars(Start(s)) /\ WF_vars(wpc[s] # "working" /\ Work(s))

-----------------------------------------------------------------------------
(***************************************************************************)
(* Properties.                                                             *)
(***************************************************************************)
DefinitionOrNone == Definitions \cup {None}

TypeOK ==
    /\ request \in DefinitionOrNone /\ result \in DefinitionOrNone
    /\ launch \in Envelope /\ streams \in BOOLEAN
    /\ spc \in [Starters -> StarterPc] /\ wpc \in [Starters -> WorkerPc]
    /\ asked \in [Starters -> DefinitionOrNone] /\ wanted \in [Starters -> DefinitionOrNone]
    /\ answer \in [Starters -> Envelope] /\ seen \in [Starters -> Envelope]

\* However many calls of start race, one strategy_id gets one worker: nothing locks
\* the directory, and the creation of the stream files decides.
OneWorker == \A s, t \in Starters : wpc[s] # "none" /\ wpc[t] # "none" => s = t

\* "launch metadata was not persisted" otherwise: a worker executes nothing before an
\* envelope that carries its own pid has been on disk.
WorkIsRecorded ==
    \A s \in Starters :
        wpc[s] \in {"working", "result", "succeed", "fail", "done"} => seen[s].pid = {s}

\* The envelope says succeeded only when the result of what the worker has read is there.
VerdictHasResult ==
    launch.status = "succeeded" =>
        \E s \in Starters : launch.pid = {s} /\ wpc[s] = "done" /\ result = wanted[s]

\* An envelope that says running gets the verdict of the worker it names, and a verdict
\* stays; both are lost only to a second call that had looked before the first one
\* wrote, and then the envelope says queued again.
EnvelopeGoesOn ==
    [][ launch.status \in {"running", "succeeded", "failed"} /\ launch' # launch =>
        \/ /\ launch.status = "running" /\ launch'.status \in {"succeeded", "failed"}
           /\ launch'.pid = launch.pid
        \/ /\ launch' = Queued
           /\ \E s \in Starters : spc[s] = "queue" /\ answer[s] = NoEnvelope ]_vars

\* DetachedLaunch implements LaunchContract: a worker executes from the moment it has
\* seen its envelope, and the verdict is given by it or by the call that cannot start it.
Begun == {s \in Starters : seen[s] # NoEnvelope}

Over ==
    \E s \in Starters : wpc[s] = "done" \/ answer[s].status \in {"succeeded", "failed"}

Contract == INSTANCE LaunchContract WITH
    status <- launch.status, executed <- {wanted[s] : s \in Begun}, over <- Over

ImplementsContract == Contract!Spec

\* Under FairSpec: an envelope that a call has queued or reported as running gets its
\* verdict, unless a process died, a worker gave up, a rival call raised, or the work
\* never ends.
LaunchConcludes ==
    launch.status \in {"queued", "running"} ~>
        \/ launch.status \in {"succeeded", "failed"}
        \/ \E s \in Starters : spc[s] \in {"crashed", "raised"} \/ wpc[s] \in {"crashed", "gaveUp"}
        \/ \E s \in Starters : [](wpc[s] = "working")

================================================================================
