------------------------------ MODULE RunLifecycle ------------------------------
(***************************************************************************)
(* One Run after it has been planned: the executor that owns the native    *)
(* process (NativeRunExecutor.execute), any number of concurrent status    *)
(* and cancel calls (HarnessService.status, HarnessService.cancel), the    *)
(* native process group itself, and the files they share: run.json         *)
(* (`record`), events.jsonl (`events`) and the evidence files.             *)
(*                                                                         *)
(* Every read or write of a shared file, and every system call, is a step  *)
(* of its own, because status and cancel run in other processes and take   *)
(* no lock.  One write of run.json is atomic here, as the replace of       *)
(* json_file_store.write_json is.                                          *)
(***************************************************************************)
EXTENDS Naturals, Sequences

CONSTANTS
    Clients,      \* concurrent status and cancel calls
    Executor,     \* the process inside NativeRunExecutor.execute
    Required,     \* evidence a success needs: result.md and declared artifacts
    Volatile,     \* the evidence other tools of the workspace may delete again
    MaxOutput,    \* provider output lines normalised into events, at most
    Crashable     \* the processes that may die at any step

ASSUME ExecutorAssumption == Executor \notin Clients
ASSUME EvidenceAssumption == Volatile \subseteq Required
ASSUME OutputAssumption == MaxOutput \in Nat

VARIABLES
    record,       \* the content of run.json
    events,       \* the content of events.jsonl
    slot,         \* slot[w]: the sequence number w computed and has yet to append, or 0
    leader,       \* the native process that Popen started
    helpers,      \* some other member of its process group lives and holds the pipes
    exitCode,     \* how the leader ended
    signals,      \* who has signalled the process group so far
    evidence,     \* the required files that now exist and are not empty
    epc,          \* where the executor is
    timedOut,     \* executor local: result of _wait_for_process
    current,      \* executor local: status of current_record
    checked,      \* executor local: evidence seen by the outcome collection
    outcome,      \* executor local: result of _terminal_outcome
    digest,       \* executor local: the artifacts collected for the terminal record
    output,       \* provider lines normalised so far
    cpc,          \* cpc[c]: where client c is
    report        \* report[c]: the liveness that c's last status call returned

processVars == <<leader, helpers, exitCode, signals>>
localVars   == <<timedOut, current, checked, outcome, digest, output>>
executorVars == <<epc, timedOut, current, checked, outcome, digest, output>>
clientVars  == <<cpc, report>>
logVars     == <<events, slot>>

vars == <<record, events, slot, leader, helpers, exitCode, signals, evidence,
          epc, timedOut, current, checked, outcome, digest, output, cpc, report>>

-----------------------------------------------------------------------------
Active == {"planned", "running"}

Terminal == {"succeeded", "failed", "blocked", "cancelled", "stale"}

RunStatus == Active \cup Terminal

FailureCode == {"none", "launch_failed", "timeout", "cancelled", "provider_exit",
                "evidence_missing", "process_missing"}

\* Ended by itself with code zero or another one, or by a signal; "none" before.
ExitCode == {"none", "zero", "nonzero", "sigterm", "sigkill"}

EventMessage == {"planned", "started", "output", "verified", "stale", "cancelled"}

\* What HarnessService.run and the executor log.
RunMessage == EventMessage \ {"stale", "cancelled"}

Event == [seq : Nat, message : EventMessage]

Liveness == {"none", "not_started", "running", "finished", "missing"}

Writers == Clients \cup {Executor}

\* The VerifiedArtifacts of a record: the required files found, and how many
\* events the digest of events.jsonl covers.
Artifacts == [found : SUBSET Required, covers : Nat]

NoArtifacts == [found |-> {}, covers |-> 0]

Outcome == [status : RunStatus, failure : FailureCode]

RunRecord == [status : RunStatus, failure : FailureCode, exit : ExitCode,
              tracked : BOOLEAN, artifacts : Artifacts]

\* A record as any call but the executor's last one writes it: without an exit code
\* and without verified artifacts.  `tracked` says whether it carries a pid.
OpenRecord(status, failure, tracked) ==
    [status |-> status, failure |-> failure, exit |-> "none",
     tracked |-> tracked, artifacts |-> NoArtifacts]

\* The record initial_record builds.
PlannedRecord == OpenRecord("planned", "none", FALSE)

\* The record written once the process has started.  It is the only running
\* record there ever is, so it is also the copy that a client which saw the Run
\* running, and the executor at its end, update and write back.
RunningRecord == OpenRecord("running", "none", TRUE)

LaunchFailedRecord == OpenRecord("failed", "launch_failed", FALSE)

StaleRecord == OpenRecord("stale", "process_missing", TRUE)

CancelledRecord == OpenRecord("cancelled", "cancelled", TRUE)

ExecutorPc == {"launch", "spawned", "started", "waiting", "grace", "killed",
               "draining", "output", "reading", "collecting", "verifying",
               "recollecting", "writing", "done", "crashed"}

ClientPc == {"idle", "probe", "signal", "writeStale", "writeCancelled",
             "logStale", "logCancelled"}

(***************************************************************************)
(* The shape of every variable.                                            *)
(***************************************************************************)
TypeOK ==
    /\ record \in RunRecord
    /\ events \in Seq(Event)
    /\ slot \in [Writers -> Nat]
    /\ leader \in {"none", "alive", "zombie", "reaped"}
    /\ helpers \in BOOLEAN
    /\ exitCode \in ExitCode
    /\ signals \subseteq {"cancel", "timeout", "outside"}
    /\ evidence \subseteq Required
    /\ epc \in ExecutorPc
    /\ timedOut \in BOOLEAN
    /\ current \in RunStatus
    /\ checked \subseteq Required
    /\ outcome \in Outcome
    /\ digest \in Artifacts
    /\ output \in 0..MaxOutput
    /\ cpc \in [Clients -> ClientPc]
    /\ report \in [Clients -> Liveness]

\* HarnessService.run has written plan.json, the planned record and its event.
Init ==
    /\ record = PlannedRecord
    /\ events = <<[seq |-> 1, message |-> "planned"]>>
    /\ slot = [w \in Writers |-> 0]
    /\ leader = "none"
    /\ helpers = FALSE
    /\ exitCode = "none"
    /\ signals = {}
    /\ evidence = {}
    /\ epc = "launch"
    /\ timedOut = FALSE
    /\ current = "planned"
    /\ checked = {}
    /\ outcome = [status |-> "planned", failure |-> "none"]
    /\ digest = NoArtifacts
    /\ output = 0
    /\ cpc = [c \in Clients |-> "idle"]
    /\ report = [c \in Clients |-> "none"]

-----------------------------------------------------------------------------
(***************************************************************************)
(* Appending to events.jsonl: append_run_event counts the lines of the     *)
(* file, and only then opens it again to append.                           *)
(***************************************************************************)
\* Variant: the first line has the number zero.
CountEventsFromZero(w) ==
    /\ slot[w] = 0
    /\ slot' = [slot EXCEPT ![w] = Len(events)]
    /\ UNCHANGED events

CountEvents(w) ==
    /\ slot[w] = 0
    /\ slot' = [slot EXCEPT ![w] = Len(events) + 1]
    /\ UNCHANGED events

WriteEvent(w, message) ==
    /\ slot[w] > 0
    /\ events' = Append(events, [seq |-> slot[w], message |-> message])
    /\ slot' = [slot EXCEPT ![w] = 0]

(***************************************************************************)
(* The native process group (outside src/: the Codex or OMX binary).       *)
(***************************************************************************)
GroupExists == leader \in {"alive", "zombie"} \/ helpers

\* The leader ends by itself, or by a SIGTERM that somebody sent: it may also
\* catch that signal, go on for a while, and end with a code of its own.
LeaderExits ==
    /\ leader = "alive"
    /\ leader' = "zombie"
    /\ exitCode' \in {"zero", "nonzero"}
                        \cup IF signals = {} THEN {} ELSE {"sigterm"}
    /\ UNCHANGED <<helpers, signals, record, evidence, logVars, executorVars, clientVars>>

\* The machine kills it: the out-of-memory killer, an operator.
KilledFromOutside ==
    /\ leader = "alive"
    /\ leader' = "zombie"
    /\ exitCode' \in {"sigterm", "sigkill"}
    /\ signals' = signals \cup {"outside"}
    /\ UNCHANGED <<helpers, record, evidence, logVars, executorVars, clientVars>>

\* The leader starts a process that inherits its group and its pipes.
ForkHelper ==
    /\ leader = "alive" /\ ~helpers
    /\ helpers' = TRUE
    /\ UNCHANGED <<leader, exitCode, signals, record, evidence, logVars,
                   executorVars, clientVars>>

HelpersExit ==
    /\ helpers
    /\ helpers' = FALSE
    /\ UNCHANGED <<leader, exitCode, signals, record, evidence, logVars,
                   executorVars, clientVars>>

ProduceEvidence ==
    /\ leader = "alive" \/ helpers
    /\ \E a \in Required \ evidence : evidence' = evidence \cup {a}
    /\ UNCHANGED <<record, processVars, logVars, executorVars, clientVars>>

\* Another Run, or the user, deletes a declared artifact of the workspace.
LoseEvidence ==
    /\ \E a \in Volatile \cap evidence : evidence' = evidence \ {a}
    /\ UNCHANGED <<record, processVars, logVars, executorVars, clientVars>>

\* With its parent dead the leader is reaped by init.
OrphanReaped ==
    /\ epc = "crashed" /\ leader = "zombie"
    /\ leader' = "reaped"
    /\ UNCHANGED <<helpers, exitCode, signals, record, evidence, logVars,
                   executorVars, clientVars>>

Environment ==
    \/ LeaderExits \/ KilledFromOutside \/ ForkHelper \/ HelpersExit
    \/ ProduceEvidence \/ LoseEvidence \/ OrphanReaped

-----------------------------------------------------------------------------
(***************************************************************************)
(* The executor: NativeRunExecutor.execute, one action per system call,    *)
(* file access or event.                                                   *)
(***************************************************************************)
Launch ==
    /\ epc = "launch"
    /\ leader' = "alive"
    /\ epc' = "spawned"
    /\ UNCHANGED <<helpers, exitCode, signals, record, evidence, logVars,
                   localVars, clientVars>>

\* Popen raises OSError: _persist_launch_failure, without an event.
LaunchFails ==
    /\ epc = "launch"
    /\ record' = LaunchFailedRecord
    /\ epc' = "done"
    /\ UNCHANGED <<processVars, evidence, logVars, localVars, clientVars>>

PublishRunning ==
    /\ epc = "spawned"
    /\ record' = RunningRecord
    /\ epc' = "started"
    /\ UNCHANGED <<processVars, evidence, logVars, localVars, clientVars>>

ExecutorAppends == epc \in {"started", "verifying"} \/ (epc = "output" /\ output < MaxOutput)

ExecutorCounts ==
    /\ ExecutorAppends
    /\ CountEvents(Executor)
    /\ UNCHANGED <<record, processVars, evidence, executorVars, clientVars>>

LogStarted ==
    /\ epc = "started"
    /\ WriteEvent(Executor, "started")
    /\ epc' = "waiting"
    /\ UNCHANGED <<record, processVars, evidence, localVars, clientVars>>

\* process.wait(timeout) raised: the whole group gets SIGTERM.  The leader may
\* have ended in between, but only the executor can reap it, so its group is
\* still there and the signal finds it.
TimeoutExpires ==
    /\ epc = "waiting" /\ leader \in {"alive", "zombie"}
    /\ timedOut' = TRUE
    /\ signals' = signals \cup {"timeout"}
    /\ epc' = "grace"
    /\ UNCHANGED <<leader, helpers, exitCode, record, evidence, logVars, current,
                   checked, outcome, digest, output, clientVars>>

\* Variant: the grace period ends without escalation.
GraceExpiresQuietly ==
    /\ epc = "grace" /\ leader = "zombie"
    /\ epc' = "killed"
    /\ UNCHANGED <<record, processVars, evidence, logVars, localVars, clientVars>>

\* Ten seconds later the group gets SIGKILL, which nothing survives.
GraceExpires ==
    /\ epc = "grace" /\ leader \in {"alive", "zombie"}
    /\ leader' = "zombie"
    /\ exitCode' = IF leader = "alive" THEN "sigkill" ELSE exitCode
    /\ helpers' = FALSE
    /\ epc' = "killed"
    /\ UNCHANGED <<signals, record, evidence, logVars, localVars, clientVars>>

\* process.wait returns and the pid is free.
Reap ==
    /\ epc \in {"waiting", "grace", "killed"} /\ leader = "zombie"
    /\ leader' = "reaped"
    /\ epc' = "draining"
    /\ UNCHANGED <<helpers, exitCode, signals, record, evidence, logVars,
                   localVars, clientVars>>

\* Both pipe readers reach the end of file once nobody holds the pipes.
Drain ==
    /\ epc = "draining" /\ ~helpers
    /\ epc' = "output"
    /\ UNCHANGED <<record, processVars, evidence, logVars, localVars, clientVars>>

\* record_provider_output, one line at a time.
LogOutput ==
    /\ epc = "output" /\ output < MaxOutput
    /\ WriteEvent(Executor, "output")
    /\ output' = output + 1
    /\ UNCHANGED <<record, processVars, evidence, epc, timedOut, current, checked,
                   outcome, digest, clientVars>>

OutputEnds ==
    /\ epc = "output" /\ slot[Executor] = 0
    /\ epc' = "reading"
    /\ UNCHANGED <<record, processVars, evidence, logVars, localVars, clientVars>>

\* current_record: the last look at what clients may have written.
ReadCurrent ==
    /\ epc = "reading"
    /\ current' = record.status
    /\ epc' = "collecting"
    /\ UNCHANGED <<record, processVars, evidence, logVars, timedOut, checked,
                   outcome, digest, output, clientVars>>

\* Variants of TerminalOutcome: the decision list with a test missing, or with two
\* of them in the other order.
OutcomeIgnoringCancellation(status, code, late, missing) ==
    IF late THEN [status |-> "failed", failure |-> "timeout"]
    ELSE IF code \in {"sigterm", "sigkill"}
        THEN [status |-> "cancelled", failure |-> "cancelled"]
    ELSE IF code # "zero" THEN [status |-> "failed", failure |-> "provider_exit"]
    ELSE IF missing # {} THEN [status |-> "blocked", failure |-> "evidence_missing"]
    ELSE [status |-> "succeeded", failure |-> "none"]

OutcomeSignalBeforeTimeout(status, code, late, missing) ==
    IF status = "cancelled" \/ code \in {"sigterm", "sigkill"}
        THEN [status |-> "cancelled", failure |-> "cancelled"]
    ELSE IF late THEN [status |-> "failed", failure |-> "timeout"]
    ELSE OutcomeIgnoringCancellation(status, code, late, missing)

OutcomeEvidenceBeforeExit(status, code, late, missing) ==
    IF status = "cancelled" THEN [status |-> "cancelled", failure |-> "cancelled"]
    ELSE IF ~late /\ missing # {}
        THEN [status |-> "blocked", failure |-> "evidence_missing"]
    ELSE OutcomeIgnoringCancellation(status, code, late, missing)

OutcomeWithoutEvidence(status, code, late, missing) ==
    IF status = "cancelled" THEN [status |-> "cancelled", failure |-> "cancelled"]
    ELSE OutcomeIgnoringCancellation(status, code, late, {})

\* The status and failure to record, from the status just read, the exit code,
\* whether the wait timed out, and the required evidence that is missing.
TerminalOutcome(status, code, late, missing) ==
    IF status = "cancelled"
        THEN [status |-> "cancelled", failure |-> "cancelled"]
    ELSE IF late
        THEN [status |-> "failed", failure |-> "timeout"]
    ELSE IF code \in {"sigterm", "sigkill"}
        THEN [status |-> "cancelled", failure |-> "cancelled"]
    ELSE IF code # "zero"
        THEN [status |-> "failed", failure |-> "provider_exit"]
    ELSE IF missing # {}
        THEN [status |-> "blocked", failure |-> "evidence_missing"]
    ELSE [status |-> "succeeded", failure |-> "none"]

CollectAndDecide ==
    /\ epc = "collecting"
    /\ checked' = evidence
    /\ outcome' = TerminalOutcome(current, exitCode, timedOut, Required \ evidence)
    /\ epc' = "verifying"
    /\ UNCHANGED <<record, processVars, evidence, logVars, timedOut, current,
                   digest, output, clientVars>>

LogVerified ==
    /\ epc = "verifying"
    /\ WriteEvent(Executor, "verified")
    /\ epc' = "recollecting"
    /\ UNCHANGED <<record, processVars, evidence, localVars, clientVars>>

\* Variant: the terminal record reuses the artifacts of the outcome collection.
RecollectReused ==
    /\ epc = "recollecting"
    /\ digest' = [found |-> checked, covers |-> Len(events) - 1]
    /\ epc' = "writing"
    /\ UNCHANGED <<record, processVars, evidence, logVars, timedOut, current,
                   checked, outcome, output, clientVars>>

\* Collected again, so that the digest covers the event just appended.
Recollect ==
    /\ epc = "recollecting"
    /\ digest' = [found |-> evidence, covers |-> Len(events)]
    /\ epc' = "writing"
    /\ UNCHANGED <<record, processVars, evidence, logVars, timedOut, current,
                   checked, outcome, output, clientVars>>

\* The terminal record updates the executor's own running_record, not the file.
PublishTerminal ==
    /\ epc = "writing"
    /\ record' = [status |-> outcome.status, failure |-> outcome.failure,
                  exit |-> exitCode, tracked |-> RunningRecord.tracked,
                  artifacts |-> digest]
    /\ epc' = "done"
    /\ UNCHANGED <<processVars, evidence, logVars, localVars, clientVars>>

\* The process running the executor is killed.  Whatever it had not written is
\* lost; the native process is in a session of its own and goes on.
ExecutorCrashes ==
    /\ Executor \in Crashable
    /\ epc \notin {"done", "crashed"}
    /\ epc' = "crashed"
    /\ slot' = [slot EXCEPT ![Executor] = 0]
    /\ UNCHANGED <<record, processVars, evidence, events, localVars, clientVars>>

ExecutorStep ==
    \/ Launch \/ LaunchFails \/ PublishRunning
    \/ ExecutorCounts \/ LogStarted
    \/ TimeoutExpires \/ GraceExpires \/ Reap \/ Drain
    \/ LogOutput \/ OutputEnds
    \/ ReadCurrent \/ CollectAndDecide \/ LogVerified \/ Recollect
    \/ PublishTerminal

-----------------------------------------------------------------------------
(***************************************************************************)
(* Clients: HarnessService.status and HarnessService.cancel.  A call that  *)
(* only reads and returns changes nothing but its own report.              *)
(***************************************************************************)
\* Variant: status believes a running record without looking for the process.
StatusReadOnly(c) ==
    /\ cpc[c] = "idle"
    /\ report' = [report EXCEPT ![c] = "running"]
    /\ UNCHANGED <<record, processVars, evidence, logVars, executorVars, cpc>>

\* status reads run.json.  For a Run that is not running, process_liveness
\* answers from the status and asks no process.
StatusRead(c) ==
    /\ cpc[c] = "idle"
    /\ IF record.status = "running"
       THEN /\ cpc' = [cpc EXCEPT ![c] = "probe"]
            /\ UNCHANGED report
       ELSE /\ report' = [report EXCEPT ![c] = IF record.status = "planned"
                                               THEN "not_started" ELSE "finished"]
            /\ UNCHANGED cpc
    /\ UNCHANGED <<record, processVars, evidence, logVars, executorVars>>

\* Variant: a process that has ended and waits to be reaped counts as missing.
StatusProbeAliveOnly(c) ==
    /\ cpc[c] = "probe"
    /\ cpc' = [cpc EXCEPT ![c] = IF leader = "alive" THEN "idle" ELSE "writeStale"]
    /\ UNCHANGED <<record, processVars, evidence, logVars, executorVars, report>>

\* os.kill(pid, 0) finds every process that nobody has reaped yet.
StatusProbe(c) ==
    /\ cpc[c] = "probe"
    /\ IF leader \in {"alive", "zombie"}
       THEN /\ report' = [report EXCEPT ![c] = "running"]
            /\ cpc' = [cpc EXCEPT ![c] = "idle"]
       ELSE /\ cpc' = [cpc EXCEPT ![c] = "writeStale"]
            /\ UNCHANGED report
    /\ UNCHANGED <<record, processVars, evidence, logVars, executorVars>>

\* Variant: cancel asks for a pid, and not for a running status.
CancelReadAnyStatus(c) ==
    /\ cpc[c] = "idle"
    /\ record.tracked
    /\ cpc' = [cpc EXCEPT ![c] = "signal"]
    /\ UNCHANGED <<record, processVars, evidence, logVars, executorVars, report>>

\* cancel returns at once unless the record it reads is running with a pid.
CancelRead(c) ==
    /\ cpc[c] = "idle"
    /\ record.status = "running" /\ record.tracked
    /\ cpc' = [cpc EXCEPT ![c] = "signal"]
    /\ report' = [report EXCEPT ![c] = "none"]
    /\ UNCHANGED <<record, processVars, evidence, logVars, executorVars>>

\* SIGTERM to the group, or ProcessLookupError when no member is left.
CancelSignal(c) ==
    /\ cpc[c] = "signal"
    /\ cpc' = [cpc EXCEPT ![c] = IF GroupExists THEN "writeCancelled" ELSE "writeStale"]
    /\ signals' = IF GroupExists THEN signals \cup {"cancel"} ELSE signals
    /\ UNCHANGED <<leader, helpers, exitCode, record, evidence, logVars,
                   executorVars, report>>

WriteCancelled(c) ==
    /\ cpc[c] = "writeCancelled"
    /\ record' = CancelledRecord
    /\ cpc' = [cpc EXCEPT ![c] = "logCancelled"]
    /\ UNCHANGED <<processVars, evidence, logVars, executorVars, report>>

\* persist_missing_process, from either call.
WriteStale(c) ==
    /\ cpc[c] = "writeStale"
    /\ record' = StaleRecord
    /\ cpc' = [cpc EXCEPT ![c] = "logStale"]
    /\ UNCHANGED <<processVars, evidence, logVars, executorVars, report>>

ClientCounts(c) ==
    /\ cpc[c] \in {"logStale", "logCancelled"}
    /\ CountEvents(c)
    /\ UNCHANGED <<record, processVars, evidence, executorVars, clientVars>>

ClientLogs(c) ==
    /\ \/ cpc[c] = "logStale" /\ WriteEvent(c, "stale")
       \/ cpc[c] = "logCancelled" /\ WriteEvent(c, "cancelled")
    /\ cpc' = [cpc EXCEPT ![c] = "idle"]
    /\ report' = [report EXCEPT ![c] = IF cpc[c] = "logStale" THEN "missing" ELSE "none"]
    /\ UNCHANGED <<record, processVars, evidence, executorVars>>

ClientCrashes(c) ==
    /\ c \in Crashable
    /\ cpc[c] # "idle"
    /\ cpc' = [cpc EXCEPT ![c] = "idle"]
    /\ slot' = [slot EXCEPT ![c] = 0]
    /\ UNCHANGED <<record, processVars, evidence, events, executorVars, report>>

Poll(c) == StatusRead(c) \/ StatusProbe(c) \/ WriteStale(c) \/ ClientCounts(c) \/ ClientLogs(c)

Cancel(c) == CancelRead(c) \/ CancelSignal(c) \/ WriteCancelled(c)

Next ==
    \/ Environment
    \/ ExecutorStep
    \/ ExecutorCrashes
    \/ \E c \in Clients : Poll(c) \/ Cancel(c) \/ ClientCrashes(c)

Spec == Init /\ [][Next]_vars

\* The executor is a running thread, and a call of status is repeated by every
\* observer.  There is no fairness for the native processes: nothing in the code
\* makes the leader end before its time, or a helper let go of the pipes.
Fairness ==
    /\ WF_vars(ExecutorStep)
    /\ WF_vars(OrphanReaped)
    /\ \A c \in Clients : WF_vars(Poll(c) \/ CancelSignal(c) \/ WriteCancelled(c))

FairSpec == Spec /\ Fairness

-----------------------------------------------------------------------------
(***************************************************************************)
(* Safety.                                                                 *)
(***************************************************************************)
Reaped == leader = "reaped" /\ ~helpers

\* README "A provider process exiting with code zero is not enough": a Run is
\* recorded as succeeded only after its whole process group has gone, with code
\* zero and within its time, when every required file was seen; and whatever
\* nobody else can delete is in the recorded artifacts.
SucceededIsProven ==
    record.status = "succeeded" =>
        /\ Reaped
        /\ exitCode = "zero" /\ record.exit = "zero"
        /\ ~timedOut
        /\ checked = Required
        /\ Required \ Volatile \subseteq record.artifacts.found

\* Only a process that has gone is reported as missing (persist_missing_process
\* runs on a dead pid): a stale Run has no live leader, and never will.
StaleMeansGone == record.status = "stale" => leader = "reaped"

\* A Run is recorded as cancelled only if a cancel call, or somebody outside,
\* signalled it; a SIGTERM the harness sent for its own timeout never counts.
CancelledWasSignalled ==
    record.status = "cancelled" => signals \cap {"cancel", "outside"} # {}

\* The failure code names the cause: a timeout the wait really ran into, an exit
\* code that is neither zero nor a signal, evidence that really was absent.
FailureIsDiagnosed ==
    /\ record.failure = "timeout" => timedOut /\ record.exit # "none"
    /\ record.failure = "provider_exit" => exitCode = "nonzero" /\ ~timedOut
    /\ record.failure = "evidence_missing" => exitCode = "zero" /\ checked # Required
    /\ record.failure = "launch_failed" => leader = "none"

\* "Recollect after the terminal append so events metadata covers final bytes":
\* the digest of a terminal record written by the executor covers every event the
\* executor itself appended, whatever clients appended in between.
DigestCoversVerification ==
    record.exit # "none" =>
        \E i \in 1..record.artifacts.covers : events[i].message = "verified"

\* "Append one ordered normalized event to a run" (append_run_event), as far as it goes:
\* a client may give its line the number of another, but no number is ahead of its
\* line, and what a Run logs of itself and its provider has numbers that rise, so that
\* the Attention item of a provider event names one of them (_event_attention).
EventsAreNumbered ==
    /\ \A i \in 1..Len(events) : events[i].seq \in 1..i
    /\ \A i, j \in 1..Len(events) :
          i < j /\ events[i].message \in RunMessage /\ events[j].message \in RunMessage
              => events[i].seq < events[j].seq

\* A cancellation that is on disk when the executor looks stays the verdict: it
\* is replaced only by an executor that had looked before, or by another client
\* that found no process.
CancellationSticks ==
    [][ record.status = "cancelled" /\ record'.status # "cancelled"
        => \/ record'.status = "stale"
           \/ epc = "writing" /\ current # "cancelled" ]_vars

(***************************************************************************)
(* RunLifecycle implements RunContract: the writers are the executor until *)
(* it is done, and the clients between their read and their write.         *)
(***************************************************************************)
WritersNow ==
    (IF epc \in {"done", "crashed"} THEN {} ELSE {Executor})
        \cup {c \in Clients : cpc[c] \in {"probe", "signal", "writeStale", "writeCancelled"}}

Contract == INSTANCE RunContract WITH status <- record.status, writers <- WritersNow

ImplementsContract == Contract!Spec

(***************************************************************************)
(* Liveness, under FairSpec.                                               *)
(***************************************************************************)
Concluded == epc = "done" /\ record.status \in Terminal

\* The wait for the end of the pipes has no timeout: a helper that outlives its
\* leader holds the executor in it for as long as it keeps them open.
HeldByHelper == epc = "draining" /\ helpers

\* Timeouts bound the leader, whatever it does: an executor that lives finishes with
\* a terminal record, unless a helper holds the pipes for ever; and one that lets
\* go in the end does not keep the Run from its verdict.
RunConcludes == <>(epc = "crashed" \/ Concluded) \/ <>[]HeldByHelper

\* README "reconciles durable Run records with actual process liveness": a Run
\* that was running when its executor died is polled into a terminal record once
\* its process has gone.
CrashIsReconciled ==
    epc = "crashed" /\ record.status = "running" /\ leader = "reaped"
        ~> record.status \in Terminal

(***************************************************************************)
(* A statement of the repository that the code does not keep; it is        *)
(* violated under its own configuration.                                   *)
(***************************************************************************)
\* "recorded process is no longer running without terminal evidence" (the failure
\* a stale record carries): there was no terminal record to lose.
StaleLosesNoEvidence ==
    [][ record'.status = "stale" => record.exit = "none" ]_vars

================================================================================
