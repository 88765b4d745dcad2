--------------------------- MODULE RunLifecycleProofs ---------------------------
(***************************************************************************)
(* Theorems about RunLifecycle, for every set of clients, every set of     *)
(* required evidence and every choice of processes that may crash.         *)
(***************************************************************************)
EXTENDS RunLifecycle, TLAPS, SequenceTheorems

-----------------------------------------------------------------------------
(***************************************************************************)
(* The inductive invariant, in named parts.                                *)
(***************************************************************************)
\* Where the native process is, for each place the executor can be.
ProcessInv ==
    /\ epc = "launch" => leader = "none"
    /\ epc \in {"spawned", "started", "waiting", "grace"} => leader \in {"alive", "zombie"}
    /\ epc = "killed" => leader = "zombie"
    /\ epc = "draining" => leader = "reaped"
    /\ epc \in {"output", "reading", "collecting", "verifying", "recollecting", "writing"}
          => Reaped
    /\ leader = "none" => epc \in {"launch", "done", "crashed"} /\ ~helpers
    /\ epc = "done" => leader = "none" \/ Reaped
    /\ exitCode = "none" <=> leader \in {"none", "alive"}

\* What the status on disk, and a client in flight, say about the process.
StatusInv ==
    /\ epc \in {"launch", "spawned"} => record.status = "planned"
    /\ record.status = "planned" => epc \in {"launch", "spawned", "crashed"}
    /\ record.status = "running" => leader # "none"
    /\ \A c \in Clients : cpc[c] \in {"probe", "signal", "writeStale", "writeCancelled"}
                             => leader # "none" /\ record.status # "planned"
    /\ \A c \in Clients : cpc[c] = "writeStale" => leader = "reaped"
    /\ record.status = "stale" => leader = "reaped"

\* Somebody other than the harness's own timer signalled the group.
Signalled == signals \cap {"cancel", "outside"} # {}

SignalInv ==
    /\ epc \in {"grace", "killed"} => timedOut
    /\ "timeout" \in signals => timedOut
    /\ exitCode = "sigterm" => signals # {}
    /\ exitCode = "sigkill" => timedOut \/ Signalled
    /\ \A c \in Clients : cpc[c] = "writeCancelled" => Signalled
    /\ current = "cancelled" => Signalled
    /\ outcome.status = "cancelled" => Signalled
    /\ record.status = "cancelled" => Signalled

\* The executor holds its verdict from the decision on.
Deciding == epc \in {"verifying", "recollecting", "writing"}

\* What the verdict the executor holds has established.
VerdictInv ==
    /\ Deciding /\ current = "cancelled" => outcome.status = "cancelled"
    /\ Deciding => outcome.status \in Terminal \ {"stale"}
    /\ Deciding /\ outcome.status = "succeeded" =>
          /\ exitCode = "zero" /\ ~timedOut
          /\ checked = Required
          /\ Required \ Volatile \subseteq evidence
    /\ epc = "writing" /\ outcome.status = "succeeded"
          => Required \ Volatile \subseteq digest.found
    /\ Deciding =>
          /\ outcome.failure \notin {"launch_failed", "process_missing"}
          /\ outcome.failure = "timeout" => timedOut
          /\ outcome.failure = "provider_exit" => exitCode = "nonzero" /\ ~timedOut
          /\ outcome.failure = "evidence_missing"
                => exitCode = "zero" /\ checked # Required

\* What the record on disk has established.
RecordInv ==
    /\ SucceededIsProven
    /\ FailureIsDiagnosed
    /\ record.status = "succeeded" => epc = "done"
    /\ record.exit # "none" => epc = "done" /\ Reaped
    /\ record.failure \in {"timeout", "provider_exit", "evidence_missing",
                           "launch_failed"} => epc = "done"

\* The verification event is in the log, below the length the digest covers.
LogInv ==
    /\ epc \in {"recollecting", "writing"} =>
          \E i \in 1..Len(events) : events[i].message = "verified"
    /\ epc = "writing" =>
          \E i \in 1..Len(events) : i <= digest.covers /\ events[i].message = "verified"
    /\ record.exit # "none" =>
          \E i \in 1..Len(events) :
              i <= record.artifacts.covers /\ events[i].message = "verified"

IInv == TypeOK /\ ProcessInv /\ StatusInv /\ SignalInv /\ VerdictInv /\ RecordInv /\ LogInv

-----------------------------------------------------------------------------
(***************************************************************************)
(* The log: what counting and appending do to it.                          *)
(***************************************************************************)
\* append_run_event leaves a well-formed log that is one event longer, with the
\* old events where they were and the message asked for in the last place.
LEMMA WriteEventAppends ==
    ASSUME TypeOK, NEW w \in Writers, NEW m \in EventMessage, WriteEvent(w, m)
    PROVE  /\ events' \in Seq(Event)
           /\ slot' \in [Writers -> Nat]
           /\ Len(events') = Len(events) + 1
           /\ \A i \in 1..Len(events) : events'[i] = events[i]
           /\ events'[Len(events) + 1].message = m
<1> DEFINE e == [seq |-> slot[w], message |-> m]
<1>1. e \in Event
  BY DEF TypeOK, Event
<1>2. events \in Seq(Event) /\ events' = Append(events, e)
  BY DEF TypeOK, WriteEvent
<1>3. slot' \in [Writers -> Nat]
  BY DEF TypeOK, WriteEvent
<1> HIDE DEF e
<1>4. /\ events' \in Seq(Event)
      /\ Len(events') = Len(events) + 1
      /\ \A i \in 1..Len(events) : events'[i] = events[i]
      /\ events'[Len(events) + 1] = e
  BY <1>1, <1>2, AppendProperties
<1>5. e.message = m
  BY DEF e
<1> QED
  BY <1>3, <1>4, <1>5

\* Counting the lines of the log only reserves a number.
LEMMA CountEventsReserves ==
    ASSUME TypeOK, NEW w \in Writers, CountEvents(w)
    PROVE  /\ events' = events
           /\ slot' \in [Writers -> Nat]
  BY DEF TypeOK, CountEvents

-----------------------------------------------------------------------------
(***************************************************************************)
(* Each part of the invariant is preserved by every step.                  *)
(***************************************************************************)
\* No step of Next leaves the types.
LEMMA TypeStep ==
    ASSUME TypeOK, [Next]_vars
    PROVE  TypeOK'
<1> USE DEF TypeOK, RunRecord, RunStatus, Active, Terminal, FailureCode,
          ExitCode, Artifacts, Outcome, Liveness, ExecutorPc, ClientPc,
          processVars, localVars, executorVars, clientVars, logVars
<1>1. CASE LeaderExits
BY <1>1 DEF LeaderExits
<1>2. CASE KilledFromOutside
BY <1>2 DEF KilledFromOutside
<1>3. CASE ForkHelper
BY <1>3 DEF ForkHelper
<1>4. CASE HelpersExit
  <2>1. helpers' \in BOOLEAN
    BY <1>4 DEF HelpersExit
  <2>2. UNCHANGED <<leader, exitCode, signals, record, evidence, logVars,
                    executorVars, clientVars>>
    BY <1>4 DEF HelpersExit
  <2> QED
    BY <2>1, <2>2
<1>5. CASE ProduceEvidence
BY <1>5 DEF ProduceEvidence
<1>6. CASE LoseEvidence
BY <1>6 DEF LoseEvidence
<1>7. CASE OrphanReaped
BY <1>7 DEF OrphanReaped
<1>8. CASE Launch
BY <1>8 DEF Launch
<1>9. CASE LaunchFails
BY <1>9 DEF LaunchFails, LaunchFailedRecord, OpenRecord, NoArtifacts
<1>10. CASE PublishRunning
BY <1>10 DEF PublishRunning, RunningRecord, OpenRecord, NoArtifacts
<1>11. CASE ExecutorCounts
  <2>1. Executor \in Writers
    BY DEF Writers
  <2>2. events' \in Seq(Event) /\ slot' \in [Writers -> Nat]
    BY <1>11, <2>1, CountEventsReserves DEF ExecutorCounts
  <2> QED
    BY <1>11, <2>2 DEF ExecutorCounts
<1>12. CASE LogStarted
  <2>1. Executor \in Writers /\ "started" \in EventMessage
    BY DEF Writers, EventMessage
  <2>2. events' \in Seq(Event) /\ slot' \in [Writers -> Nat]
    BY <1>12, <2>1, WriteEventAppends DEF LogStarted
  <2> QED
    BY <1>12, <2>2 DEF LogStarted
<1>13. CASE TimeoutExpires
BY <1>13 DEF TimeoutExpires
<1>14. CASE GraceExpires
  <2>1. helpers' \in BOOLEAN
    BY <1>14 DEF GraceExpires
  <2>2. leader' = "zombie" /\ exitCode' \in ExitCode /\ epc' = "killed"
    BY <1>14 DEF GraceExpires
  <2>3. UNCHANGED <<signals, record, evidence, logVars, localVars, clientVars>>
    BY <1>14 DEF GraceExpires
  <2> QED
    BY <2>1, <2>2, <2>3
<1>15. CASE Reap
BY <1>15 DEF Reap
<1>16. CASE Drain
BY <1>16 DEF Drain
<1>17. CASE LogOutput
  <2>1. Executor \in Writers /\ "output" \in EventMessage
    BY DEF Writers, EventMessage
  <2>2. events' \in Seq(Event) /\ slot' \in [Writers -> Nat]
    BY <1>17, <2>1, WriteEventAppends DEF LogOutput
  <2>3. output' \in 0..MaxOutput
    BY <1>17, OutputAssumption DEF LogOutput
  <2> QED
    BY <1>17, <2>2, <2>3 DEF LogOutput
<1>18. CASE OutputEnds
BY <1>18 DEF OutputEnds
<1>19. CASE ReadCurrent
BY <1>19 DEF ReadCurrent
<1>20. CASE CollectAndDecide
BY <1>20 DEF CollectAndDecide, TerminalOutcome
<1>21. CASE LogVerified
  <2>1. Executor \in Writers /\ "verified" \in EventMessage
    BY DEF Writers, EventMessage
  <2>2. events' \in Seq(Event) /\ slot' \in [Writers -> Nat]
    BY <1>21, <2>1, WriteEventAppends DEF LogVerified
  <2> QED
    BY <1>21, <2>2 DEF LogVerified
<1>22. CASE Recollect
BY <1>22 DEF Recollect
<1>23. CASE PublishTerminal
BY <1>23 DEF PublishTerminal, RunningRecord, OpenRecord, NoArtifacts
<1>24. CASE ExecutorCrashes
BY <1>24 DEF ExecutorCrashes, Writers
<1>25. ASSUME NEW c \in Clients, StatusRead(c) PROVE TypeOK'
  <2>1. cpc' \in [Clients -> ClientPc] /\ report' \in [Clients -> Liveness]
    BY <1>25 DEF StatusRead
  <2> QED
    BY <1>25, <2>1 DEF StatusRead
<1>26. ASSUME NEW c \in Clients, StatusProbe(c) PROVE TypeOK'
  <2>1. cpc' \in [Clients -> ClientPc] /\ report' \in [Clients -> Liveness]
    BY <1>26 DEF StatusProbe
  <2> QED
    BY <1>26, <2>1 DEF StatusProbe
<1>27. ASSUME NEW c \in Clients, WriteStale(c) PROVE TypeOK'
BY <1>27 DEF WriteStale, StaleRecord, OpenRecord, NoArtifacts
<1>28. ASSUME NEW c \in Clients, ClientCounts(c) PROVE TypeOK'
  <2>1. c \in Writers
    BY DEF Writers
  <2>2. events' \in Seq(Event) /\ slot' \in [Writers -> Nat]
    BY <1>28, <2>1, CountEventsReserves DEF ClientCounts
  <2> QED
    BY <1>28, <2>2 DEF ClientCounts
<1>29. ASSUME NEW c \in Clients, ClientLogs(c) PROVE TypeOK'
  <2>1. c \in Writers /\ {"stale", "cancelled"} \subseteq EventMessage
    BY DEF Writers, EventMessage
  <2>2. events' \in Seq(Event) /\ slot' \in [Writers -> Nat]
    BY <1>29, <2>1, WriteEventAppends DEF ClientLogs
  <2>3. cpc' \in [Clients -> ClientPc] /\ report' \in [Clients -> Liveness]
    BY <1>29 DEF ClientLogs
  <2> QED
    BY <1>29, <2>2, <2>3 DEF ClientLogs
<1>30. ASSUME NEW c \in Clients, CancelRead(c) PROVE TypeOK'
BY <1>30 DEF CancelRead
<1>31. ASSUME NEW c \in Clients, CancelSignal(c) PROVE TypeOK'
BY <1>31 DEF CancelSignal, GroupExists
<1>32. ASSUME NEW c \in Clients, WriteCancelled(c) PROVE TypeOK'
BY <1>32 DEF WriteCancelled, CancelledRecord, OpenRecord, NoArtifacts
<1>33. ASSUME NEW c \in Clients, ClientCrashes(c) PROVE TypeOK'
BY <1>33 DEF ClientCrashes, Writers
<1>34. CASE UNCHANGED vars
  BY <1>34 DEF vars
<1> QED
BY <1>1, <1>2, <1>3, <1>4, <1>5, <1>6, <1>7, <1>8, <1>9, <1>10, <1>11, <1>12,
     <1>13, <1>14, <1>15, <1>16, <1>17, <1>18, <1>19, <1>20, <1>21, <1>22,
     <1>23, <1>24, <1>25, <1>26, <1>27, <1>28, <1>29, <1>30, <1>31, <1>32,
     <1>33, <1>34
     DEF Next, Environment, ExecutorStep, Poll, Cancel

\* The executor's place and the state of its process stay together: Popen, wait and
\* the end of the pipes come in that order, and only the executor can reap.
LEMMA ProcessStep ==
    ASSUME TypeOK, ProcessInv, [Next]_vars
    PROVE  ProcessInv'
<1> USE DEF TypeOK, ExitCode, ProcessInv, Reaped, processVars, localVars,
          executorVars, clientVars, logVars
<1>1. CASE LeaderExits
BY <1>1 DEF LeaderExits
<1>2. CASE KilledFromOutside
BY <1>2 DEF KilledFromOutside
<1>3. CASE ForkHelper
BY <1>3 DEF ForkHelper
<1>4. CASE HelpersExit
BY <1>4 DEF HelpersExit
<1>5. CASE ProduceEvidence
BY <1>5 DEF ProduceEvidence
<1>6. CASE LoseEvidence
BY <1>6 DEF LoseEvidence
<1>7. CASE OrphanReaped
BY <1>7 DEF OrphanReaped
<1>8. CASE Launch
BY <1>8 DEF Launch
<1>9. CASE LaunchFails
BY <1>9 DEF LaunchFails, LaunchFailedRecord, OpenRecord, NoArtifacts
<1>10. CASE PublishRunning
BY <1>10 DEF PublishRunning, RunningRecord, OpenRecord, NoArtifacts
<1>11. CASE ExecutorCounts
BY <1>11 DEF ExecutorCounts, CountEvents
<1>12. CASE LogStarted
BY <1>12 DEF LogStarted, WriteEvent
<1>13. CASE TimeoutExpires
BY <1>13 DEF TimeoutExpires
<1>14. CASE GraceExpires
BY <1>14 DEF GraceExpires
<1>15. CASE Reap
BY <1>15 DEF Reap
<1>16. CASE Drain
BY <1>16 DEF Drain
<1>17. CASE LogOutput
BY <1>17 DEF LogOutput, WriteEvent
<1>18. CASE OutputEnds
BY <1>18 DEF OutputEnds
<1>19. CASE ReadCurrent
BY <1>19 DEF ReadCurrent
<1>20. CASE CollectAndDecide
BY <1>20 DEF CollectAndDecide, TerminalOutcome
<1>21. CASE LogVerified
BY <1>21 DEF LogVerified, WriteEvent
<1>22. CASE Recollect
BY <1>22 DEF Recollect
<1>23. CASE PublishTerminal
BY <1>23 DEF PublishTerminal, RunningRecord, OpenRecord, NoArtifacts
<1>24. CASE ExecutorCrashes
BY <1>24 DEF ExecutorCrashes
<1>25. ASSUME NEW c \in Clients, StatusRead(c) PROVE ProcessInv'
BY <1>25 DEF StatusRead
<1>26. ASSUME NEW c \in Clients, StatusProbe(c) PROVE ProcessInv'
BY <1>26 DEF StatusProbe
<1>27. ASSUME NEW c \in Clients, WriteStale(c) PROVE ProcessInv'
BY <1>27 DEF WriteStale, StaleRecord, OpenRecord, NoArtifacts
<1>28. ASSUME NEW c \in Clients, ClientCounts(c) PROVE ProcessInv'
BY <1>28 DEF ClientCounts, CountEvents
<1>29. ASSUME NEW c \in Clients, ClientLogs(c) PROVE ProcessInv'
BY <1>29 DEF ClientLogs, WriteEvent
<1>30. ASSUME NEW c \in Clients, CancelRead(c) PROVE ProcessInv'
BY <1>30 DEF CancelRead
<1>31. ASSUME NEW c \in Clients, CancelSignal(c) PROVE ProcessInv'
BY <1>31 DEF CancelSignal, GroupExists
<1>32. ASSUME NEW c \in Clients, WriteCancelled(c) PROVE ProcessInv'
BY <1>32 DEF WriteCancelled, CancelledRecord, OpenRecord, NoArtifacts
<1>33. ASSUME NEW c \in Clients, ClientCrashes(c) PROVE ProcessInv'
BY <1>33 DEF ClientCrashes
<1>34. CASE UNCHANGED vars
  BY <1>34 DEF vars
<1> QED
BY <1>1, <1>2, <1>3, <1>4, <1>5, <1>6, <1>7, <1>8, <1>9, <1>10, <1>11, <1>12,
     <1>13, <1>14, <1>15, <1>16, <1>17, <1>18, <1>19, <1>20, <1>21, <1>22,
     <1>23, <1>24, <1>25, <1>26, <1>27, <1>28, <1>29, <1>30, <1>31, <1>32,
     <1>33, <1>34
     DEF Next, Environment, ExecutorStep, Poll, Cancel

\* A status on disk, or in the hands of a client, is one the process justifies.
LEMMA StatusStep ==
    ASSUME TypeOK, ProcessInv, VerdictInv, StatusInv, [Next]_vars
    PROVE  StatusInv'
<1> USE DEF TypeOK, RunRecord, Outcome, Artifacts, RunStatus, Active, Terminal,
          ExitCode, ProcessInv, VerdictInv, StatusInv, Deciding, Reaped,
          processVars, localVars, executorVars, clientVars, logVars
<1>1. CASE LeaderExits
BY <1>1 DEF LeaderExits
<1>2. CASE KilledFromOutside
BY <1>2 DEF KilledFromOutside
<1>3. CASE ForkHelper
BY <1>3 DEF ForkHelper
<1>4. CASE HelpersExit
BY <1>4 DEF HelpersExit
<1>5. CASE ProduceEvidence
BY <1>5 DEF ProduceEvidence
<1>6. CASE LoseEvidence
BY <1>6 DEF LoseEvidence
<1>7. CASE OrphanReaped
BY <1>7 DEF OrphanReaped
<1>8. CASE Launch
BY <1>8 DEF Launch
<1>9. CASE LaunchFails
BY <1>9 DEF LaunchFails, LaunchFailedRecord, OpenRecord, NoArtifacts
<1>10. CASE PublishRunning
BY <1>10 DEF PublishRunning, RunningRecord, OpenRecord, NoArtifacts
<1>11. CASE ExecutorCounts
BY <1>11 DEF ExecutorCounts, CountEvents
<1>12. CASE LogStarted
BY <1>12 DEF LogStarted, WriteEvent
<1>13. CASE TimeoutExpires
BY <1>13 DEF TimeoutExpires
<1>14. CASE GraceExpires
BY <1>14 DEF GraceExpires
<1>15. CASE Reap
BY <1>15 DEF Reap
<1>16. CASE Drain
BY <1>16 DEF Drain
<1>17. CASE LogOutput
BY <1>17 DEF LogOutput, WriteEvent
<1>18. CASE OutputEnds
BY <1>18 DEF OutputEnds
<1>19. CASE ReadCurrent
BY <1>19 DEF ReadCurrent
<1>20. CASE CollectAndDecide
BY <1>20 DEF CollectAndDecide, TerminalOutcome
<1>21. CASE LogVerified
BY <1>21 DEF LogVerified, WriteEvent
<1>22. CASE Recollect
BY <1>22 DEF Recollect
<1>23. CASE PublishTerminal
BY <1>23 DEF PublishTerminal, RunningRecord, OpenRecord, NoArtifacts
<1>24. CASE ExecutorCrashes
BY <1>24 DEF ExecutorCrashes
<1>25. ASSUME NEW c \in Clients, StatusRead(c) PROVE StatusInv'
BY <1>25 DEF StatusRead
<1>26. ASSUME NEW c \in Clients, StatusProbe(c) PROVE StatusInv'
BY <1>26 DEF StatusProbe
<1>27. ASSUME NEW c \in Clients, WriteStale(c) PROVE StatusInv'
BY <1>27 DEF WriteStale, StaleRecord, OpenRecord, NoArtifacts
<1>28. ASSUME NEW c \in Clients, ClientCounts(c) PROVE StatusInv'
BY <1>28 DEF ClientCounts, CountEvents
<1>29. ASSUME NEW c \in Clients, ClientLogs(c) PROVE StatusInv'
BY <1>29 DEF ClientLogs, WriteEvent
<1>30. ASSUME NEW c \in Clients, CancelRead(c) PROVE StatusInv'
BY <1>30 DEF CancelRead
<1>31. ASSUME NEW c \in Clients, CancelSignal(c) PROVE StatusInv'
BY <1>31 DEF CancelSignal, GroupExists
<1>32. ASSUME NEW c \in Clients, WriteCancelled(c) PROVE StatusInv'
BY <1>32 DEF WriteCancelled, CancelledRecord, OpenRecord, NoArtifacts
<1>33. ASSUME NEW c \in Clients, ClientCrashes(c) PROVE StatusInv'
BY <1>33 DEF ClientCrashes
<1>34. CASE UNCHANGED vars
  BY <1>34 DEF vars
<1> QED
BY <1>1, <1>2, <1>3, <1>4, <1>5, <1>6, <1>7, <1>8, <1>9, <1>10, <1>11, <1>12,
     <1>13, <1>14, <1>15, <1>16, <1>17, <1>18, <1>19, <1>20, <1>21, <1>22,
     <1>23, <1>24, <1>25, <1>26, <1>27, <1>28, <1>29, <1>30, <1>31, <1>32,
     <1>33, <1>34
     DEF Next, Environment, ExecutorStep, Poll, Cancel

\* A death by signal, and every cancellation built on it, has somebody behind it
\* other than the harness's own timer.
LEMMA SignalStep ==
    ASSUME TypeOK, ProcessInv, SignalInv, [Next]_vars
    PROVE  SignalInv'
<1> USE DEF TypeOK, RunRecord, Outcome, Artifacts, RunStatus, Active, Terminal,
          ExitCode, ProcessInv, Reaped, SignalInv, Signalled, processVars,
          localVars, executorVars, clientVars, logVars
<1>1. CASE LeaderExits
BY <1>1 DEF LeaderExits
<1>2. CASE KilledFromOutside
BY <1>2 DEF KilledFromOutside
<1>3. CASE ForkHelper
BY <1>3 DEF ForkHelper
<1>4. CASE HelpersExit
BY <1>4 DEF HelpersExit
<1>5. CASE ProduceEvidence
BY <1>5 DEF ProduceEvidence
<1>6. CASE LoseEvidence
BY <1>6 DEF LoseEvidence
<1>7. CASE OrphanReaped
BY <1>7 DEF OrphanReaped
<1>8. CASE Launch
BY <1>8 DEF Launch
<1>9. CASE LaunchFails
BY <1>9 DEF LaunchFails, LaunchFailedRecord, OpenRecord, NoArtifacts
<1>10. CASE PublishRunning
BY <1>10 DEF PublishRunning, RunningRecord, OpenRecord, NoArtifacts
<1>11. CASE ExecutorCounts
BY <1>11 DEF ExecutorCounts, CountEvents
<1>12. CASE LogStarted
BY <1>12 DEF LogStarted, WriteEvent
<1>13. CASE TimeoutExpires
BY <1>13 DEF TimeoutExpires
<1>14. CASE GraceExpires
BY <1>14 DEF GraceExpires
<1>15. CASE Reap
BY <1>15 DEF Reap
<1>16. CASE Drain
BY <1>16 DEF Drain
<1>17. CASE LogOutput
BY <1>17 DEF LogOutput, WriteEvent
<1>18. CASE OutputEnds
BY <1>18 DEF OutputEnds
<1>19. CASE ReadCurrent
BY <1>19 DEF ReadCurrent
<1>20. CASE CollectAndDecide
  <2>1. outcome'.status = "cancelled"
           => current = "cancelled" \/ (~timedOut /\ exitCode \in {"sigterm", "sigkill"})
    BY <1>20 DEF CollectAndDecide, TerminalOutcome
  <2>2. ASSUME ~timedOut, exitCode \in {"sigterm", "sigkill"} PROVE Signalled
    <3>1. CASE exitCode = "sigkill"
      BY <2>2, <3>1
    <3>2. CASE exitCode = "sigterm"
      <4>1. PICK s \in signals : TRUE
        BY <3>2
      <4> QED
        BY <2>2, <4>1
    <3> QED
      BY <2>2, <3>1, <3>2
  <2>3. outcome'.status = "cancelled" => Signalled
    BY <2>1, <2>2
  <2> QED
    BY <1>20, <2>3 DEF CollectAndDecide
<1>21. CASE LogVerified
BY <1>21 DEF LogVerified, WriteEvent
<1>22. CASE Recollect
BY <1>22 DEF Recollect
<1>23. CASE PublishTerminal
BY <1>23 DEF PublishTerminal, RunningRecord, OpenRecord, NoArtifacts
<1>24. CASE ExecutorCrashes
BY <1>24 DEF ExecutorCrashes
<1>25. ASSUME NEW c \in Clients, StatusRead(c) PROVE SignalInv'
BY <1>25 DEF StatusRead
<1>26. ASSUME NEW c \in Clients, StatusProbe(c) PROVE SignalInv'
BY <1>26 DEF StatusProbe
<1>27. ASSUME NEW c \in Clients, WriteStale(c) PROVE SignalInv'
BY <1>27 DEF WriteStale, StaleRecord, OpenRecord, NoArtifacts
<1>28. ASSUME NEW c \in Clients, ClientCounts(c) PROVE SignalInv'
BY <1>28 DEF ClientCounts, CountEvents
<1>29. ASSUME NEW c \in Clients, ClientLogs(c) PROVE SignalInv'
BY <1>29 DEF ClientLogs, WriteEvent
<1>30. ASSUME NEW c \in Clients, CancelRead(c) PROVE SignalInv'
BY <1>30 DEF CancelRead
<1>31. ASSUME NEW c \in Clients, CancelSignal(c) PROVE SignalInv'
BY <1>31 DEF CancelSignal, GroupExists
<1>32. ASSUME NEW c \in Clients, WriteCancelled(c) PROVE SignalInv'
BY <1>32 DEF WriteCancelled, CancelledRecord, OpenRecord, NoArtifacts
<1>33. ASSUME NEW c \in Clients, ClientCrashes(c) PROVE SignalInv'
BY <1>33 DEF ClientCrashes
<1>34. CASE UNCHANGED vars
  BY <1>34 DEF vars
<1> QED
BY <1>1, <1>2, <1>3, <1>4, <1>5, <1>6, <1>7, <1>8, <1>9, <1>10, <1>11, <1>12,
     <1>13, <1>14, <1>15, <1>16, <1>17, <1>18, <1>19, <1>20, <1>21, <1>22,
     <1>23, <1>24, <1>25, <1>26, <1>27, <1>28, <1>29, <1>30, <1>31, <1>32,
     <1>33, <1>34
     DEF Next, Environment, ExecutorStep, Poll, Cancel

\* The verdict the executor holds stays true until it is written: nothing produces
\* or loses its evidence after the process group has gone, except volatile files.
LEMMA VerdictStep ==
    ASSUME TypeOK, ProcessInv, VerdictInv, [Next]_vars
    PROVE  VerdictInv'
<1> USE DEF TypeOK, RunRecord, Outcome, Artifacts, RunStatus, Active, Terminal,
          ExitCode, ProcessInv, Reaped, VerdictInv, Deciding, processVars,
          localVars, executorVars, clientVars, logVars
<1>1. CASE LeaderExits
BY <1>1 DEF LeaderExits
<1>2. CASE KilledFromOutside
BY <1>2 DEF KilledFromOutside
<1>3. CASE ForkHelper
BY <1>3 DEF ForkHelper
<1>4. CASE HelpersExit
BY <1>4 DEF HelpersExit
<1>5. CASE ProduceEvidence
BY <1>5 DEF ProduceEvidence
<1>6. CASE LoseEvidence
BY <1>6 DEF LoseEvidence
<1>7. CASE OrphanReaped
BY <1>7 DEF OrphanReaped
<1>8. CASE Launch
BY <1>8 DEF Launch
<1>9. CASE LaunchFails
BY <1>9 DEF LaunchFails, LaunchFailedRecord, OpenRecord, NoArtifacts
<1>10. CASE PublishRunning
BY <1>10 DEF PublishRunning, RunningRecord, OpenRecord, NoArtifacts
<1>11. CASE ExecutorCounts
BY <1>11 DEF ExecutorCounts, CountEvents
<1>12. CASE LogStarted
BY <1>12 DEF LogStarted, WriteEvent
<1>13. CASE TimeoutExpires
BY <1>13 DEF TimeoutExpires
<1>14. CASE GraceExpires
BY <1>14 DEF GraceExpires
<1>15. CASE Reap
BY <1>15 DEF Reap
<1>16. CASE Drain
BY <1>16 DEF Drain
<1>17. CASE LogOutput
BY <1>17 DEF LogOutput, WriteEvent
<1>18. CASE OutputEnds
BY <1>18 DEF OutputEnds
<1>19. CASE ReadCurrent
BY <1>19 DEF ReadCurrent
<1>20. CASE CollectAndDecide
BY <1>20 DEF CollectAndDecide, TerminalOutcome
<1>21. CASE LogVerified
BY <1>21 DEF LogVerified, WriteEvent
<1>22. CASE Recollect
BY <1>22 DEF Recollect
<1>23. CASE PublishTerminal
BY <1>23 DEF PublishTerminal, RunningRecord, OpenRecord, NoArtifacts
<1>24. CASE ExecutorCrashes
BY <1>24 DEF ExecutorCrashes
<1>25. ASSUME NEW c \in Clients, StatusRead(c) PROVE VerdictInv'
BY <1>25 DEF StatusRead
<1>26. ASSUME NEW c \in Clients, StatusProbe(c) PROVE VerdictInv'
BY <1>26 DEF StatusProbe
<1>27. ASSUME NEW c \in Clients, WriteStale(c) PROVE VerdictInv'
BY <1>27 DEF WriteStale, StaleRecord, OpenRecord, NoArtifacts
<1>28. ASSUME NEW c \in Clients, ClientCounts(c) PROVE VerdictInv'
BY <1>28 DEF ClientCounts, CountEvents
<1>29. ASSUME NEW c \in Clients, ClientLogs(c) PROVE VerdictInv'
BY <1>29 DEF ClientLogs, WriteEvent
<1>30. ASSUME NEW c \in Clients, CancelRead(c) PROVE VerdictInv'
BY <1>30 DEF CancelRead
<1>31. ASSUME NEW c \in Clients, CancelSignal(c) PROVE VerdictInv'
BY <1>31 DEF CancelSignal, GroupExists
<1>32. ASSUME NEW c \in Clients, WriteCancelled(c) PROVE VerdictInv'
BY <1>32 DEF WriteCancelled, CancelledRecord, OpenRecord, NoArtifacts
<1>33. ASSUME NEW c \in Clients, ClientCrashes(c) PROVE VerdictInv'
BY <1>33 DEF ClientCrashes
<1>34. CASE UNCHANGED vars
  BY <1>34 DEF vars
<1> QED
BY <1>1, <1>2, <1>3, <1>4, <1>5, <1>6, <1>7, <1>8, <1>9, <1>10, <1>11, <1>12,
     <1>13, <1>14, <1>15, <1>16, <1>17, <1>18, <1>19, <1>20, <1>21, <1>22,
     <1>23, <1>24, <1>25, <1>26, <1>27, <1>28, <1>29, <1>30, <1>31, <1>32,
     <1>33, <1>34
     DEF Next, Environment, ExecutorStep, Poll, Cancel

\* What the record claims stays true after it has been written.
LEMMA RecordStep ==
    ASSUME TypeOK, ProcessInv, StatusInv, VerdictInv, RecordInv, [Next]_vars
    PROVE  RecordInv'
<1> USE DEF TypeOK, RunRecord, Outcome, Artifacts, RunStatus, Active, Terminal,
          ExitCode, ProcessInv, Reaped, StatusInv, VerdictInv, Deciding,
          RecordInv,
          SucceededIsProven, FailureIsDiagnosed,
          processVars, localVars, executorVars, clientVars, logVars
<1>1. CASE LeaderExits
BY <1>1 DEF LeaderExits
<1>2. CASE KilledFromOutside
BY <1>2 DEF KilledFromOutside
<1>3. CASE ForkHelper
BY <1>3 DEF ForkHelper
<1>4. CASE HelpersExit
BY <1>4 DEF HelpersExit
<1>5. CASE ProduceEvidence
BY <1>5 DEF ProduceEvidence
<1>6. CASE LoseEvidence
BY <1>6 DEF LoseEvidence
<1>7. CASE OrphanReaped
BY <1>7 DEF OrphanReaped
<1>8. CASE Launch
BY <1>8 DEF Launch
<1>9. CASE LaunchFails
BY <1>9 DEF LaunchFails, LaunchFailedRecord, OpenRecord, NoArtifacts
<1>10. CASE PublishRunning
BY <1>10 DEF PublishRunning, RunningRecord, OpenRecord, NoArtifacts
<1>11. CASE ExecutorCounts
BY <1>11 DEF ExecutorCounts, CountEvents
<1>12. CASE LogStarted
BY <1>12 DEF LogStarted, WriteEvent
<1>13. CASE TimeoutExpires
BY <1>13 DEF TimeoutExpires
<1>14. CASE GraceExpires
BY <1>14 DEF GraceExpires
<1>15. CASE Reap
BY <1>15 DEF Reap
<1>16. CASE Drain
BY <1>16 DEF Drain
<1>17. CASE LogOutput
BY <1>17 DEF LogOutput, WriteEvent
<1>18. CASE OutputEnds
BY <1>18 DEF OutputEnds
<1>19. CASE ReadCurrent
BY <1>19 DEF ReadCurrent
<1>20. CASE CollectAndDecide
BY <1>20 DEF CollectAndDecide, TerminalOutcome
<1>21. CASE LogVerified
BY <1>21 DEF LogVerified, WriteEvent
<1>22. CASE Recollect
BY <1>22 DEF Recollect
<1>23. CASE PublishTerminal
BY <1>23 DEF PublishTerminal, RunningRecord, OpenRecord, NoArtifacts
<1>24. CASE ExecutorCrashes
BY <1>24 DEF ExecutorCrashes
<1>25. ASSUME NEW c \in Clients, StatusRead(c) PROVE RecordInv'
BY <1>25 DEF StatusRead
<1>26. ASSUME NEW c \in Clients, StatusProbe(c) PROVE RecordInv'
BY <1>26 DEF StatusProbe
<1>27. ASSUME NEW c \in Clients, WriteStale(c) PROVE RecordInv'
BY <1>27 DEF WriteStale, StaleRecord, OpenRecord, NoArtifacts
<1>28. ASSUME NEW c \in Clients, ClientCounts(c) PROVE RecordInv'
BY <1>28 DEF ClientCounts, CountEvents
<1>29. ASSUME NEW c \in Clients, ClientLogs(c) PROVE RecordInv'
BY <1>29 DEF ClientLogs, WriteEvent
<1>30. ASSUME NEW c \in Clients, CancelRead(c) PROVE RecordInv'
BY <1>30 DEF CancelRead
<1>31. ASSUME NEW c \in Clients, CancelSignal(c) PROVE RecordInv'
BY <1>31 DEF CancelSignal, GroupExists
<1>32. ASSUME NEW c \in Clients, WriteCancelled(c) PROVE RecordInv'
BY <1>32 DEF WriteCancelled, CancelledRecord, OpenRecord, NoArtifacts
<1>33. ASSUME NEW c \in Clients, ClientCrashes(c) PROVE RecordInv'
BY <1>33 DEF ClientCrashes
<1>34. CASE UNCHANGED vars
  BY <1>34 DEF vars
<1> QED
BY <1>1, <1>2, <1>3, <1>4, <1>5, <1>6, <1>7, <1>8, <1>9, <1>10, <1>11, <1>12,
     <1>13, <1>14, <1>15, <1>16, <1>17, <1>18, <1>19, <1>20, <1>21, <1>22,
     <1>23, <1>24, <1>25, <1>26, <1>27, <1>28, <1>29, <1>30, <1>31, <1>32,
     <1>33, <1>34
     DEF Next, Environment, ExecutorStep, Poll, Cancel

\* The log only grows at its end, so what a digest covers stays in it.
LEMMA LogStep ==
    ASSUME TypeOK, RecordInv, LogInv, [Next]_vars
    PROVE  LogInv'
<1> USE DEF TypeOK, RunRecord, Outcome, Artifacts, RunStatus, Active, Terminal,
          ExitCode, RecordInv, LogInv, processVars, localVars, executorVars,
          clientVars, logVars
<1>1. CASE LeaderExits
BY <1>1 DEF LeaderExits
<1>2. CASE KilledFromOutside
BY <1>2 DEF KilledFromOutside
<1>3. CASE ForkHelper
BY <1>3 DEF ForkHelper
<1>4. CASE HelpersExit
BY <1>4 DEF HelpersExit
<1>5. CASE ProduceEvidence
BY <1>5 DEF ProduceEvidence
<1>6. CASE LoseEvidence
BY <1>6 DEF LoseEvidence
<1>7. CASE OrphanReaped
BY <1>7 DEF OrphanReaped
<1>8. CASE Launch
BY <1>8 DEF Launch
<1>9. CASE LaunchFails
BY <1>9 DEF LaunchFails, LaunchFailedRecord, OpenRecord, NoArtifacts
<1>10. CASE PublishRunning
BY <1>10 DEF PublishRunning, RunningRecord, OpenRecord, NoArtifacts
<1>11. CASE ExecutorCounts
BY <1>11 DEF ExecutorCounts, CountEvents
<1>12. CASE LogStarted
BY <1>12 DEF LogStarted, WriteEvent
<1>13. CASE TimeoutExpires
BY <1>13 DEF TimeoutExpires
<1>14. CASE GraceExpires
BY <1>14 DEF GraceExpires
<1>15. CASE Reap
BY <1>15 DEF Reap
<1>16. CASE Drain
BY <1>16 DEF Drain
<1>17. CASE LogOutput
BY <1>17 DEF LogOutput, WriteEvent
<1>18. CASE OutputEnds
BY <1>18 DEF OutputEnds
<1>19. CASE ReadCurrent
BY <1>19 DEF ReadCurrent
<1>20. CASE CollectAndDecide
BY <1>20 DEF CollectAndDecide, TerminalOutcome
<1>21. CASE LogVerified
BY <1>21 DEF LogVerified, WriteEvent
<1>22. CASE Recollect
BY <1>22 DEF Recollect
<1>23. CASE PublishTerminal
BY <1>23 DEF PublishTerminal, RunningRecord, OpenRecord, NoArtifacts
<1>24. CASE ExecutorCrashes
BY <1>24 DEF ExecutorCrashes
<1>25. ASSUME NEW c \in Clients, StatusRead(c) PROVE LogInv'
BY <1>25 DEF StatusRead
<1>26. ASSUME NEW c \in Clients, StatusProbe(c) PROVE LogInv'
BY <1>26 DEF StatusProbe
<1>27. ASSUME NEW c \in Clients, WriteStale(c) PROVE LogInv'
BY <1>27 DEF WriteStale, StaleRecord, OpenRecord, NoArtifacts
<1>28. ASSUME NEW c \in Clients, ClientCounts(c) PROVE LogInv'
BY <1>28 DEF ClientCounts, CountEvents
<1>29. ASSUME NEW c \in Clients, ClientLogs(c) PROVE LogInv'
  <2>1. c \in Writers /\ {"stale", "cancelled"} \subseteq EventMessage
    BY DEF Writers, EventMessage
  <2>2. /\ Len(events') = Len(events) + 1
        /\ \A i \in 1..Len(events) : events'[i] = events[i]
    BY <1>29, <2>1, WriteEventAppends DEF ClientLogs
  <2> QED
    BY <1>29, <2>2 DEF ClientLogs
<1>30. ASSUME NEW c \in Clients, CancelRead(c) PROVE LogInv'
BY <1>30 DEF CancelRead
<1>31. ASSUME NEW c \in Clients, CancelSignal(c) PROVE LogInv'
BY <1>31 DEF CancelSignal, GroupExists
<1>32. ASSUME NEW c \in Clients, WriteCancelled(c) PROVE LogInv'
BY <1>32 DEF WriteCancelled, CancelledRecord, OpenRecord, NoArtifacts
<1>33. ASSUME NEW c \in Clients, ClientCrashes(c) PROVE LogInv'
BY <1>33 DEF ClientCrashes
<1>34. CASE UNCHANGED vars
  BY <1>34 DEF vars
<1> QED
BY <1>1, <1>2, <1>3, <1>4, <1>5, <1>6, <1>7, <1>8, <1>9, <1>10, <1>11, <1>12,
     <1>13, <1>14, <1>15, <1>16, <1>17, <1>18, <1>19, <1>20, <1>21, <1>22,
     <1>23, <1>24, <1>25, <1>26, <1>27, <1>28, <1>29, <1>30, <1>31, <1>32,
     <1>33, <1>34
     DEF Next, Environment, ExecutorStep, Poll, Cancel

-----------------------------------------------------------------------------
(***************************************************************************)
(* The invariant, and the safety properties it implies.                    *)
(***************************************************************************)
\* A Run that has been planned, and not launched, satisfies every part.
LEMMA InitInvariant == Init => IInv
<1> SUFFICES ASSUME Init PROVE IInv
  OBVIOUS
<1>1. TypeOK
  <2>1. events \in Seq(Event)
    BY DEF Init, Event, EventMessage
  <2>2. record \in RunRecord
    BY DEF Init, PlannedRecord, OpenRecord, NoArtifacts, RunRecord, RunStatus, Active,
           FailureCode, ExitCode, Artifacts
  <2>3. outcome \in Outcome /\ digest \in Artifacts
    BY DEF Init, Outcome, RunStatus, Active, FailureCode, NoArtifacts, Artifacts
  <2>4. /\ slot \in [Writers -> Nat]
        /\ cpc \in [Clients -> ClientPc]
        /\ report \in [Clients -> Liveness]
    BY DEF Init, ClientPc, Liveness
  <2>5. helpers \in BOOLEAN /\ timedOut \in BOOLEAN
    BY DEF Init
  <2>6. output \in 0..MaxOutput
    BY OutputAssumption DEF Init
  <2> QED
    BY <2>1, <2>2, <2>3, <2>4, <2>5, <2>6
       DEF Init, TypeOK, ExitCode, ExecutorPc, RunStatus, Active
<1>2. ProcessInv /\ StatusInv /\ SignalInv
  BY DEF Init, ProcessInv, StatusInv, SignalInv, Reaped, PlannedRecord, OpenRecord
<1>3. VerdictInv /\ RecordInv /\ LogInv
  BY DEF Init, VerdictInv, Deciding, RecordInv, SucceededIsProven, FailureIsDiagnosed,
         LogInv, PlannedRecord, OpenRecord
<1> QED
  BY <1>1, <1>2, <1>3 DEF IInv

\* Every step, of whichever process, preserves the invariant.
LEMMA NextInvariant == IInv /\ [Next]_vars => IInv'
  BY TypeStep, ProcessStep, StatusStep, SignalStep, VerdictStep, RecordStep, LogStep
     DEF IInv

\* The inductive invariant holds in every reachable state.
THEOREM Invariance == Spec => []IInv
  BY InitInvariant, NextInvariant, PTL DEF Spec

\* Every variable keeps its shape, whoever interleaves with whom.
THEOREM TypeCorrect == Spec => []TypeOK
<1>1. IInv => TypeOK
  BY DEF IInv
<1> QED
  BY <1>1, Invariance, PTL

\* No interleaving of executor, clients and process, and no crash, makes a Run
\* succeed without its process group gone, code zero and every required file seen.
THEOREM SuccessIsProven == Spec => []SucceededIsProven
<1>1. IInv => SucceededIsProven
  BY DEF IInv, RecordInv
<1> QED
  BY <1>1, Invariance, PTL

\* The failure code on disk names the real cause, for any number of clients.
THEOREM FailureDiagnosed == Spec => []FailureIsDiagnosed
<1>1. IInv => FailureIsDiagnosed
  BY DEF IInv, RecordInv
<1> QED
  BY <1>1, Invariance, PTL

\* A stale verdict is never passed on a process that could still be running.
THEOREM StaleIsGone == Spec => []StaleMeansGone
<1>1. IInv => StaleMeansGone
  BY DEF IInv, StatusInv, StaleMeansGone
<1> QED
  BY <1>1, Invariance, PTL

\* A Run that only the harness's timeout killed is never recorded as cancelled.
THEOREM CancellationHasCause == Spec => []CancelledWasSignalled
<1>1. IInv => CancelledWasSignalled
  BY DEF IInv, SignalInv, Signalled, CancelledWasSignalled
<1> QED
  BY <1>1, Invariance, PTL

\* The recorded digest covers the verification event, whatever was appended between.
THEOREM DigestIsCurrent == Spec => []DigestCoversVerification
<1>1. ASSUME IInv, record.exit # "none" PROVE DigestCoversVerification
  <2>1. PICK i \in 1..Len(events) :
            i <= record.artifacts.covers /\ events[i].message = "verified"
    BY <1>1 DEF IInv, LogInv
  <2>2. record.artifacts.covers \in Nat /\ Len(events) \in Nat
    BY <1>1 DEF IInv, TypeOK, RunRecord, Artifacts
  <2> QED
    BY <2>1, <2>2 DEF DigestCoversVerification
<1>2. IInv => DigestCoversVerification
  BY <1>1 DEF DigestCoversVerification
<1> QED
  BY <1>2, Invariance, PTL

(***************************************************************************)
(* The numbers of the events.                                              *)
(***************************************************************************)
Clears(w) == UNCHANGED events /\ slot' = [slot EXCEPT ![w] = 0]

\* What a step does to the log: nothing, or one half of append_run_event.
LEMMA LogSteps ==
    ASSUME [Next]_vars
    PROVE  \/ UNCHANGED <<events, slot>>
           \/ \E w \in Writers : CountEvents(w) \/ Clears(w)
           \/ \E m \in RunMessage : WriteEvent(Executor, m)
           \/ \E c \in Clients : \E m \in EventMessage \ RunMessage : WriteEvent(c, m)
<1> USE DEF logVars
<1>1. Executor \in Writers /\ \A c \in Clients : c \in Writers
    BY DEF Writers
<1>2. /\ {"started", "output", "verified"} \subseteq RunMessage
      /\ {"stale", "cancelled"} \subseteq EventMessage \ RunMessage
    BY DEF RunMessage, EventMessage
<1>3. CASE Environment
    BY <1>3 DEF Environment, LeaderExits, KilledFromOutside, ForkHelper, HelpersExit,
                ProduceEvidence, LoseEvidence, OrphanReaped
<1>4. CASE LogStarted \/ LogOutput \/ LogVerified
    BY <1>2, <1>4 DEF LogStarted, LogOutput, LogVerified
<1>5. CASE ExecutorCounts
    BY <1>1, <1>5 DEF ExecutorCounts
<1>6. CASE Launch \/ LaunchFails \/ PublishRunning \/ TimeoutExpires \/ GraceExpires \/ Reap
    BY <1>6 DEF Launch, LaunchFails, PublishRunning, TimeoutExpires, GraceExpires, Reap
<1>7. CASE \/ Drain \/ OutputEnds \/ ReadCurrent \/ CollectAndDecide \/ Recollect
           \/ PublishTerminal
    BY <1>7 DEF Drain, OutputEnds, ReadCurrent, CollectAndDecide, Recollect, PublishTerminal
<1>8. CASE ExecutorCrashes
    BY <1>1, <1>8 DEF ExecutorCrashes, Clears
<1>9. ASSUME NEW c \in Clients, ClientCounts(c) \/ ClientCrashes(c)
      PROVE  \E w \in Writers : CountEvents(w) \/ Clears(w)
    BY <1>1, <1>9 DEF ClientCounts, ClientCrashes, Clears
<1>10. ASSUME NEW c \in Clients, ClientLogs(c)
       PROVE  \E m \in EventMessage \ RunMessage : WriteEvent(c, m)
    BY <1>2, <1>10 DEF ClientLogs
<1>11. ASSUME NEW c \in Clients,
              \/ StatusRead(c) \/ StatusProbe(c) \/ WriteStale(c)
              \/ CancelRead(c) \/ CancelSignal(c) \/ WriteCancelled(c)
       PROVE  UNCHANGED <<events, slot>>
    BY <1>11 DEF StatusRead, StatusProbe, WriteStale, CancelRead, CancelSignal, WriteCancelled
<1>12. CASE UNCHANGED vars
    BY <1>12 DEF vars
<1> QED
    BY <1>3, <1>4, <1>5, <1>6, <1>7, <1>8, <1>9, <1>10, <1>11, <1>12
       DEF Next, ExecutorStep, Poll, Cancel

\* A number that was computed is behind the lines there are, and one that the executor
\* computed is behind those of the Run itself, whatever clients have appended since.
NumberInv ==
    /\ EventsAreNumbered
    /\ \A w \in Writers : slot[w] <= Len(events) + 1
    /\ slot[Executor] > 0 =>
          \A i \in 1..Len(events) :
              events[i].message \in RunMessage => events[i].seq < slot[Executor]

\* WriteEventAppends, with the number that is written.
LEMMA LineIsWritten ==
    ASSUME TypeOK, NEW w \in Writers, NEW m \in EventMessage, WriteEvent(w, m)
    PROVE  /\ Len(events) \in Nat /\ Len(events') = Len(events) + 1
           /\ \A i \in 1..Len(events) : events'[i] = events[i]
           /\ events'[Len(events) + 1] = [seq |-> slot[w], message |-> m]
           /\ slot[w] \in Nat \ {0} /\ slot'[w] = 0
           /\ \A v \in Writers : v # w => slot'[v] = slot[v]
<1> DEFINE e == [seq |-> slot[w], message |-> m]
<1>1. e \in Event /\ slot[w] \in Nat \ {0}
  BY DEF TypeOK, Event, WriteEvent
<1>2. events \in Seq(Event) /\ events' = Append(events, e)
  BY DEF TypeOK, WriteEvent
<1>3. slot'[w] = 0 /\ \A v \in Writers : v # w => slot'[v] = slot[v]
  BY DEF TypeOK, WriteEvent
<1> HIDE DEF e
<1>4. /\ Len(events) \in Nat /\ Len(events') = Len(events) + 1
      /\ \A i \in 1..Len(events) : events'[i] = events[i]
      /\ events'[Len(events) + 1] = e
  BY <1>1, <1>2, AppendProperties, LenProperties
<1> QED
  BY <1>1, <1>3, <1>4 DEF e

LEMMA NumberStep ==
    ASSUME TypeOK, NumberInv, [Next]_vars
    PROVE  NumberInv'
<1>0. /\ Len(events) \in Nat /\ \A i \in 1..Len(events) : events[i].seq \in Nat
      /\ \A w \in Writers : slot[w] \in Nat
      /\ Executor \in Writers /\ \A c \in Clients : c \in Writers /\ c # Executor
  <2>1. events \in Seq(Event)
    BY DEF TypeOK
  <2>2. Len(events) \in Nat /\ \A i \in 1..Len(events) : events[i] \in Event
    BY <2>1, LenProperties
  <2> QED
    BY <2>2, ExecutorAssumption DEF TypeOK, Event, Writers
<1>1. CASE UNCHANGED <<events, slot>>
  BY <1>1 DEF NumberInv, EventsAreNumbered
<1>2. ASSUME NEW w \in Writers, CountEvents(w)
      PROVE  NumberInv'
  <2>1. /\ events' = events /\ slot'[w] = Len(events) + 1
        /\ \A v \in Writers : v # w => slot'[v] = slot[v]
    BY <1>2 DEF CountEvents, TypeOK
  <2>2. EventsAreNumbered'
    BY <2>1 DEF NumberInv, EventsAreNumbered
  <2>3. \A v \in Writers : slot'[v] <= Len(events') + 1
    BY <1>0, <2>1 DEF NumberInv
  <2>4. \A i \in 1..Len(events) : events[i].seq < Len(events) + 1
    BY <1>0 DEF NumberInv, EventsAreNumbered
  <2> QED
    BY <1>0, <2>1, <2>2, <2>3, <2>4 DEF NumberInv
<1>3. ASSUME NEW w \in Writers, Clears(w)
      PROVE  NumberInv'
  <2>1. /\ events' = events /\ slot'[w] = 0
        /\ \A v \in Writers : v # w => slot'[v] = slot[v]
    BY <1>3 DEF Clears, TypeOK
  <2>2. EventsAreNumbered'
    BY <2>1 DEF NumberInv, EventsAreNumbered
  <2> QED
    BY <1>0, <2>1, <2>2 DEF NumberInv
<1>4. ASSUME NEW m \in RunMessage, WriteEvent(Executor, m)
      PROVE  NumberInv'
  <2>1. /\ Len(events') = Len(events) + 1
        /\ \A i \in 1..Len(events) : events'[i] = events[i]
        /\ events'[Len(events) + 1].seq = slot[Executor]
        /\ slot[Executor] \in Nat \ {0} /\ slot'[Executor] = 0
        /\ \A v \in Writers : v # Executor => slot'[v] = slot[v]
    <3>1. m \in EventMessage
      BY DEF RunMessage
    <3>2. events'[Len(events) + 1] = [seq |-> slot[Executor], message |-> m]
      BY <1>0, <1>4, <3>1, LineIsWritten
    <3> QED
      BY <1>0, <1>4, <3>1, <3>2, LineIsWritten
  <2>2. slot[Executor] \in 1..(Len(events) + 1)
    BY <1>0, <2>1 DEF NumberInv
  <2>3. \A i \in 1..Len(events) : events[i].message \in RunMessage => events[i].seq < slot[Executor]
    BY <2>1 DEF NumberInv
  <2>4. EventsAreNumbered'
    <3>1. ASSUME NEW i \in 1..Len(events') PROVE events'[i].seq \in 1..i
      BY <1>0, <2>1, <2>2 DEF NumberInv, EventsAreNumbered
    <3>2. ASSUME NEW i \in 1..Len(events'), NEW j \in 1..Len(events'), i < j,
                 events'[i].message \in RunMessage, events'[j].message \in RunMessage
          PROVE  events'[i].seq < events'[j].seq
      <4>1. i \in 1..Len(events) /\ (j \in 1..Len(events) \/ j = Len(events) + 1)
        BY <1>0, <2>1, <3>2
      <4>2. CASE j \in 1..Len(events)
        BY <2>1, <3>2, <4>1, <4>2 DEF NumberInv, EventsAreNumbered
      <4>3. CASE j = Len(events) + 1
        BY <2>1, <2>3, <3>2, <4>1, <4>3
      <4> QED
        BY <4>1, <4>2, <4>3
    <3> QED
      BY <3>1, <3>2 DEF EventsAreNumbered
  <2>5. \A v \in Writers : slot'[v] <= Len(events') + 1
    BY <1>0, <2>1 DEF NumberInv
  <2> QED
    BY <2>1, <2>4, <2>5 DEF NumberInv
<1>5. ASSUME NEW c \in Clients, NEW m \in EventMessage \ RunMessage, WriteEvent(c, m)
      PROVE  NumberInv'
  <2>1. /\ Len(events') = Len(events) + 1
        /\ \A i \in 1..Len(events) : events'[i] = events[i]
        /\ events'[Len(events) + 1].seq = slot[c]
        /\ events'[Len(events) + 1].message \notin RunMessage
        /\ slot[c] \in Nat \ {0} /\ slot'[c] = 0
        /\ \A v \in Writers : v # c => slot'[v] = slot[v]
    <3>1. m \in EventMessage /\ c \in Writers
      BY <1>0
    <3>2. events'[Len(events) + 1] = [seq |-> slot[c], message |-> m]
      BY <1>5, <3>1, LineIsWritten
    <3> QED
      BY <1>5, <3>1, <3>2, LineIsWritten
  <2>2. slot[c] \in 1..(Len(events) + 1)
    BY <1>0, <2>1 DEF NumberInv
  <2>3. EventsAreNumbered'
    <3>1. ASSUME NEW i \in 1..Len(events') PROVE events'[i].seq \in 1..i
      BY <1>0, <2>1, <2>2 DEF NumberInv, EventsAreNumbered
    <3>2. ASSUME NEW i \in 1..Len(events'), NEW j \in 1..Len(events'), i < j,
                 events'[i].message \in RunMessage, events'[j].message \in RunMessage
          PROVE  events'[i].seq < events'[j].seq
      <4>1. j # Len(events) + 1 /\ i # Len(events) + 1
        BY <2>1, <3>2
      <4>2. i \in 1..Len(events) /\ j \in 1..Len(events)
        BY <1>0, <2>1, <4>1
      <4> QED
        BY <2>1, <3>2, <4>2 DEF NumberInv, EventsAreNumbered
    <3> QED
      BY <3>1, <3>2 DEF EventsAreNumbered
  <2>4. \A v \in Writers : slot'[v] <= Len(events') + 1
    BY <1>0, <2>1 DEF NumberInv
  <2>5. slot'[Executor] > 0 =>
          \A i \in 1..Len(events') :
              events'[i].message \in RunMessage => events'[i].seq < slot'[Executor]
    BY <1>0, <2>1 DEF NumberInv
  <2> QED
    BY <2>3, <2>4, <2>5 DEF NumberInv
<1> QED
  BY <1>1, <1>2, <1>3, <1>4, <1>5, LogSteps

\* Whatever clients append between the count and the append of the executor, the
\* events of the Run and its provider have numbers that rise, and no event is ahead
\* of its line (append_run_event).
THEOREM NumbersRise == Spec => []EventsAreNumbered
<1>1. Init => NumberInv
  BY DEF Init, NumberInv, EventsAreNumbered, Writers
<1>2. NumberInv => EventsAreNumbered
  BY DEF NumberInv
<1> QED
  BY <1>1, <1>2, NumberStep, TypeCorrect, PTL DEF Spec

\* Only an executor that looked too early, or a client that found no process, takes
\* a cancellation back.
THEOREM CancellationIsKept == Spec => CancellationSticks
<1> DEFINE Kept == record.status = "cancelled" /\ record'.status # "cancelled"
                     => \/ record'.status = "stale"
                        \/ epc = "writing" /\ current # "cancelled"
<1>1. ASSUME IInv, [Next]_vars PROVE [Kept]_vars
  <2>1. SUFFICES ASSUME Next, record.status = "cancelled",
                        record' # record, record'.status # "cancelled"
                 PROVE  record'.status = "stale" \/ (epc = "writing" /\ current # "cancelled")
    BY <1>1
  <2>2. CASE LaunchFails \/ PublishRunning
    BY <1>1, <2>1, <2>2 DEF LaunchFails, PublishRunning, IInv, StatusInv
  <2>3. CASE PublishTerminal
    BY <1>1, <2>1, <2>3 DEF PublishTerminal, IInv, VerdictInv, Deciding
  <2>4. ASSUME NEW c \in Clients, WriteStale(c) \/ WriteCancelled(c)
        PROVE  record'.status = "stale" \/ (epc = "writing" /\ current # "cancelled")
    BY <2>1, <2>4 DEF WriteStale, WriteCancelled, StaleRecord, CancelledRecord, OpenRecord
  <2> QED
    BY <2>1, <2>2, <2>3, <2>4
       DEF Next, Environment, LeaderExits, KilledFromOutside, ForkHelper, HelpersExit,
           ProduceEvidence, LoseEvidence, OrphanReaped, ExecutorStep, Launch,
           ExecutorCounts, LogStarted, TimeoutExpires, GraceExpires, Reap, Drain,
           LogOutput, OutputEnds, ReadCurrent, CollectAndDecide, LogVerified, Recollect,
           ExecutorCrashes, Poll, Cancel, StatusRead, StatusProbe, ClientCounts,
           ClientLogs, CancelRead, CancelSignal, ClientCrashes
<1> QED
  BY <1>1, Invariance, PTL DEF Spec, CancellationSticks

-----------------------------------------------------------------------------
(***************************************************************************)
(* RunLifecycle implements RunContract.                                    *)
(***************************************************************************)
\* A step that changes neither the status nor who may write it is a stutter.
LEMMA QuietStep ==
    ASSUME epc' \in {"done", "crashed"} <=> epc \in {"done", "crashed"},
           UNCHANGED cpc, record'.status = record.status
    PROVE  UNCHANGED Contract!contractVars
  BY DEF WritersNow, Contract!contractVars

\* When the executor alone moves to its end it leaves the writers.
LEMMA ExecutorLeaves ==
    ASSUME epc \notin {"done", "crashed"}, epc' \in {"done", "crashed"}, UNCHANGED cpc
    PROVE  Executor \in WritersNow /\ WritersNow' = WritersNow \ {Executor}
  BY ExecutorAssumption DEF WritersNow

\* Every step of the executor, of a client or of the process is a step the contract
\* allows: only the executor that saw the process end writes a verdict of its own,
\* and a client only ever says cancelled or stale.
LEMMA ContractStep ==
    ASSUME IInv, [Next]_vars
    PROVE  [Contract!Next]_(Contract!contractVars)
<1> USE DEF processVars, localVars, executorVars, clientVars, logVars
<1>1. CASE Environment
  <2>1. UNCHANGED <<record, epc, cpc>>
    BY <1>1 DEF Environment, LeaderExits, KilledFromOutside, ForkHelper, HelpersExit,
                ProduceEvidence, LoseEvidence, OrphanReaped
  <2> QED
    BY <2>1, QuietStep
<1>2. CASE LaunchFails
  <2>1. Executor \in WritersNow /\ WritersNow' = WritersNow \ {Executor}
    BY <1>2, ExecutorLeaves DEF LaunchFails
  <2>2. Contract!Conclude(Executor)
    BY <1>2, <2>1 DEF LaunchFails, LaunchFailedRecord, OpenRecord, Contract!Conclude,
                      Contract!Verdicts, Contract!Terminal, Contract!RunStatuses,
                      Contract!Active
  <2> QED
    BY <2>2 DEF Contract!Next
<1>3. CASE PublishRunning
  <2>1. record.status = "planned" /\ record'.status = "running"
    BY <1>3 DEF PublishRunning, RunningRecord, OpenRecord, IInv, StatusInv
  <2>2. Executor \in WritersNow /\ UNCHANGED WritersNow
    BY <1>3 DEF PublishRunning, WritersNow
  <2> QED
    BY <2>1, <2>2 DEF Contract!Launch, Contract!Next
<1>4. CASE PublishTerminal
  <2>1. Executor \in WritersNow /\ WritersNow' = WritersNow \ {Executor}
    BY <1>4, ExecutorLeaves DEF PublishTerminal
  <2>2. record'.status \in Terminal \ {"stale"} /\ record.status # "planned"
    BY <1>4 DEF PublishTerminal, IInv, VerdictInv, Deciding, StatusInv
  <2>3. Contract!Conclude(Executor)
    BY <2>1, <2>2 DEF Terminal, Contract!Conclude, Contract!Verdicts, Contract!Terminal,
                      Contract!RunStatuses, Contract!Active
  <2> QED
    BY <2>3 DEF Contract!Next
<1>5. CASE ExecutorCrashes
  <2>1. Executor \in WritersNow /\ WritersNow' = WritersNow \ {Executor}
    BY <1>5, ExecutorLeaves DEF ExecutorCrashes
  <2> QED
    BY <1>5, <2>1 DEF ExecutorCrashes, Contract!Leave, Contract!Next
<1>6. CASE \/ Launch \/ ExecutorCounts \/ LogStarted \/ TimeoutExpires \/ GraceExpires
           \/ Reap \/ Drain \/ LogOutput \/ OutputEnds \/ ReadCurrent \/ CollectAndDecide
           \/ LogVerified \/ Recollect
  <2>1. /\ UNCHANGED <<record, cpc>>
        /\ epc \notin {"done", "crashed"} /\ epc' \notin {"done", "crashed"}
    BY <1>6 DEF Launch, ExecutorCounts, ExecutorAppends, LogStarted, TimeoutExpires,
                GraceExpires, Reap, Drain, LogOutput, OutputEnds, ReadCurrent,
                CollectAndDecide, LogVerified, Recollect
  <2> QED
    BY <2>1, QuietStep
<1>7. ASSUME NEW c \in Clients, StatusRead(c) \/ CancelRead(c)
      PROVE  [Contract!Next]_(Contract!contractVars)
  <2>1. CASE record.status = "running"
    <3>1. cpc' \in {[cpc EXCEPT ![c] = "probe"], [cpc EXCEPT ![c] = "signal"]}
          /\ UNCHANGED <<record, epc>>
      BY <1>7, <2>1 DEF StatusRead, CancelRead
    <3>2. WritersNow' = WritersNow \cup {c}
      BY <3>1 DEF WritersNow, IInv, TypeOK
    <3> QED
      BY <2>1, <3>1, <3>2 DEF Contract!Join, Contract!Next
  <2>2. CASE record.status # "running"
    BY <1>7, <2>2, QuietStep DEF StatusRead, CancelRead
  <2> QED
    BY <2>1, <2>2
<1>8. ASSUME NEW c \in Clients, StatusProbe(c)
      PROVE  [Contract!Next]_(Contract!contractVars)
  <2>1. cpc[c] = "probe" /\ UNCHANGED <<record, epc>>
    BY <1>8 DEF StatusProbe
  <2>2. CASE cpc' = [cpc EXCEPT ![c] = "idle"]
    <3>1. c \in WritersNow /\ WritersNow' = WritersNow \ {c}
      BY <2>1, <2>2, ExecutorAssumption DEF WritersNow, IInv, TypeOK
    <3> QED
      BY <2>1, <3>1 DEF Contract!Leave, Contract!Next
  <2>3. CASE cpc' = [cpc EXCEPT ![c] = "writeStale"]
    <3>1. UNCHANGED WritersNow
      BY <2>1, <2>3 DEF WritersNow, IInv, TypeOK
    <3> QED
      BY <2>1, <3>1 DEF Contract!contractVars
  <2> QED
    BY <1>8, <2>2, <2>3 DEF StatusProbe
<1>9. ASSUME NEW c \in Clients, CancelSignal(c)
      PROVE  [Contract!Next]_(Contract!contractVars)
  <2>1. /\ cpc[c] = "signal" /\ UNCHANGED <<record, epc>>
        /\ cpc' \in {[cpc EXCEPT ![c] = "writeStale"], [cpc EXCEPT ![c] = "writeCancelled"]}
    BY <1>9 DEF CancelSignal
  <2>2. UNCHANGED WritersNow
    BY <2>1 DEF WritersNow, IInv, TypeOK
  <2> QED
    BY <2>1, <2>2 DEF Contract!contractVars
<1>10. ASSUME NEW c \in Clients, WriteStale(c) \/ WriteCancelled(c)
       PROVE  [Contract!Next]_(Contract!contractVars)
  <2>1. /\ cpc[c] \in {"writeStale", "writeCancelled"} /\ UNCHANGED epc
        /\ cpc' \in {[cpc EXCEPT ![c] = "logStale"], [cpc EXCEPT ![c] = "logCancelled"]}
    BY <1>10 DEF WriteStale, WriteCancelled
  <2>2. c \in WritersNow /\ WritersNow' = WritersNow \ {c}
    BY <2>1, ExecutorAssumption DEF WritersNow, IInv, TypeOK
  <2>3. record'.status \in {"cancelled", "stale"} /\ record.status # "planned"
    BY <1>10, <2>1 DEF WriteStale, WriteCancelled, StaleRecord, CancelledRecord,
                       OpenRecord, IInv, StatusInv
  <2>4. Contract!Conclude(c)
    BY <2>2, <2>3, ExecutorAssumption DEF Contract!Conclude, Contract!Verdicts
  <2> QED
    BY <2>4 DEF Contract!Next
<1>11. ASSUME NEW c \in Clients, ClientCounts(c) \/ ClientLogs(c)
       PROVE  [Contract!Next]_(Contract!contractVars)
  <2>1. /\ cpc[c] \in {"logStale", "logCancelled"} /\ UNCHANGED <<record, epc>>
        /\ cpc' \in {cpc, [cpc EXCEPT ![c] = "idle"]}
    BY <1>11 DEF ClientCounts, ClientLogs
  <2>2. UNCHANGED WritersNow
    BY <2>1 DEF WritersNow, IInv, TypeOK
  <2> QED
    BY <2>1, <2>2 DEF Contract!contractVars
<1>12. ASSUME NEW c \in Clients, ClientCrashes(c)
       PROVE  [Contract!Next]_(Contract!contractVars)
  <2>1. cpc' = [cpc EXCEPT ![c] = "idle"] /\ UNCHANGED <<record, epc>>
    BY <1>12 DEF ClientCrashes
  <2>2. WritersNow' = WritersNow \ {c}
    BY <2>1, ExecutorAssumption DEF WritersNow, IInv, TypeOK
  <2>3. CASE c \in WritersNow
    BY <2>1, <2>2, <2>3 DEF Contract!Leave, Contract!Next
  <2>4. CASE c \notin WritersNow
    BY <2>1, <2>2, <2>4 DEF Contract!contractVars
  <2> QED
    BY <2>3, <2>4
<1>13. CASE UNCHANGED vars
  BY <1>13, QuietStep DEF vars
<1> QED
  BY <1>1, <1>2, <1>3, <1>4, <1>5, <1>6, <1>7, <1>8, <1>9, <1>10, <1>11, <1>12, <1>13
     DEF Next, ExecutorStep, Poll, Cancel

\* A controller may rely on the contract: a terminal status is replaced at most once
\* by each call that had seen the Run running, and never by a later reader.
THEOREM ContractHolds == Spec => ImplementsContract
<1>1. Init => Contract!Init
  BY ExecutorAssumption DEF Init, PlannedRecord, OpenRecord, Contract!Init, WritersNow
<1> QED
  BY <1>1, ContractStep, Invariance, PTL DEF Spec, ImplementsContract, Contract!Spec

================================================================================
