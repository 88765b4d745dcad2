# COMX Harness in TLA+

Specifications of `comx_harness`, the controller-neutral execution layer for the native Codex
and OMX programs, and of the desktop workbench over it: a Run of a native provider, the retry
protocol that makes calls idempotent, the Strategies that string Runs together, the Missions
that compile to Strategies and are judged by Git evidence, the detached workers that execute
them, the catalog of Projects and Workspaces, and the window that reads all of it in the
background. TLC checks each module on small instances; TLAPS proves invariants of every
state machine among them, and theorems about the pure ones, for every value of the constants.

Paths below are relative to `src/src/comx_harness/`.

## The system

A caller (a command line, an agent, the ADE workbench) asks the harness for work in a
workspace directory. Everything durable lives in files under `.comx-agent/v2` of that
workspace; there is no server, and every call may be made by any number of processes. The
only lock is an `flock` per retry token.

| Component | State it keeps | Operations | Talks to |
|---|---|---|---|
| `NativeRunExecutor` (`native_execution.py`) | the process group it started; two drain threads | `execute` | run.json, events.jsonl, evidence files, the operating system |
| `HarnessService` (`application/harness_service.py`) | none of its own | `plan`, `run`, `resume`, `handoff`, `status`, `cancel`, `events`, `artifacts` | executor, run/event/handoff/idempotency stores, signals |
| `IdempotencyStore` (`storage/idempotency_store.py`) | one binding file and one lock file per token | `claim`, `resolve`, `bind` | `flock` |
| Run, event, handoff, strategy, mission stores (`storage/`) | JSON files, one JSONL file per Run and Strategy | read, write, append | `json_file_store.write_json` |
| `StrategyService`, `StrategyStageExecutor` (`application/strategy_*.py`) | strategy.json, its events | `execute`, `status`, `events`, `artifacts`, `validate` | the harness tools (run, resume, handoff, status, artifacts) |
| `MissionCompiler`, `MissionService`, `MissionObservationService` | mission.json, the Git snapshot of before, the Git evidence | `plan`, `validate`, `register`, `execute`, `status` | Strategy, git |
| `DetachedOperationService`, `DetachedStrategyService`, `worker`, `strategy_worker` (`ade/`) | request, launch envelope, streams, result | `start`, `execute_operation`, `execute_strategy` | subprocesses, Harness and Strategy services |
| `WorkspaceService`, `AdeStateStore` (`ade/workspace_service.py`, `ade/state_store.py`) | catalog.json; managed worktrees | `register_project`, `adopt_workspace`, `discover_worktrees`, `create_managed_worktree`, `inspect_workspace` | git |
| Run projection, OMX Team observation (`ade/run_projection.py`, `ade/omx_team_*.py`) | none | project Runs to Attention items | stores, native omx commands |
| `BackgroundRefreshCoordinator` (`ade/background_refresh.py`) | one future, one pending request | `request`, `_poll`, `close` | one worker thread, the Tk timers |
| ADE workbench (`ade/tk_*.py`, `ade/controller.py`) | selection, view, table, panes, view-context.json | select, inspect, open Attention, plan, start, refresh, close | two coordinators, catalog, projections, detached services |
| Native providers, registry, capability matrix | none | probe, resolve, validate; build argument vectors | installed programs |

Behaviour that is hard, and what makes each component right:

* **One Run.** `status` and `cancel` run in other processes than the executor and take no
  lock: records are read, decided on and overwritten later. The native leader may leave a
  helper behind that holds the pipes; a timeout races a late exit; any process may die. Right
  means: success is proven by an exit code and evidence, a failure names its real cause, stale
  means gone, a cancellation has a cause and is not lost, the artifact digests are those of the
  final bytes, and every Run gets a verdict unless something holds its output open for ever.
* **Retries.** Three kinds of call share tokens and one key space, calls die between any two
  file writes, and the artifact of a handoff can change while it is read. Right means: one
  request and at most one native launch for each token, a replay that returns what was asked
  for, and a handoff record that names the digest the target was told.
* **Strategies.** Executors write whole copies of a record that nothing locks, attempts reuse
  the token of their Stage, and errors leave `execute` half way. Right means: a success rests
  on evidence and on conditions that hold in the same record, a Run is bound only for a Stage
  whose turn it is and never started twice, and the log does not run ahead of the record.
* **Missions.** Calls die between the record and its baseline, and a snapshot is several Git
  commands while the repository changes. Right means: profiles compile to definitions that the
  schema accepts; only the request on record is worked on; the baseline is not taken again once
  work has begun; and the evidence says what git status showed of the repository.
* **Detached work.** Starters race on the files of one strategy_id, and a worker may be
  up before its launch is recorded. Right means: one worker, an envelope only its own worker
  judges, no verdict without a result, and a verdict once the work has ended.
* **Catalog.** Several processes read one file, ask git and write the whole file back, without
  a lock. Right means: a file that every process can read, nothing lost while writers take
  turns, and worktrees of dead calls found again.
* **Workbench.** Handlers run one at a time, but results come back to a selection that has
  moved on, timers run inside a modal dialog, and Runs change on their own. Right means: one
  read at a time, none forgotten, a screen that catches up, and details of what was asked for.
* **Projections.** Native commands refuse, answer nonsense or nothing. Right means: trouble is
  told, what is told is true of the Run, and each item opens something that is there.

`PROJECT.json` lists all hazards with their lines, and the properties that watch them.

## Modules

| Module | What it is |
|---|---|
| `RunContract` | what observers of one Run are promised about its status |
| `RunLifecycle` | executor, status and cancel callers, native process group, files |
| `MCRunLifecycle` | the symmetry of the clients |
| `RunLifecycleProofs` | inductive invariant, safety, event numbers, refinement of `RunContract` |
| `OnceContract` | one request and at most one launch for a token |
| `IdempotentOperations` | run, resume and handoff with retry tokens |
| `MCIdempotentOperations` | symmetry |
| `IdempotentOperationsProofs` | inductive invariant, safety, refinement of `OnceContract` |
| `StrategyDefinitions` | a Strategy and what the schema accepts |
| `MissionCompiler` | the execution profiles as Strategies |
| `StrategyContract` | what one executor of a Strategy promises |
| `StrategyRuntime` | callers of execute, the shared record, the Runs of its Stages |
| `MCStrategyRuntime` | the catalogues of definitions that are checked |
| `StrategyProofs` | compiled Strategies are valid; type, success, progress and the refinement of `OnceContract` for any callers; the rest, and the refinement of `StrategyContract`, for one at a time |
| `LaunchContract` | one execution, its result and one verdict for a strategy_id |
| `DetachedLaunch` | racing calls of start, the worker, the files between them |
| `DetachedLaunchProofs` | inductive invariant, safety, refinement of `LaunchContract` |
| `NativeProviders` | discovery, capability matrix, validation of a Mission |
| `MissionContract` | one request, one baseline before any work, verdicts about it |
| `MissionRegistry` | execute and status of one mission_id, Git snapshots and evidence |
| `MCMissionRegistry` | profiles and machines that are checked, symmetry |
| `MissionRegistryProofs` | type, work, evidence, soundness of the verdict, refinement of `MissionContract` |
| `WorkspaceCatalog` | calls over catalog.json and git worktrees |
| `MCWorkspaceCatalog` | directories and repositories that are checked, symmetry |
| `WorkspaceCatalogProofs` | validity of the file, what taking turns gives |
| `TeamObservation` | the answers of five native commands as one Team |
| `RunProjection` | the Attention items of one Run |
| `BackgroundRefresh` | one coordinator, as operators |
| `Workbench` | the window over two coordinators, and restarts |
| `MCWorkbench` | Runs and reports that are checked |
| `WorkbenchProofs` | type, one load at a time |
| `ObservationProofs` | theorems about projection, Teams and validation |

How they fit: `StrategyRuntime` uses `StrategyDefinitions`; it takes the harness tools as their
results, and each of those results is what a lower module establishes: a key has one request and
one Run (`IdempotentOperations`, its `OnceContract`), and the executor of a Run concludes at most
one verdict, which is not what the record goes on saying: a status or cancel call may write stale
or cancelled before and after it (`RunLifecycle`, its `RunContract`). The keys of its Stages
implement the same `OnceContract`, so that the abstraction loses nothing of what the lower module
promises. `MCStrategyRuntime` feeds it what `MissionCompiler` compiles. `DetachedLaunch` takes what
the worker executes as one step, which may never come, as `RunConcludes` and `ExecuteConcludes`
allow. `MissionRegistry` extends `NativeProviders` and validates with it; its Strategy is
`StrategyRuntime` reduced to begun and over, and its worker is what `LaunchContract`, which
`DetachedLaunch` implements, says of it: at most one execution. `RunProjection` extends
`TeamObservation`, and `Workbench` extends `RunProjection` and `BackgroundRefresh`: the Runs in
its table produce the Attention items that `Items` computes for a report.

### Correspondence to the code

`PROJECT.json` maps every definition that models code to its lines. In all modules one read
or write of a shared file, one system call, or one tool call is one action, in the order of
the code; the local decisions between two of them belong to the first.

* **RunLifecycle.** `record` is run.json, `events` events.jsonl, `evidence` the files a success
  needs, `leader`, `helper` and the signals that were sent are the process group. `epc` walks
  through `execute`: `Launch` or `LaunchFails`, `PublishRunning`, `LogStarted`, `TimeoutExpires`
  (SIGTERM to the group), `GraceExpires` (SIGKILL), `Reap`, `Drain` (the end of the pipes, which a
  helper delays), `LogOutput`, `ReadCurrent`, `CollectAndDecide`, `LogVerified`, `Recollect`,
  `PublishTerminal`. A client is at most one call at a time: `StatusRead`, `StatusProbe`,
  `WriteStale`; `CancelRead`, `CancelSignal`, `WriteCancelled` or `WriteStale`; then the event in
  two steps (the count and the append). A provider's output, evidence, and exits, and signals from
  elsewhere, are `Environment`.
* **IdempotentOperations.** Callers take `Claim`, then one of the three `Resolve...` actions,
  then `WritePlan`, `WriteInitialRecord`, `Bind`, the release of the lock, `Launch` and
  `Finish`. A handoff does so twice, nested: its own lock is held while its target goes through
  all of it (`SelectArtifact`, `ReadText`, the target's call, `WriteHandoff`, `BindHandoff`).
  `RunScopes` says which namespaces a token of `run` may spell, since `run` does not prefix it.
* **StrategyRuntime.** `record` is strategy.json and `copy[c]` the record that caller c carries
  through `execute`; each `_replace_stage` or `_update_strategy` is a `Save` of the whole copy.
  `_attempt` splits into the call (`Bind`, `Launch`, `Return`, or `Replay` when the key is bound),
  `Evaluate` (the evidence), and the ways out: `Fails` for the exceptions that become evidence,
  `Escapes` for those that do not. Of a Run, `state` is what run.json says and `verdict` what its
  executor concluded (`RunEnds`, over whatever is on disk); `RunOverwritten` is the stale or
  cancelled of a client, the status call in a rival's evidence (`strategy_evidence.py:32`)
  included. So a record may say succeeded while the Run behind it says stale, and `SuccessIsEarned`
  speaks of the verdict.
* **DetachedLaunch.** `launch` is launch.json, reduced to its status and whose pid it carries;
  `Touch` is the exclusive creation of the streams; the worker reads the request, waits for a
  pid or gives up, executes, and writes its verdict over the envelope it has seen.
* **MissionRegistry.** `record`, `before`, `evidence` are the three files of a Mission, `staged`
  the temporary name that every writer of the evidence shares. A call goes `Execute`
  (validation), `ReadMission`, `WriteMission`, a snapshot (`TakeHead`, `TakeRefs`, `TakeFiles`),
  `WriteBaseline`, the work (`ExecuteStrategy`, `StrategyEnds`, or `StartDetached` and the
  worker), and the judgement: `ReadBaseline`, a snapshot again, `StageEvidence`,
  `ReplaceEvidence`; a call of status (`ReadStatus`) goes straight to that. `ExecuteStrategy` is
  `StrategyService.execute` up to its branch: it validates again and may raise before any Strategy
  exists, and the `finally` of the Mission judges all the same; `CreateStrategy` writes
  strategy.json in a step of its own. A known file is as in HEAD, has one of two other contents,
  is deleted, or is renamed with the rename staged. `Entries` is what `git status -z` and
  `_file_states` make of it, the old name cut by three characters included, and `FolderEntries` the
  single entry of a directory (`Nested`) of which HEAD knows no file.
* **WorkspaceCatalog.** `catalog` is the file, `mem[c]` the copy and the arguments that a call
  holds, `made` the managed worktrees. Each load, each git command and each save is a step.
  Starting a window is `register`, `adopt`, `discover` in one process.
* **TeamObservation, RunProjection, NativeProviders.** Operators, no state: `Observed(n)` is
  `OmxTeamObserver.read`, `Items(r)` is `_attention_items`, `Collected` is
  `collect_run_artifacts`, `SupportOf` is `_native_capability_state`, `Issues` is the
  validation.
* **BackgroundRefresh, Workbench.** A coordinator is a record; `Requested`, `Taken` and `Resumed`
  are `request` and the two halves of `_poll` around the callback. `file` is view-context.json,
  `screen` what is drawn, `refresh` and `inspect` the two coordinators. An action is a handler of
  the window with everything it calls; `LoadRefresh` and `LoadInspection` are the worker threads.
  `later` orders the Runs by the last write of run.json, of which `Recent` takes the first `Limit`
  of a workspace. After a failed inspection a modal dialog keeps `_poll` on the stack: `waiting` is
  its local variable, and the timers go on meanwhile.

## Runs

| Run | Instance | Shows |
|---|---|---|
| `RunLifecycle` | two clients, everybody may die, one required file | safety of the record under races; refinement of `RunContract` |
| `RunLiveness` | one client, two files of which one may vanish, one output line, the executor may die | proof of success, diagnosis of failure, numbers of the events, conclusion, reconciliation |
| `IdempotentOperations` | two callers that may die, one token, two bodies and contents, a run token that spells a handoff's target | retries, replays, provenance; refinement of `OnceContract` |
| `Strategy` | one caller at a time that may die and be followed, all definitions of `Everything` | a success is earned, Runs are justified, log and record agree, every step leads on; refinement of `StrategyContract`; termination |
| `StrategyRace` | two callers, two definitions under one id | what survives when both execute and clients overwrite the records of their Runs: earned success, one request and one start for each key (refinement of `OnceContract`) |
| `DetachedLaunch` | three starters, two definitions, two may die | one worker, recorded before it works, an honest envelope; refinement of `LaunchContract`; a verdict once the work has ended |
| `MissionRegistry` | two calls of execute one after the other, both may die; one of status; two tracked files and one in an untracked directory; one change of the repository | whether what was done is judged and how; refinement of `MissionContract` (whose work is done, and when) |
| `WorkspaceCatalog` | three calls that may die, a Project inside another, a directory without Git, two branches with one folder name | a readable file, nothing lost by turns, orphans found |
| `Workbench` | two Runs in one of two workspaces, of which it shows one (`Limit`), three acts, two openings, one failing read | one load at a time, screen and inspection catch up |
| `StaleLosesNoEvidence`, `ResumeOnlyForBlockers`, `AttentionOpensItsRun` | the smallest that shows it | sentences of the repository that the code does not keep; each is a finding in `PROJECT.json` |

**Bounds, and why they are enough.** Two clients, callers or executors: every race in this code is
between one actor that read and one that writes; a third starter is in `DetachedLaunch` since there
two may lose. One token: different tokens share no file except through the aliasing that
`RunScopes` brings in. `MaxOutput` bounds provider lines, which only lengthen events.jsonl.
`Counts` are the blocker counts that a reviewer may write; gates allow zero, so 0 and 1 are both
sides, and none is written in `StrategyRace`, whose Strategies have no gate. Strategies have two
Stages and a finish, with every node type, condition, and failure policy, besides the compiled ones
with up to five Stages: a condition and a halt are about a Stage and an earlier one. `MaxAttempts`
and `MaxStages` are the schema's. Two calls of a Mission: the second one finds what the first has
left, and a third would find the same; one change (a commit of all there is, the refs, or one
file), before or after any step, also falls between two commands of a snapshot. A change and its
undoing inside one snapshot make it unsteady, of which nothing is claimed. Three catalog calls are
one that loses a Project, one that writes next to it, and one that reads; four ids are a Project
and its Workspace for two calls. `MaxActions` is three: select a row, open an entry, go elsewhere,
in each order, with the reads in between; `MaxOpens` is two for one restart; `Limit` is one, so
that a Run which is written pushes the other one out, where the code has 25. A caller of
`IdempotentOperations` or `StrategyRuntime` may call again after a return or a crash, without a
bound.

**Deadlock** is checked for Runs, retries and Strategies. It is off in `DetachedLaunch`,
`MissionRegistry`, `WorkspaceCatalog` and `Workbench`, whose calls are made once each: the system
stops when all have ended and the bounds are used up.

**What is assumed of the surroundings.** Files of one name are replaced atomically; git
commands answer at once; ids from uuid4 differ; a `flock` dies with its process. Managed
worktrees are not removed behind the catalog's back, and `MissionRegistry` looks at the
repository from the registration to the last call. Its run and its theorems, except for the type
and the rightness of a verdict, take calls of execute that do not overlap (`Overlap` is FALSE): two
that do, and both find no record, register over each other, as do two processes of `StrategyRace`.

**Fairness.** Weak fairness throughout. `RunLifecycle`: the executor's steps, since it is a running
thread with its timeout and grace clocks; init, which reaps the process of a dead executor; each
client's status polls, which `CrashIsReconciled` needs and the workbench's refresh does. Nothing
makes a process exit that outlives the leader and holds its pipes, and the drain waits for it
without a bound, since the timeout has been spent (`native_execution.py:90`); `RunConcludes`
therefore excuses the executor that stands there for good (`HeldByHelper`) and no other.
`StrategyRuntime`: a caller is a running thread; that its Run ends is not assumed, and
`ExecuteConcludes` excuses a caller that stays inside of one. `DetachedLaunch`: both processes run;
what a worker executes may go on for ever, which `LaunchConcludes` excuses. `Workbench`: the event
loop runs its timers and every read ends; reads fail at most `MaxFailures` times, so a Team that
times out for ever (`omx_team_native.py:132`) is outside `ScreenCatchesUp`. No fairness for
crashes, for the provider's success, for the operator, who may leave a dialog open, or for callers
to call. `MissionRegistry` and `WorkspaceCatalog` state no liveness: a call that dies is simply
over.

**Mutants.** Each property of a passing run is paired with a variant of an action, written
before the action in the same module under a comment that starts with "Variant", which
violates it: a dropped guard, a lost check, a swapped order. They are not part of any
specification.

## Proofs

All proof modules hold for any sets of processes, tokens, files and definitions, and any set of
processes that may crash; the assumptions are those the modules declare (`ExecutorAssumption`,
`EvidenceAssumption`, `MissionAssumption`, `CatalogAssumption`, and so on), which TLC evaluates.

* `RunLifecycleProofs`: the type invariant, `SucceededIsProven`, `FailureIsDiagnosed`,
  `StaleMeansGone`, `CancelledWasSignalled`, `DigestCoversVerification`, `EventsAreNumbered`,
  `CancellationSticks` and the refinement of `RunContract`. None is inductive alone: whether a
  stale write is right depends on what the writer saw when it probed, so the invariant ties every
  intermediate place (a client about to write, the executor between its decision and its record)
  to facts about the process that no later step can undo (reaped stays reaped, a signal stays
  sent, the clock stays expired). Each action then only has to keep those. For the numbers, what
  is invariant is that whoever has counted holds at most the number of the next line, and that the
  count of the Run itself is above every number it has logged; it logs one event at a time, so no
  line of its own comes in between.
* `IdempotentOperationsProofs`: the type invariant, `LaunchedAsPlanned`, `ReplayIsFaithful`,
  `ProvenanceMatches`, `ReplayFindsItsFiles`, `ProvenanceIsStable`, and the refinement of
  `OnceContract`. The invariant says that two callers between claim and release never work on the
  same key, what the holder of a lock knows of the files of its key, and that a key that is bound
  has the files a replay reads. A launch happens after the release, so the invariant also says
  that whoever is to launch is the one that bound.
* `DetachedLaunchProofs`: the type invariant, `OneWorker`, `WorkIsRecorded`, `VerdictHasResult`,
  `EnvelopeGoesOn`, and the refinement of `LaunchContract`. The creation of the stream files
  elects one call, the owner; without an owner the envelope says at most queued, and afterwards
  only the owner, its worker, and queued envelopes of calls that lost write it. The refinement
  needs three facts more (`RefInv`): a worker that waits has read a definition, since the request
  precedes the streams; it has begun exactly when it has seen an envelope; and after a verdict
  nobody is at work or about to start one.
* `StrategyProofs`: every profile, for every request, compiles to a valid Strategy; and for the
  executors of any catalogue of valid Strategies the invariant grows in five layers. `TInv` adds to
  the types what each place in `execute` asks of the Stage and the attempt, `Launched` says that a
  launch belongs to one caller and its Run is as that caller left it, and `EInv` says of every copy
  in memory what the record must satisfy: each success in it is backed by the verdict of a Run's
  executor, every Stage before the current one is over, every later one pending. Since a write puts
  a whole copy on disk, `SuccessIsEarned` follows for any number of callers, who may overwrite each
  other at will. `LInv` adds the status of the current Stage at each place, and `SInv`, under
  `OneCaller`, that the copy is the record, that no Run is bound ahead of the current Stage and no
  event is ahead of the record: `RunsAreJustified`, `LogFollowsRecord` and `ImplementsContract`, in
  which every `Save` is a step of the contract. The assumption is needed: two executors that both
  found no record put older Stages back. Two results need only `TInv` or `Launched` and hold for
  any callers. `ExecuteAdvances`: a variant function (`Remaining`: Stages left, then attempts, then
  the place) falls with every step of a caller, so that a call is bounded in the steps of its own,
  and nobody else can raise it. `ImplementsOnce`: a key gets one request and one launch, since a
  launch has an owner and whoever comes later to a bound key finds the Run.
* `MissionRegistryProofs`: the type invariant, `WorkIsTheMissions`, `ForegroundIsJudged`,
  `VerdictIsRespect`, `VerdictIsSound`, and the refinement of `MissionContract`. A call past
  `ReadMission` knows that the record is its own request only because nobody else can be in there:
  with calls that do not overlap, the invariant says that whoever is between `register` and its
  end is alone, and that whoever has yet to write a baseline has started no work.
  `ForegroundIsJudged` needs this too: of two calls that overlap, one may return before the other
  writes a first baseline. A verdict is right for two reasons. `PassedIsRespected`, a lemma about
  `compare` for every pair of trees, goes through the rename that `_file_states` cuts short and the
  untracked directory whose contents no entry shows: passed means that a Mission left alone what
  it must of what git status shows, and the lemma says exactly which changes are not seen; and
  `SteadyInv` says of every snapshot on its way that, if the repository did not change under it,
  it shows the one state it saw. These two need no turns. That the verdict is about the baseline
  on file does (`BasisInv`): a call that judges holds the baseline on disk, which nobody can write
  any more. `MissionContract` lets a verdict come without any work, as a second validation that
  fails makes it do, and allows one piece of work by the calls and one by the worker.
* `WorkspaceCatalogProofs`: the type invariant, `CatalogIsValid`, `TakingTurnsIsEnough`,
  `DiscoveryRecovers`. Overlaps may put an old copy back, so what is invariant is that
  every copy a call holds is a valid catalog by itself. For writers that take turns the copy is
  moreover the file, ids in use are below `issued`, and the worktrees a discovery still has to
  look at together with the registered ones are all it has been shown.
* `WorkbenchProofs`: the type invariant and `OneLoadAtATime`. The dialog is the hard case: while
  it is open the coordinator it interrupted must neither wait nor be resumed twice.
* `ObservationProofs`: of the Attention items of every report (`ReadyMeansSucceeded`,
  `RequestsAreOpen`, `TargetsExist`, `TroubleIsTold`, `UnfinishedIsAnIssue`; `TargetsExist` says of
  a worker or task that the detail of the Run shows it exactly when the first Team of its events is
  the one that answered), of Teams
  (`OneTeam`, `AbsentIsQuiet`, `DeadIsNoticed`), and of validation (`ValidityIsOneProvider`).

Only model-checked: liveness under fairness (`RunConcludes`, `CrashIsReconciled`,
`ExecuteConcludes`, `LaunchConcludes`, `ScreenCatchesUp`, `InspectionIsAnswered`), which is out of
the prover's reach; and the statements the code does not keep, which have counterexamples. Every
other property of a run is a theorem.

## What the code does that its documents do not say

Beside the three findings:

* A Run that is still going is always listed with an artifact issue, since result.md is
  required from the start (`UnfinishedIsAnIssue`; `docs/usage-guide.ko.md:126` speaks of missing
  artifacts of finished Runs).
* codex-then-omx-review passes validation without OMX installed (`ValidityIsOneProvider`): the
  handoff to OMX asks for artifacts only, which are always supported.
* A window that starts in a directory without Git ends with a CalledProcessError, which
  `suppress(FileNotFoundError, OSError)` does not cover (`tk_project_application.py:41-43`), after
  the Project was registered. `WorkspaceCatalog` has this start as the failure "git".
* After a cancellation the liveness of a Run is answered from its status: finished, while the
  process may still be handling the signal (`native_execution.py:271`).
* The body of a handoff is read after its digest was checked and may be newer
  (`handoff_execution.py:38`).
* Of two executors of one strategy_id with different definitions, the later write decides
  which definition the record shows (`StrategyRace` has both).
* A client's event may carry the number of another event, since the number is the count of lines
  at an earlier read (`event_normalization.py:24`; its docstring says "ordered"). An Attention
  item names a provider event by its number (`run_projection.py:280`), and the detail view
  highlights the first text that contains it. `EventsAreNumbered` is what holds.
* A Strategy's record may say succeeded while the Run behind a success says stale or cancelled: a
  rival's status or a cancel overwrites it after it was judged (`RunOverwritten`).
* Git evidence does not see inside untracked directories: `git status` runs without
  `--untracked-files=all` and a directory entry gets no digest
  (`git_policy_evidence.py:104,113-118`), so that an edit in there passes;
  `docs/architecture/mission-runtime.md:226-228` speaks of the SHA-256 of dirty files. `Respected`
  and `PassedIsRespected` state what is compared.
* Attention items are about the first Team that is available (`run_projection.py:133-136`), the
  detail of the Run shows the first Team that its events name (`tk_run_inspection.py:35-39`): with a
  Team that is gone before one that is there, an item's worker is not in the detail
  (`TargetsExist`).
* A HarnessError leaves `execute` with its Stage running on disk, and every later call returns that
  record (`strategy_stage_execution.py:135`; `Escapes`).
* A starter that dies after the queued envelope, or a worker that gives up waiting for its pid,
  leaves an envelope that never changes again; `LaunchConcludes` excuses both.
* A Mission whose first call died between record and baseline never gets Git evidence.

## Not modelled

`PROJECT.json` gives each component's reason. In short: texts of prompts, argument vectors and
version output, paths and permissions, the reuse of process ids, the drawing of the window with its
Mission tab and its buttons for cancel, resume and handoff (whose calls are actions of
`RunLifecycle` and `IdempotentOperations`), artifact and diff display, external editors, recipes.
One write of a JSON file is atomic in the models except for the Git evidence of a Mission. Whether
the files a criterion asks for exist is a free choice in `StrategyRuntime` except for the blocker
report. `MissionRegistry` has no workspace without Git, and none of the content of the status it
returns.

## Plan

Done: every component that decides anything, with the proofs above. What is left:

1. The two steps of `write_json`, whose temporary name is fixed, outside the Git evidence of a
   Mission: writers of one run.json or launch.json may also publish or lose each other's bytes.
2. Reads of the refresh that are not of one moment: it reads its Runs one after another.
