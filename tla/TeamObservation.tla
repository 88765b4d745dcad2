---------------------------- MODULE TeamObservation ----------------------------
(***************************************************************************)
(* An OMX Team as its native JSON commands report it (OmxTeamObserver.read *)
(* and project_omx_team).  OMX owns the Team; five commands are asked one  *)
(* after another, and each may answer, refuse, answer nothing that can be  *)
(* read, or not answer in time.  Names, roles, panes and messages are left *)
(* out: a worker is its name, state and heartbeat, a task its id and       *)
(* status.                                                                 *)
(***************************************************************************)

EXTENDS Naturals, Sequences

CONSTANTS
    Workers,       \* names of workers
    TaskIds        \* ids of tasks

AgentStatus == {"idle", "working", "blocked", "done", "failed", "draining", "unknown"}

(* Three values, because nobody may have reported the heartbeat.           *)
Alive == {"yes", "no", "unreported"}

(* A status that OMX reports and AgentStatus does not know.                *)
NativeStatus == AgentStatus \cup {"foreign"}

TaskStatus == {"pending", "blocked", "in_progress", "completed", "failed"}

Task == [id : TaskIds, status : TaskStatus]

(* What one command says: data, an envelope that is not ok, nothing that   *)
(* parses or an exit code, or silence until the timeout.                   *)
Answers == {"data", "refused", "broken", "late"}

Reply(Data) == [answer : Answers, data : Data]

(* The summary reports a heartbeat for some workers, and the monitor       *)
(* reports heartbeats and states for some, not always the same ones.       *)
Summary == [alive : UNION {[W -> BOOLEAN] : W \in SUBSET Workers}, silent : SUBSET Workers]

Monitor == [alive : UNION {[W -> BOOLEAN] : W \in SUBSET Workers},
            state : UNION {[W -> NativeStatus] : W \in SUBSET Workers}]

(* What the five commands say of one Team; status is asked first.          *)
Native == [installed : BOOLEAN,
           status : {"missing", "present", "broken", "late"},
           config : Reply(SUBSET Workers),
           tasks : Reply(SUBSET Task),
           summary : Reply(Summary),
           monitor : Reply(Monitor)]

Worker == [name : Workers, state : AgentStatus, alive : Alive]

Team == [available : BOOLEAN, workers : SUBSET Worker, tasks : SUBSET Task,
         silent : SUBSET Workers]

-----------------------------------------------------------------------------
(* project_omx_team.                                                       *)

(* The answer of a command that was not ok counts as none.                 *)
Told(reply) == reply.answer = "data"

StateOf(w, monitor) ==
    IF Told(monitor) /\ w \in DOMAIN monitor.data.state
    THEN IF monitor.data.state[w] \in AgentStatus THEN monitor.data.state[w] ELSE "unknown"
    ELSE "unknown"

Beat(alive) == IF alive THEN "yes" ELSE "no"

(* _worker_alive: the monitor goes before the summary.                     *)
AliveOf(w, summary, monitor) ==
    IF Told(monitor) /\ w \in DOMAIN monitor.data.alive THEN Beat(monitor.data.alive[w])
    ELSE IF Told(summary) /\ w \in DOMAIN summary.data.alive
         THEN Beat(summary.data.alive[w]) ELSE "unreported"

Projected(n) ==
    [available |-> TRUE,
     workers |-> {[name |-> w, state |-> StateOf(w, n.monitor),
                   alive |-> AliveOf(w, n.summary, n.monitor)] : w \in n.config.data},
     tasks |-> IF Told(n.tasks) THEN n.tasks.data ELSE {},
     silent |-> IF Told(n.summary) THEN n.summary.data.silent ELSE {}]

Unavailable == [available |-> FALSE, workers |-> {}, tasks |-> {}, silent |-> {}]

-----------------------------------------------------------------------------
(* OmxTeamObserver.read.                                                   *)

(* The Team is not there to be read.                                       *)
Absent(n) ==
    \/ ~n.installed
    \/ n.status = "missing"
    \/ n.status = "present" /\ n.config.answer = "refused"

(* The commands that are asked, in their order.                            *)
Asked(n) ==
    IF ~n.installed THEN <<>>
    ELSE IF n.status # "present" THEN <<n.status>>
    ELSE IF n.config.answer # "data" THEN <<n.status, n.config.answer>>
    ELSE <<n.status, n.config.answer, n.tasks.answer, n.summary.answer, n.monitor.answer>>

(* The first command that fails decides; a timeout is a SubprocessError,   *)
(* which the observer does not catch.                                      *)
FailsWith(n, failure) ==
    \E i \in DOMAIN Asked(n) :
       /\ Asked(n)[i] = failure
       /\ \A j \in 1 .. (i - 1) : Asked(n)[j] \notin {"broken", "late"}

Raises(n) == FailsWith(n, "late")

Observed(n) == IF Absent(n) \/ FailsWith(n, "broken") THEN Unavailable ELSE Projected(n)
=============================================================================
