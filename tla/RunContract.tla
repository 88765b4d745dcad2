------------------------------ MODULE RunContract ------------------------------
(***************************************************************************)
(* What a controller may rely on when it polls one Run: the abstract       *)
(* specification that RunLifecycle implements.                             *)
(*                                                                         *)
(* `status` is the semantic status in run.json.  `writers` are the         *)
(* processes that may still replace it: the executor from the moment the   *)
(* Run is planned, and every status or cancel call that has read the Run   *)
(* while it was running.  Whoever is not in `writers` can only read.       *)
(***************************************************************************)

CONSTANTS
    Clients,    \* concurrent status and cancel calls
    Executor    \* the process inside NativeRunExecutor.execute

VARIABLES status, writers

contractVars == <<status, writers>>

RunStatuses == {"planned", "running", "succeeded", "failed", "blocked",
                "cancelled", "stale"}

Active == {"planned", "running"}

Terminal == RunStatuses \ Active

\* What each kind of writer may report.  Only the executor has seen the native
\* process end, so only it may claim success, failure or missing evidence; a
\* client can only say that it cancelled the Run or found no process.
Verdicts(w) ==
    IF w = Executor THEN Terminal \ {"stale"} ELSE {"cancelled", "stale"}

Init ==
    /\ status = "planned"
    /\ writers = {Executor}

\* The executor publishes the started process.
Launch ==
    /\ status = "planned"
    /\ Executor \in writers
    /\ status' = "running"
    /\ UNCHANGED writers

\* A client becomes a writer only by seeing the Run running.
Join(c) ==
    /\ status = "running"
    /\ writers' = writers \cup {c}
    /\ UNCHANGED status

\* A writer that has nothing to report, or dies, leaves the status alone.
Leave(w) ==
    /\ w \in writers
    /\ writers' = writers \ {w}
    /\ UNCHANGED status

\* A writer reports once.  A Run that never started can only be reported as
\* failed, by the executor that could not start it.
Conclude(w) ==
    /\ w \in writers
    /\ status' \in Verdicts(w)
    /\ status = "planned" => w = Executor /\ status' = "failed"
    /\ writers' = writers \ {w}

Next ==
    \/ Launch
    \/ \E c \in Clients : Join(c)
    \/ \E w \in Clients \cup {Executor} : Leave(w) \/ Conclude(w)

Spec == Init /\ [][Next]_contractVars

================================================================================
