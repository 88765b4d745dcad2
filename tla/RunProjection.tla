----------------------------- MODULE RunProjection -----------------------------
(***************************************************************************)
(* The Attention items of one Run (run_projection.py): what the operator   *)
(* is told of its record, its process, its events, its artifacts and its   *)
(* OMX Team.  A report is what the projection has read of a Run; an item   *)
(* is its kind and its target.  Messages and the wording of the evidence   *)
(* are left out.                                                           *)
(***************************************************************************)
EXTENDS TeamObservation

CONSTANT Paths     \* paths of artifacts

RunStatus == {"planned", "running", "succeeded", "failed", "blocked", "cancelled", "stale"}

Liveness == {"not_started", "running", "finished", "missing"}

(* An event by what _event_attention sees in its provider_event_type: none *)
(* (an event of the harness), a word for approval or for input together    *)
(* with one for waiting, or anything else.                                 *)
EventType == {"none", "approval", "input", "other"}

Artifact == [kind : {"result", "plan", "stdout", "stderr", "events", "expected"},
             path : Paths, required : BOOLEAN, exists : BOOLEAN, filled : BOOLEAN]

(* The failure of the record: none, one about evidence, or another.        *)
Failure == {"none", "evidence", "other"}

Report == [status : RunStatus, liveness : Liveness, failure : Failure,
           events : Seq(EventType), artifacts : SUBSET Artifact, teams : SUBSET Team]

Kind == {"approval_required", "input_required", "blocked", "failed", "stale",
         "artifact_issue", "ready_for_review"}

Item(kind, tab, entity, id) == [kind |-> kind, tab |-> tab, entity |-> entity, id |-> id]

RunItem(kind, tab) == Item(kind, tab, "run", "run")

-----------------------------------------------------------------------------
(* What the projection reads of a Run.                                     *)

(* collect_run_artifacts with the declared paths: the result and the plan  *)
(* are required whether the Run has ended or not.                          *)
Candidate(kind, path, files, required) ==
    [kind |-> kind, path |-> path, required |-> required,
     exists |-> path \in DOMAIN files, filled |-> path \in DOMAIN files /\ files[path]]

Collected(own, declared, files) ==
    {Candidate(kind, own[kind], files, kind \in {"result", "plan"}) : kind \in DOMAIN own}
    \cup {Candidate("expected", path, files, TRUE) :
            path \in declared \ {own[kind] : kind \in DOMAIN own}}

(* _artifacts: when they cannot be collected, those of the record.         *)
ArtifactsOf(collected, recorded, readable) == IF readable THEN collected ELSE recorded

(* _teams: the first one that is available, of the names found in the      *)
(* events in alphabetical order; none for a Run without events.            *)
TeamsOf(events, found) ==
    IF events = <<>> THEN {}
    ELSE {Observed(found[i]) : i \in
            {j \in DOMAIN found : /\ Observed(found[j]).available
                                  /\ \A k \in 1 .. (j - 1) : ~Observed(found[k]).available}}

(* A timeout before that ends the reading of every Run with it.            *)
ReadFails(events, found) ==
    /\ events # <<>>
    /\ \E i \in DOMAIN found : /\ Raises(found[i])
                              /\ \A k \in 1 .. (i - 1) : ~Observed(found[k]).available

(* The detail of the Run (RunInspectionReader.read) asks the first of the  *)
(* same names and no other, and shows that Team whether it is available    *)
(* or not.                                                                 *)
DetailTeam(events, found) ==
    IF events = <<>> \/ found = <<>> THEN {} ELSE {Observed(found[1])}

-----------------------------------------------------------------------------
(* _event_attention: the requests after which no other provider event came.*)
Asking(events) ==
    {i \in DOMAIN events : /\ events[i] \in {"approval", "input"}
                           /\ \A j \in DOMAIN events : j > i => events[j] # "other"}

EventItems(events) ==
    {Item(IF events[i] = "approval" THEN "approval_required" ELSE "input_required",
          "Activity", "event", i) : i \in Asking(events)}

(* _team_attention.                                                        *)
NeedsReview(worker, team) ==
    \/ worker.state \in {"blocked", "failed"}
    \/ worker.alive = "no"
    \/ worker.name \in team.silent

TeamItems(team) ==
    {Item(IF w.state = "failed" THEN "failed" ELSE "blocked", "Agents", "agent", w.name) :
        w \in {v \in team.workers : NeedsReview(v, team)}}
    \cup {Item(t.status, "Tasks", "task", t.id) :
            t \in {s \in team.tasks : s.status \in {"blocked", "failed"}}}

(* _artifact_attention.                                                    *)
ArtifactItems(artifacts) ==
    {Item("artifact_issue", "Artifacts", "artifact", a.path) :
        a \in {b \in artifacts : b.required /\ ~(b.exists /\ b.filled)}}

(* The items about the status of the record.                               *)
IsStale(r) == r.status = "stale" \/ (r.status = "running" /\ r.liveness = "missing")

Results(artifacts) == {a \in artifacts : a.kind = "result" /\ a.exists}

ReviewItem(artifacts) ==
    IF Results(artifacts) = {} THEN RunItem("ready_for_review", "Evidence")
    ELSE Item("ready_for_review", "Artifacts", "artifact",
              (CHOOSE a \in Results(artifacts) : TRUE).path)

StatusItems(r) ==
    {i \in {RunItem("blocked", "Overview")} : r.status = "blocked"}
    \cup {i \in {RunItem("failed", IF r.failure = "evidence" THEN "Evidence" ELSE "Overview")} :
            r.status = "failed"}
    \cup {i \in {RunItem("stale", "Overview")} : IsStale(r)}
    \cup {i \in {ReviewItem(r.artifacts)} : r.status = "succeeded"}

(* _attention_items.                                                       *)
Items(r) ==
    (IF r.status \in {"running", "blocked"} THEN EventItems(r.events) ELSE {})
    \cup StatusItems(r)
    \cup (UNION {TeamItems(t) : t \in r.teams})
    \cup ArtifactItems(r.artifacts)
=============================================================================
