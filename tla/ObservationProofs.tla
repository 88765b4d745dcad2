--------------------------- MODULE ObservationProofs ---------------------------
(***************************************************************************)
(* Theorems about what the operator is told: the Attention items of a Run  *)
(* (RunProjection), the OMX Teams they rest on (TeamObservation), and the  *)
(* Missions that validation lets pass on a machine (NativeProviders).      *)
(***************************************************************************)
EXTENDS RunProjection, NativeProviders, TLAPS

LEMMA ItemFields ==
    ASSUME NEW kind, NEW tab, NEW entity, NEW id
    PROVE  /\ Item(kind, tab, entity, id).kind = kind
           /\ Item(kind, tab, entity, id).tab = tab
           /\ Item(kind, tab, entity, id).entity = entity
           /\ Item(kind, tab, entity, id).id = id
BY DEF Item

(* Which items there are, by the part of the projection that makes them.   *)
LEMMA EventItemFields ==
    ASSUME NEW events, NEW i \in EventItems(events)
    PROVE  /\ i.kind \in {"approval_required", "input_required"}
           /\ i.entity = "event" /\ i.id \in Asking(events)
           /\ i.kind = "approval_required" <=> events[i.id] = "approval"
BY ItemFields DEF EventItems

LEMMA TeamItemFields ==
    ASSUME NEW t \in Team, NEW i \in TeamItems(t)
    PROVE  /\ i.kind \in {"blocked", "failed"}
           /\ \/ i.entity = "agent" /\ \E w \in t.workers : w.name = i.id /\ NeedsReview(w, t)
              \/ i.entity = "task" /\ \E s \in t.tasks : s.id = i.id /\ s.status = i.kind
BY ItemFields DEF TeamItems

LEMMA ArtifactItemFields ==
    ASSUME NEW artifacts, NEW i \in ArtifactItems(artifacts)
    PROVE  /\ i.kind = "artifact_issue" /\ i.entity = "artifact"
           /\ \E a \in artifacts : a.path = i.id /\ a.required /\ ~(a.exists /\ a.filled)
BY ItemFields DEF ArtifactItems

LEMMA StatusItemFields ==
    ASSUME NEW r \in Report, NEW i \in StatusItems(r)
    PROVE  /\ i.kind \in {"blocked", "failed", "stale", "ready_for_review"}
           /\ i.kind = "ready_for_review" => r.status = "succeeded"
           /\ \/ i.entity = "run"
              \/ i.entity = "artifact" /\ \E a \in r.artifacts : a.path = i.id
<1>1. ASSUME i = ReviewItem(r.artifacts)
      PROVE  /\ i.kind = "ready_for_review"
             /\ \/ i.entity = "run"
                \/ i.entity = "artifact" /\ \E a \in r.artifacts : a.path = i.id
  <2>1. CASE Results(r.artifacts) = {}
      BY <1>1, <2>1, ItemFields DEF ReviewItem, RunItem
  <2>2. CASE Results(r.artifacts) # {}
    <3> DEFINE a == CHOOSE x \in Results(r.artifacts) : TRUE
    <3>1. a \in Results(r.artifacts)
        BY <2>2
    <3>2. a \in r.artifacts
        BY <3>1 DEF Results
    <3>3. i = Item("ready_for_review", "Artifacts", "artifact", a.path)
        BY <1>1, <2>2 DEF ReviewItem
    <3> HIDE DEF a
    <3> QED BY <3>2, <3>3, ItemFields
  <2> QED BY <2>1, <2>2
<1>2. \/ \E kind \in {"blocked", "failed", "stale"} : \E tab : i = RunItem(kind, tab)
      \/ i = ReviewItem(r.artifacts) /\ r.status = "succeeded"
    BY DEF StatusItems
<1> QED BY <1>1, <1>2, ItemFields DEF RunItem

LEMMA PartsOfItems ==
    ASSUME NEW r \in Report, NEW i \in Items(r)
    PROVE  \/ i \in EventItems(r.events) /\ r.status \in {"running", "blocked"}
           \/ i \in StatusItems(r)
           \/ \E t \in r.teams : t \in Team /\ i \in TeamItems(t)
           \/ i \in ArtifactItems(r.artifacts)
<1>1. r.teams \subseteq Team
    BY DEF Report
<1>2. CASE r.status \in {"running", "blocked"}
    BY <1>1, <1>2 DEF Items
<1>3. CASE r.status \notin {"running", "blocked"}
    BY <1>1, <1>3 DEF Items
<1> QED BY <1>2, <1>3

(* READY_FOR_REVIEW is said of the Runs that succeeded, of all and of no   *)
(* others.                                                                 *)
THEOREM ReadyMeansSucceeded ==
    ASSUME NEW r \in Report
    PROVE  (\E i \in Items(r) : i.kind = "ready_for_review") <=> r.status = "succeeded"
<1>1. ASSUME NEW i \in Items(r), i.kind = "ready_for_review" PROVE r.status = "succeeded"
    BY <1>1, PartsOfItems, EventItemFields, StatusItemFields, TeamItemFields,
       ArtifactItemFields
<1>2. ASSUME r.status = "succeeded" PROVE \E i \in Items(r) : i.kind = "ready_for_review"
  <2>1. ReviewItem(r.artifacts) \in Items(r)
      BY <1>2 DEF Items, StatusItems
  <2>2. ReviewItem(r.artifacts).kind = "ready_for_review"
      BY ItemFields DEF ReviewItem, RunItem
  <2> QED BY <2>1, <2>2
<1> QED BY <1>1, <1>2

(* A request for approval or input is shown only for a Run that can still  *)
(* be answered, and only while no other event of the provider came later.  *)
THEOREM RequestsAreOpen ==
    ASSUME NEW r \in Report, NEW i \in Items(r),
           i.kind \in {"approval_required", "input_required"}
    PROVE  /\ r.status \in {"running", "blocked"}
           /\ i.id \in DOMAIN r.events /\ r.events[i.id] \in {"approval", "input"}
           /\ \A j \in DOMAIN r.events : j > i.id => r.events[j] # "other"
<1>1. i \in EventItems(r.events) /\ r.status \in {"running", "blocked"}
    BY PartsOfItems, StatusItemFields, TeamItemFields, ArtifactItemFields
<1> QED BY <1>1, EventItemFields DEF Asking

(* What an item of an agent or a task asks of the Team that is shown.      *)
IsIn(i, team) ==
    \/ i.entity = "agent" /\ \E w \in team.workers : w.name = i.id
    \/ i.entity = "task" /\ \E t \in team.tasks : t.id = i.id

(* The Team that is projected is the first of the found ones exactly when  *)
(* that one is available; if not, the detail shows a Team without anybody. *)
LEMMA DetailShowsFirst ==
    ASSUME NEW events, NEW found \in Seq(Native), NEW t \in TeamsOf(events, found)
    PROVE  /\ DetailTeam(events, found) = {Observed(found[1])}
           /\ Observed(found[1]).available => t = Observed(found[1])
           /\ ~Observed(found[1]).available => Observed(found[1]) = Unavailable
<1>1. events # <<>>
    BY DEF TeamsOf
<1>2. PICK i \in DOMAIN found : /\ Observed(found[i]).available /\ t = Observed(found[i])
                                /\ \A k \in 1 .. (i - 1) : ~Observed(found[k]).available
    BY <1>1 DEF TeamsOf
<1>3. i \in Nat /\ i >= 1 /\ found # <<>>
    OBVIOUS
<1>4. ASSUME Observed(found[1]).available PROVE i = 1
  <2>1. 1 \notin 1 .. (i - 1)
      BY <1>2, <1>4
  <2> QED BY <1>3, <2>1
<1>5. ASSUME ~Observed(found[1]).available PROVE Observed(found[1]) = Unavailable
  <2>1. Projected(found[1]).available
      BY DEF Projected
  <2> QED BY <1>5, <2>1 DEF Observed
<1> QED BY <1>1, <1>2, <1>3, <1>4, <1>5 DEF DetailTeam

(* What the detail of a Run shows of what an item opens, when its reads    *)
(* answer as they answered the projection.  The event, the artifact or the *)
(* Run is there; the agent or the task is there exactly when the first     *)
(* Team that the events name is available, for the projection goes on to   *)
(* the next names and the detail does not.                                 *)
THEOREM TargetsExist ==
    ASSUME NEW r \in Report, NEW found \in Seq(Native), r.teams = TeamsOf(r.events, found),
           NEW i \in Items(r)
    PROVE  \/ i.entity = "run"
           \/ i.entity = "event" /\ i.id \in DOMAIN r.events
           \/ i.entity = "artifact" /\ \E a \in r.artifacts : a.path = i.id
           \/ /\ i.entity \in {"agent", "task"}
              /\ (\E t \in DetailTeam(r.events, found) : IsIn(i, t))
                    <=> Observed(found[1]).available
<1>1. CASE i \in EventItems(r.events)
    BY <1>1, EventItemFields DEF Asking
<1>2. CASE i \in StatusItems(r)
    BY <1>2, StatusItemFields
<1>3. ASSUME NEW t \in r.teams, t \in Team, i \in TeamItems(t)
      PROVE  /\ i.entity \in {"agent", "task"}
             /\ (\E u \in DetailTeam(r.events, found) : IsIn(i, u))
                   <=> Observed(found[1]).available
  <2>1. i.entity \in {"agent", "task"} /\ IsIn(i, t)
      BY <1>3, TeamItemFields DEF IsIn
  <2>2. ~IsIn(i, Unavailable)
      BY DEF IsIn, Unavailable
  <2>3. /\ DetailTeam(r.events, found) = {Observed(found[1])}
        /\ Observed(found[1]).available => t = Observed(found[1])
        /\ ~Observed(found[1]).available => Observed(found[1]) = Unavailable
      BY DetailShowsFirst
  <2> QED BY <2>1, <2>2, <2>3
<1>4. CASE i \in ArtifactItems(r.artifacts)
    BY <1>4, ArtifactItemFields
<1> QED BY <1>1, <1>2, <1>3, <1>4, PartsOfItems

(* A Run that failed, is blocked, went stale or whose process is missing   *)
(* is never passed over in silence.                                        *)
THEOREM TroubleIsTold ==
    ASSUME NEW r \in Report,
           r.status \in {"failed", "blocked", "stale"}
           \/ (r.status = "running" /\ r.liveness = "missing")
    PROVE  \E i \in Items(r) : i.kind \in {"failed", "blocked", "stale"}
<1>1. CASE r.status = "failed"
  <2>1. \E tab : RunItem("failed", tab) \in Items(r)
      BY <1>1 DEF Items, StatusItems
  <2> QED BY <2>1, ItemFields DEF RunItem
<1>2. CASE r.status = "blocked"
  <2>1. RunItem("blocked", "Overview") \in Items(r)
      BY <1>2 DEF Items, StatusItems
  <2> QED BY <2>1, ItemFields DEF RunItem
<1>3. CASE IsStale(r)
  <2>1. RunItem("stale", "Overview") \in Items(r)
      BY <1>3 DEF Items, StatusItems
  <2> QED BY <2>1, ItemFields DEF RunItem
<1> QED BY <1>1, <1>2, <1>3 DEF IsStale

(* A Run that has not written its result yet is reported as one with an    *)
(* artifact issue, whatever its status: also while it runs as it should.   *)
THEOREM UnfinishedIsAnIssue ==
    ASSUME NEW r \in Report, NEW own, NEW declared, NEW recorded,
           NEW files \in UNION {[S -> BOOLEAN] : S \in SUBSET Paths},
           r.artifacts = ArtifactsOf(Collected(own, declared, files), recorded, TRUE),
           "result" \in DOMAIN own, own["result"] \notin DOMAIN files
    PROVE  Item("artifact_issue", "Artifacts", "artifact", own["result"]) \in Items(r)
<1> DEFINE Own(kind) == Candidate(kind, own[kind], files, kind \in {"result", "plan"})
<1>1. Own("result") \in r.artifacts
  <2>1. \A kind \in DOMAIN own : Own(kind) \in {Own(k) : k \in DOMAIN own}
      OBVIOUS
  <2>2. {Own(k) : k \in DOMAIN own} \subseteq r.artifacts
      BY DEF ArtifactsOf, Collected
  <2> QED BY <2>1, <2>2
<1>2. Own("result").required /\ ~Own("result").exists /\ Own("result").path = own["result"]
  <2>1. Own("result").required <=> "result" \in {"result", "plan"}
      BY Zenon DEF Candidate
  <2>4. "result" \in {"result", "plan"}
      OBVIOUS
  <2>2. Own("result").exists <=> own["result"] \in DOMAIN files
      BY Zenon DEF Candidate
  <2>3. Own("result").path = own["result"]
      BY Zenon DEF Candidate
  <2> HIDE DEF Own
  <2> QED BY <2>1, <2>2, <2>3, <2>4
<1> HIDE DEF Own
<1>3. Item("artifact_issue", "Artifacts", "artifact", Own("result").path)
         \in ArtifactItems(r.artifacts)
    BY <1>1, <1>2 DEF ArtifactItems
<1>4. ArtifactItems(r.artifacts) \subseteq Items(r)
    BY DEF Items
<1> QED BY <1>2, <1>3, <1>4

-----------------------------------------------------------------------------
(* At most one Team of a Run is projected.                                 *)
THEOREM OneTeam ==
    ASSUME NEW events, NEW found \in Seq(Native),
           NEW t \in TeamsOf(events, found), NEW u \in TeamsOf(events, found)
    PROVE  t = u
<1> DEFINE First == {j \in DOMAIN found :
                       /\ Observed(found[j]).available
                       /\ \A k \in 1 .. (j - 1) : ~Observed(found[k]).available}
<1>1. PICK i \in First, j \in First : t = Observed(found[i]) /\ u = Observed(found[j])
    BY DEF TeamsOf
<1>2. DOMAIN found \subseteq Nat /\ \A k \in DOMAIN found : k >= 1
    OBVIOUS
<1>3. ~(i < j) /\ ~(j < i)
  <2>1. ASSUME NEW x \in First, NEW y \in First, x < y PROVE FALSE
    <3>1. x \in 1 .. (y - 1)
        BY <1>2, <2>1
    <3> QED BY <3>1
  <2> QED BY <2>1
<1> QED BY <1>1, <1>2, <1>3

(* A Team that is not there, or of which nothing can be read, says nothing.*)
THEOREM AbsentIsQuiet ==
    ASSUME NEW n \in Native, Absent(n) \/ FailsWith(n, "broken")
    PROVE  TeamItems(Observed(n)) = {}
<1>1. Observed(n) = Unavailable
    BY DEF Observed
<1> QED BY <1>1 DEF Unavailable, TeamItems

(* A worker whose heartbeat the monitor reports as gone is noticed, even   *)
(* when the summary still calls it alive.                                  *)
THEOREM DeadIsNoticed ==
    ASSUME NEW n \in Native, ~Absent(n), ~FailsWith(n, "broken"),
           NEW w \in n.config.data, Told(n.monitor),
           w \in DOMAIN n.monitor.data.alive, n.monitor.data.alive[w] = FALSE
    PROVE  \E i \in TeamItems(Observed(n)) :
              i.entity = "agent" /\ i.id = w /\ i.kind \in {"blocked", "failed"}
<1> DEFINE v == [name |-> w, state |-> StateOf(w, n.monitor),
                 alive |-> AliveOf(w, n.summary, n.monitor)]
<1>1. AliveOf(w, n.summary, n.monitor) = "no"
    BY DEF AliveOf, Beat
<1>2. v \in Observed(n).workers
    BY DEF Observed, Projected
<1>3. v.alive = "no" /\ v.name = w
    BY <1>1
<1> HIDE DEF v
<1>4. Item(IF v.state = "failed" THEN "failed" ELSE "blocked", "Agents", "agent", w)
         \in TeamItems(Observed(n))
    BY <1>2, <1>3 DEF TeamItems, NeedsReview
<1> QED BY <1>4, ItemFields

-----------------------------------------------------------------------------
(* Validation lets a Mission pass exactly when the provider that runs its  *)
(* first Stage is compatible.  The login does not count, and neither does  *)
(* the reviewer: a Mission that hands over to OMX passes without OMX.      *)
THEOREM ValidityIsOneProvider ==
    ASSUME NEW m \in Machine
    PROVE  /\ MissionIsValid(m, "codex-native") <=> Compatible(m, "codex")
           /\ MissionIsValid(m, "omx-native") <=> Compatible(m, "omx")
           /\ MissionIsValid(m, "codex-then-omx-review") <=> Compatible(m, "codex")
<1>1. ASSUME NEW p \in Providers
      PROVE  /\ Support(m, p, "detached_execution") = ConditionalIf(Compatible(m, p))
             /\ Support(m, p, "structured_events") = ConditionalIf(Compatible(m, p))
             /\ Support(m, p, "resume") = ConditionalIf(Compatible(m, p))
             /\ Support(m, p, "artifacts") = "supported"
  <2>1. /\ "run" \in SupportedOperations(m, p) <=> Compatible(m, p)
        /\ "resume" \in SupportedOperations(m, p) <=> Compatible(m, p)
      BY DEF SupportedOperations, Operations
  <2>2. ProviderInfo(m, p).operations = SupportedOperations(m, p)
      BY DEF ProviderInfo
  <2> QED BY <2>1, <2>2 DEF Support, SupportOf, ConditionalIf
<1> DEFINE Bad(p, c) == Support(m, p, c) \in {"unsupported", "unknown"}
<1>2. ASSUME NEW p \in Providers
      PROVE  /\ Bad(p, "detached_execution") <=> ~Compatible(m, p)
             /\ Bad(p, "structured_events") <=> ~Compatible(m, p)
             /\ Bad(p, "resume") <=> ~Compatible(m, p)
             /\ ~Bad(p, "artifacts")
    BY <1>1 DEF ConditionalIf
<1>3. ASSUME NEW needs
      PROVE  (Issues(m, needs) = {}) <=>
                \A n \in needs : \A c \in Requirements(n) : ~Bad(n.provider, c)
  <2> DEFINE Lacking(n) == {<<n.provider, c>> : c \in {d \in Requirements(n) :
                               Bad(n.provider, d)}}
  <2>1. Issues(m, needs) = UNION {Lacking(n) : n \in needs}
      BY DEF Issues
  <2>2. \A n : Lacking(n) = {} <=> \A c \in Requirements(n) : ~Bad(n.provider, c)
      OBVIOUS
  <2> HIDE DEF Lacking, Bad
  <2>3. UNION {Lacking(n) : n \in needs} = {} <=> \A n \in needs : Lacking(n) = {}
      OBVIOUS
  <2> QED BY <2>1, <2>2, <2>3
<1> HIDE DEF Bad
<1>4. \A p : /\ Requirements(Need("native_run", p, RunNeeds)) = RunNeeds
             /\ Requirements(Need("handoff", p, {"artifacts"})) = {"artifacts"}
             /\ Requirements(Need("native_resume", p, {"resume", "artifacts"}))
                   = {"resume", "artifacts"}
    BY DEF Requirements, Need
<1>5. \A node, p, needs : Need(node, p, needs).provider = p
    BY DEF Need
<1>6. "codex" \in Providers /\ "omx" \in Providers
    BY DEF Providers
<1>7. MissionIsValid(m, "codex-native") <=> Compatible(m, "codex")
  <2>1. StageNeeds("codex-native") = {Need("native_run", "codex", RunNeeds)}
      BY DEF StageNeeds
  <2> QED BY <1>2, <1>3, <1>4, <1>5, <1>6, <2>1 DEF MissionIsValid, RunNeeds
<1>8. MissionIsValid(m, "omx-native") <=> Compatible(m, "omx")
  <2>1. StageNeeds("omx-native") = {Need("native_run", "omx", RunNeeds)}
      BY DEF StageNeeds
  <2> QED BY <1>2, <1>3, <1>4, <1>5, <1>6, <2>1 DEF MissionIsValid, RunNeeds
<1>9. MissionIsValid(m, "codex-then-omx-review") <=> Compatible(m, "codex")
  <2>1. StageNeeds("codex-then-omx-review") =
           {Need("native_run", "codex", RunNeeds), Need("handoff", "omx", {"artifacts"}),
            Need("native_resume", "codex", {"resume", "artifacts"})}
      BY DEF StageNeeds
  <2> QED BY <1>2, <1>3, <1>4, <1>5, <1>6, <2>1 DEF MissionIsValid, RunNeeds
<1> QED BY <1>7, <1>8, <1>9
=============================================================================
