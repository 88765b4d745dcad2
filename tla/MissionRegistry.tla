---------------------------- MODULE MissionRegistry ----------------------------
(***************************************************************************)
(* The directory of one mission_id and the Git evidence kept in it:        *)
(* MissionService.execute and register, the detached AdeMissionTools       *)
(* .execute, MissionObservationService.status and the snapshots and the    *)
(* comparison of GitPolicyEvidenceService.  Callers call execute once each *)
(* and observers call status once each; the repository changes meanwhile.  *)
(* A snapshot is one Git command after another, so it need not show any    *)
(* one state of the repository.  The Strategy that does the work is        *)
(* StrategyRuntime, its worker DetachedLaunch: here only whether it has    *)
(* begun and ended.                                                        *)
(***************************************************************************)
EXTENDS Naturals, Sequences, NativeProviders

CONSTANTS
    Requests,      \* the requests that share this mission_id
    Profile,       \* Profile[r]: the profile of request r
    Machines,      \* what the probes may find when a call validates
    None,          \* nothing
    Callers,       \* the calls of execute
    Observers,     \* the calls of status
    Files,         \* the files of the repository
    Tracked,       \* the files that the first HEAD knows
    Nested,        \* the files of the one directory of the repository
    Dirty,         \* the files that are edited, or there untracked, before the Mission comes
    Protected,     \* _PROTECTED_PATHS: files a Mission may not change
    Short,         \* files whose name has at most three characters
    MaxChanges,    \* bound: how often the repository changes
    Crashable,     \* the calls whose process may die
    Overlap        \* whether two calls of execute may overlap

ASSUME MissionAssumption ==
    /\ None \notin Requests
    /\ Profile \in [Requests -> {"codex-native", "omx-native", "codex-then-omx-review"}]
    /\ Machines \subseteq Machine
    /\ Callers \cap Observers = {}
    /\ Tracked \subseteq Files
    /\ Nested \subseteq Files
    /\ Dirty \subseteq Files
    /\ Protected \subseteq Files
    /\ Short \subseteq Files
    /\ MaxChanges \in Nat
    /\ Overlap \in BOOLEAN

VARIABLES
    record,        \* mission.json: the request it holds
    before,        \* git-before.json
    staged,        \* git-policy-evidence.json.tmp, the one temporary name of every writer
    evidence,      \* git-policy-evidence.json
    repo,          \* the Git repository of the workspace
    changes,       \* how often it has changed
    strategy,      \* strategy.json: the request whose definition it holds
    worker,        \* its detached worker
    launched,      \* the request of launch
    worked,        \* who began a Strategy for which request, in this order
    pc,            \* pc[p]: where call p is
    asked,         \* asked[c]: the request and the mode of call c
    held,          \* held[p]: the snapshot p is taking
    base,          \* base[p]: the baseline p compares with
    outcome        \* outcome[p]: how p ends once the evidence is written

files == <<record, before, staged, evidence>>
work == <<strategy, worker, launched, worked>>
call == <<asked, base, outcome>>
vars == <<record, before, staged, evidence, repo, changes, strategy, worker, launched,
          worked, pc, asked, held, base, outcome>>

Calls == Callers \cup Observers

Ended == {"returned", "raised", "crashed"}

-----------------------------------------------------------------------------
(* The repository, and what git status shows of it.  The branch, the       *)
(* remotes and their tracking refs are one value, and HEAD is a number     *)
(* with the files that it knows.  A known file is as in HEAD, has one of   *)
(* two other contents, is deleted, or is renamed within its directory with *)
(* the rename staged; an unknown file is not there or has a content.       *)

FileStatus == {"clean", "edited", "rewritten", "deleted", "renamed"}

Commit == [number : 0 .. MaxChanges, has : SUBSET Files]

CommitOf(number, has) == [number |-> number, has |-> has]

Repository == [head : Commit, refs : 0 .. MaxChanges, tree : [Files -> FileStatus]]

Repo(head, refs, tree) == [head |-> head, refs |-> refs, tree |-> tree]

StatusesOf(r, f) == IF f \in r.head.has THEN FileStatus ELSE {"clean", "edited", "rewritten"}

Present(r, f) == IF f \in r.head.has THEN r.tree[f] # "deleted" ELSE r.tree[f] # "clean"

(* git status runs without --untracked-files=all: a directory of which     *)
(* HEAD knows no file is a single entry, without a digest as it is no      *)
(* file, for as long as something is in it.                                *)
Hidden(r) == IF Nested \cap r.head.has = {} THEN Nested ELSE {}

Folder == <<"folder", None, "untracked">>

FolderEntries(r) == {Folder : f \in {g \in Hidden(r) : Present(r, g)}}

(* One entry for a changed file: the path, and its status with its digest. *)
(* The -z output gives a rename as two entries, the new name and then the  *)
(* old name bare, of which the code reads the first two characters as a    *)
(* status and drops the third.                                             *)
Entries(f, status) ==
    CASE status = "clean" -> {}
      [] status = "renamed" -> {<<"new", f, "renamed">>, <<"cut", f, "renamed">>}
      [] OTHER -> {<<"path", f, status>>}

FileStates(r) == FolderEntries(r) \cup UNION {Entries(f, r.tree[f]) : f \in Files \ Hidden(r)}

(* A bare old name of at most three characters leaves an empty path, which *)
(* GitFileState refuses.                                                   *)
Unreadable(r) == \E f \in Short : r.tree[f] = "renamed"

PathOf(entry) == <<entry[1], entry[2]>>

(* What compare finds between two snapshots.                               *)
ChangedFiles(b, a) ==
    {PathOf(e) : e \in (b.files \ a.files) \cup (a.files \ b.files)}

ProtectedChanged(b, a) == {p \in ChangedFiles(b, a) : p[1] = "path" /\ p[2] \in Protected}

UnrelatedPreserved(b, a) == b.files \subseteq a.files

(* Variant: the dirty files of before are not looked for in after.         *)
PassedIgnoringDirt(b, a) ==
    /\ b.head = a.head
    /\ b.refs = a.refs
    /\ ProtectedChanged(b, a) = {}

Passed(b, a) ==
    /\ b.head = a.head
    /\ b.refs = a.refs
    /\ ProtectedChanged(b, a) = {}
    /\ UnrelatedPreserved(b, a)

Verdict(b, a) == [before |-> b, after |-> a, passed |-> Passed(b, a)]

-----------------------------------------------------------------------------
(* A snapshot carries, beside what the code keeps, the repositories that   *)
(* were there while it was taken (seen, a history variable): it is steady  *)
(* when there was only one.                                                *)
Taken(head, refs, states, seen) ==
    [head |-> head, refs |-> refs, files |-> states, seen |-> seen]

NoHead == CommitOf(0, {})

NoSnapshot == Taken(NoHead, 0, {}, {})

Found == Repo(CommitOf(0, Tracked), 0,
              [f \in Files |-> IF f \in Dirty THEN "edited" ELSE "clean"])

Init ==
    /\ record = None /\ before = None /\ staged = None /\ evidence = None
    /\ repo = Found /\ changes = 0
    /\ strategy = None /\ worker = "none" /\ launched = None /\ worked = <<>>
    /\ pc = [p \in Calls |-> "idle"]
    /\ asked = [c \in Callers |-> None]
    /\ held = [p \in Calls |-> NoSnapshot]
    /\ base = [p \in Calls |-> None]
    /\ outcome = [p \in Calls |-> "returned"]

Goto(p, label) == pc' = [pc EXCEPT ![p] = label]

-----------------------------------------------------------------------------
(* execute: validation passes or fails, by what the native providers and   *)
(* the capability matrix say at that moment.                               *)
Execute(c) ==
    /\ pc[c] = "idle"
    /\ Overlap \/ \A d \in Callers : pc[d] \in {"idle"} \cup Ended
    /\ \E r \in Requests, mode \in {"foreground", "detached"}, m \in Machines :
          /\ asked' = [asked EXCEPT ![c] = [request |-> r, mode |-> mode]]
          /\ Goto(c, IF MissionIsValid(m, Profile[r]) THEN "register" ELSE "raised")
    /\ UNCHANGED <<files, repo, changes, work, held, base, outcome>>

(* Variant: a registered mission is registered again.                      *)
ReadMissionAnew(c) ==
    /\ pc[c] = "register"
    /\ Goto(c, IF record \in {None, asked[c].request} THEN "write" ELSE "raised")
    /\ UNCHANGED <<files, repo, changes, work, call, held>>

(* register, the read: the same request is already registered, another one *)
(* is refused, or there is none.                                           *)
ReadMission(c) ==
    /\ pc[c] = "register"
    /\ Goto(c, CASE record = None -> "write"
                 [] record = asked[c].request -> "launch"
                 [] OTHER -> "raised")
    /\ UNCHANGED <<files, repo, changes, work, call, held>>

WriteMission(c) ==
    /\ pc[c] = "write"
    /\ record' = asked[c].request
    /\ Goto(c, "head")
    /\ UNCHANGED <<before, staged, evidence, repo, changes, work, call, held>>

-----------------------------------------------------------------------------
(* GitPolicyEvidenceService.snapshot: HEAD, then the branch, the remotes   *)
(* and their tracking refs, and last the states of the files.              *)

SnapshotPc == {"head", "refs", "files"}

TakeHead(p) ==
    /\ pc[p] = "head"
    /\ held' = [held EXCEPT ![p] = Taken(repo.head, 0, {}, {repo})]
    /\ Goto(p, "refs")
    /\ UNCHANGED <<files, repo, changes, work, call>>

TakeRefs(p) ==
    /\ pc[p] = "refs"
    /\ held' = [held EXCEPT ![p] = Taken(held[p].head, repo.refs, {}, held[p].seen)]
    /\ Goto(p, "files")
    /\ UNCHANGED <<files, repo, changes, work, call>>

TakeFiles(p) ==
    /\ pc[p] = "files"
    /\ \/ /\ Unreadable(repo)
          /\ held' = [held EXCEPT ![p] = NoSnapshot]
          /\ Goto(p, "raised")
       \/ /\ ~Unreadable(repo)
          /\ held' = [held EXCEPT ![p] = Taken(held[p].head, held[p].refs,
                                               FileStates(repo), held[p].seen)]
          /\ Goto(p, IF base[p] = None THEN "baseline" ELSE "stage")
    /\ UNCHANGED <<files, repo, changes, work, call>>

(* register, its last step: the snapshot becomes the baseline.             *)
WriteBaseline(c) ==
    /\ pc[c] = "baseline"
    /\ before' = held[c]
    /\ held' = [held EXCEPT ![c] = NoSnapshot]
    /\ Goto(c, "launch")
    /\ UNCHANGED <<record, staged, evidence, repo, changes, work, call>>

-----------------------------------------------------------------------------
(* The work.  StrategyService.execute, in the foreground called by execute *)
(* itself: it validates once more, and only then looks for strategy.json.  *)
(* A Strategy that exists is returned as it is, one of another definition  *)
(* refused.                                                                *)
ExecuteStrategy(c) ==
    /\ pc[c] = "launch" /\ asked[c].mode = "foreground"
    /\ \E m \in Machines :
          \/ /\ MissionIsValid(m, Profile[asked[c].request]) /\ strategy = None
             /\ Goto(c, "create")
             /\ UNCHANGED outcome
          \/ /\ MissionIsValid(m, Profile[asked[c].request]) /\ strategy # None
             /\ outcome' = [outcome EXCEPT ![c] = IF strategy = asked[c].request
                                                  THEN "returned" ELSE "raised"]
             /\ Goto(c, "judge")
          \/ /\ ~MissionIsValid(m, Profile[asked[c].request])
             /\ outcome' = [outcome EXCEPT ![c] = "raised"]
             /\ Goto(c, "judge")
    /\ UNCHANGED <<files, repo, changes, work, asked, held, base>>

Begun(by, r) == Append(worked, [by |-> by, request |-> r])

CreateStrategy(c) ==
    /\ pc[c] = "create"
    /\ strategy' = asked[c].request
    /\ worked' = Begun("call", asked[c].request)
    /\ Goto(c, "working")
    /\ UNCHANGED <<files, repo, changes, worker, launched, call, held>>

(* Variant: the evidence is written only when a call finds the work done.  *)
StrategyEndsUnjudged(c) ==
    /\ pc[c] = "working"
    /\ \E o \in {"returned", "raised"} : outcome' = [outcome EXCEPT ![c] = o]
    /\ Goto(c, outcome'[c])
    /\ UNCHANGED <<files, repo, changes, work, asked, held, base>>

(* The Strategy ends, or its execution raises; finally judges either way.  *)
StrategyEnds(c) ==
    /\ pc[c] = "working"
    /\ \E o \in {"returned", "raised"} : outcome' = [outcome EXCEPT ![c] = o]
    /\ Goto(c, "judge")
    /\ UNCHANGED <<files, repo, changes, work, asked, held, base>>

(* Detached, the call hands the Strategy to a worker and does not judge.   *)
StartDetached(c) ==
    /\ pc[c] = "launch" /\ asked[c].mode = "detached"
    /\ \/ /\ launched = None
          /\ launched' = asked[c].request
          /\ worker' = "queued"
          /\ Goto(c, "returned")
       \/ /\ launched # None
          /\ Goto(c, IF launched = asked[c].request THEN "returned" ELSE "raised")
          /\ UNCHANGED <<launched, worker>>
    /\ UNCHANGED <<files, repo, changes, strategy, worked, call, held>>

WorkerBegins ==
    /\ worker = "queued"
    /\ \E m \in Machines :
          worker' = IF MissionIsValid(m, Profile[launched]) /\ strategy = None
                    THEN "create" ELSE "done"
    /\ UNCHANGED <<files, repo, changes, strategy, launched, worked, pc, call, held>>

WorkerCreates ==
    /\ worker = "create"
    /\ strategy' = launched
    /\ worked' = Begun("worker", launched)
    /\ worker' = "working"
    /\ UNCHANGED <<files, repo, changes, launched, pc, call, held>>

WorkerEnds ==
    /\ worker = "working"
    /\ worker' = "done"
    /\ UNCHANGED <<files, repo, changes, strategy, launched, worked, pc, call, held>>

-----------------------------------------------------------------------------
(* status: the Mission and its Strategy must both be there.  Neither ever  *)
(* goes away, so the two reads are one step.                               *)
ReadStatus(o) ==
    /\ pc[o] = "idle"
    /\ Goto(o, IF record # None /\ strategy # None THEN "judge" ELSE "raised")
    /\ UNCHANGED <<files, repo, changes, work, call, held>>

(* _finalize_git_policy: without a baseline there is no evidence.          *)
ReadBaseline(p) ==
    /\ pc[p] = "judge"
    /\ \/ before = None /\ Goto(p, outcome[p]) /\ UNCHANGED base
       \/ before # None /\ Goto(p, "head") /\ base' = [base EXCEPT ![p] = before]
    /\ UNCHANGED <<files, repo, changes, work, asked, held, outcome>>

StageEvidence(p) ==
    /\ pc[p] = "stage"
    /\ staged' = Verdict(base[p], held[p])
    /\ held' = [held EXCEPT ![p] = NoSnapshot]
    /\ Goto(p, "replace")
    /\ UNCHANGED <<record, before, evidence, repo, changes, work, call>>

(* write_json, the rename: another writer may have taken the file away.    *)
ReplaceEvidence(p) ==
    /\ pc[p] = "replace"
    /\ \/ /\ staged # None
          /\ evidence' = staged
          /\ staged' = None
          /\ Goto(p, outcome[p])
       \/ /\ staged = None
          /\ Goto(p, "raised")
          /\ UNCHANGED <<evidence, staged>>
    /\ base' = [base EXCEPT ![p] = None]
    /\ UNCHANGED <<record, before, repo, changes, work, asked, held, outcome>>

-----------------------------------------------------------------------------
(* The agents of the Strategy, and whoever else works in the workspace,    *)
(* change the repository at any time.  Changes before the registration are *)
(* what Dirty stands for, and none sees the changes after the last call.   *)
Touched ==
    \/ \E f \in Files : \E s \in StatusesOf(repo, f) :
          repo' = Repo(repo.head, repo.refs, [repo.tree EXCEPT ![f] = s])
    \/ repo' = Repo(CommitOf(repo.head.number + 1, {f \in Files : Present(repo, f)}),
                    repo.refs, [f \in Files |-> "clean"])
    \/ repo' = Repo(repo.head, repo.refs + 1, repo.tree)

Change ==
    /\ changes < MaxChanges
    /\ record # None /\ \E p \in Calls : pc[p] \notin Ended
    /\ changes' = changes + 1
    /\ Touched
    /\ held' = [p \in Calls |-> IF pc[p] \in SnapshotPc \ {"head"}
                                THEN Taken(held[p].head, held[p].refs, held[p].files,
                                           held[p].seen \cup {repo'})
                                ELSE held[p]]
    /\ UNCHANGED <<files, work, pc, call>>

Crash(p) ==
    /\ p \in Crashable
    /\ pc[p] \notin {"idle"} \cup Ended
    /\ Goto(p, "crashed")
    /\ held' = [held EXCEPT ![p] = NoSnapshot]
    /\ UNCHANGED <<files, repo, changes, work, call>>

CallerStep(c) ==
    \/ Execute(c) \/ ReadMission(c) \/ WriteMission(c) \/ WriteBaseline(c)
    \/ ExecuteStrategy(c) \/ CreateStrategy(c) \/ StrategyEnds(c) \/ StartDetached(c)

JudgeStep(p) ==
    \/ TakeHead(p) \/ TakeRefs(p) \/ TakeFiles(p)
    \/ ReadBaseline(p) \/ StageEvidence(p) \/ ReplaceEvidence(p)

Next ==
    \/ \E c \in Callers : CallerStep(c)
    \/ \E o \in Observers : ReadStatus(o)
    \/ \E p \in Calls : JudgeStep(p) \/ Crash(p)
    \/ WorkerBegins \/ WorkerCreates \/ WorkerEnds \/ Change

Spec == Init /\ [][Next]_vars

-----------------------------------------------------------------------------
FileState == ({"path", "new", "cut"} \X Files \X FileStatus) \cup {Folder}

Snapshot == [head : Commit, refs : 0 .. MaxChanges, files : SUBSET FileState,
             seen : SUBSET Repository]

Start == [by : {"call", "worker"}, request : Requests]

Evidence == [before : Snapshot, after : Snapshot, passed : BOOLEAN]

(* Every file holds nothing or a whole value of its kind.                  *)
TypeOK ==
    /\ record \in Requests \cup {None}
    /\ before \in Snapshot \cup {None}
    /\ staged \in Evidence \cup {None}
    /\ evidence \in Evidence \cup {None}
    /\ repo \in Repository
    /\ changes \in 0 .. MaxChanges
    /\ strategy \in Requests \cup {None}
    /\ worker \in {"none", "queued", "create", "working", "done"}
    /\ launched \in Requests \cup {None}
    /\ worked \in Seq(Start)
    /\ pc \in [Calls -> {"idle", "register", "write", "baseline", "launch", "create",
                         "working", "judge", "stage", "replace"} \cup SnapshotPc \cup Ended]
    /\ asked \in [Callers -> [request : Requests, mode : {"foreground", "detached"}]
                             \cup {None}]
    /\ held \in [Calls -> Snapshot]
    /\ base \in [Calls -> Snapshot \cup {None}]
    /\ outcome \in [Calls -> {"returned", "raised"}]

(* Only the request that the Mission record holds is ever worked on or     *)
(* handed to a worker: a call for another one is refused before it starts  *)
(* a Strategy (_existing_record), also after a call that died.             *)
WorkIsTheMissions ==
    /\ launched \in {None, record}
    /\ \A i \in DOMAIN worked : worked[i].request = record

(* A foreground call that returns has left evidence when there is a        *)
(* baseline, however the Strategy ended.                                   *)
ForegroundIsJudged ==
    \A c \in Callers :
       /\ pc[c] = "returned" /\ asked[c].mode = "foreground" /\ before # None
       => evidence # None

(* What the evidence asks a Mission to leave alone, of two states of the   *)
(* repository: HEAD, the branch, the remotes, and outside a directory that *)
(* is untracked as a whole every file that was dirty before and the        *)
(* protected files.  Such a directory may change inside, but not go.  A    *)
(* rename of a protected file that was clean is not seen.                  *)
Respected(b, a) ==
    /\ b.head = a.head /\ b.refs = a.refs
    /\ \A f \in Files \ Hidden(b) : b.tree[f] # "clean" => a.tree[f] = b.tree[f]
    /\ \A f \in Protected \ Hidden(b) : a.tree[f] \in {b.tree[f], "renamed"}
    /\ (\E f \in Hidden(b) : Present(b, f)) => \E f \in Hidden(b) : Present(a, f)

(* The evidence passes a Mission exactly when that left alone what it must *)
(* (_protected_changed_files, _unrelated_changes_preserved), in whatever   *)
(* order calls and changes came, if the repository did not change during   *)
(* either of the two snapshots.                                            *)
VerdictIsRespect ==
    evidence # None =>
       \A b \in evidence.before.seen, a \in evidence.after.seen :
          /\ evidence.before.seen = {b} /\ evidence.after.seen = {a}
          => (evidence.passed <=> Respected(b, a))

(* And it is about the baseline on file, whichever call wrote it.          *)
VerdictIsSound ==
    /\ evidence # None => evidence.before = before
    /\ VerdictIsRespect

-----------------------------------------------------------------------------
(* The files of a Mission keep what MissionContract promises, whatever     *)
(* calls return, are refused or die: one request, one baseline before any  *)
(* work (a repeated call must not replace it by a snapshot that already    *)
(* shows what the agents did), one piece of work by the calls and one by   *)
(* the worker, and verdicts about that baseline.                           *)
Contract == INSTANCE MissionContract WITH baseline <- before, verdict <- evidence

ImplementsContract == Contract!Spec
=============================================================================
