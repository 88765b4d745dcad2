-------------------------- MODULE MissionRegistryProofs --------------------------
(***************************************************************************)
(* Proofs about MissionRegistry for any numbers of requests, calls, files  *)
(* and changes: type correctness; that a verdict is right, for calls in    *)
(* any order; and, for calls of execute that take turns, whose work is     *)
(* done, that a foreground call leaves evidence, what the evidence is      *)
(* about, and that MissionContract is kept.                                *)
(***************************************************************************)
EXTENDS MissionRegistry, TLAPS

(* Where a call can be.                                                    *)
PcLabels == {"idle", "register", "write", "baseline", "launch", "create", "working",
             "judge", "stage", "replace"} \cup SnapshotPc \cup Ended

(* The counters of the repository count changes.                           *)
CountersBounded == repo.head.number <= changes /\ repo.refs <= changes

(* A call that has begun knows what it was asked, and one that judges what *)
(* it compares with.                                                       *)
Question == [request : Requests, mode : {"foreground", "detached"}]

CallsAreAsked == \A c \in Callers : pc[c] # "idle" => asked[c] \in Question

JudgesHaveBaseline == \A p \in Calls : pc[p] = "stage" => base[p] # None

WorkerIsLaunched == worker # "none" => launched # None

TInv == TypeOK /\ CountersBounded /\ CallsAreAsked /\ JudgesHaveBaseline /\ WorkerIsLaunched

LEMMA StatesOfRepository ==
    ASSUME NEW r \in Repository
    PROVE  FileStates(r) \in SUBSET FileState
<1>1. ASSUME NEW f \in Files
      PROVE  Entries(f, r.tree[f]) \subseteq {"path", "new", "cut"} \X Files \X FileStatus
  <2>1. r.tree[f] \in FileStatus
      BY DEF Repository
  <2> QED BY <2>1 DEF Entries, FileStatus
<1>2. UNION {Entries(f, r.tree[f]) : f \in Files \ Hidden(r)}
         \subseteq {"path", "new", "cut"} \X Files \X FileStatus
    BY <1>1
<1>3. FolderEntries(r) \subseteq {Folder}
    BY DEF FolderEntries
<1> QED BY <1>2, <1>3 DEF FileStates, FileState

LEMMA TakenIsSnapshot ==
    ASSUME NEW head \in Commit, NEW refs \in 0 .. MaxChanges,
           NEW states \in SUBSET FileState, NEW seen \in SUBSET Repository
    PROVE  Taken(head, refs, states, seen) \in Snapshot
BY DEF Taken, Snapshot

LEMMA NoSnapshotIsSnapshot == NoSnapshot \in Snapshot
BY MissionAssumption DEF NoSnapshot, NoHead, CommitOf, Commit, Taken, Snapshot

LEMMA FirstCommit == CommitOf(0, Tracked) \in Commit
BY MissionAssumption DEF CommitOf, Commit

(* Who begins is appended to those who began before.                       *)
LEMMA BegunIsAppended ==
    ASSUME worked \in Seq(Start), NEW by \in {"call", "worker"}, NEW r \in Requests
    PROVE  /\ Begun(by, r) \in Seq(Start)
           /\ \A i \in DOMAIN Begun(by, r) :
                 \/ i \in DOMAIN worked /\ Begun(by, r)[i] = worked[i]
                 \/ Begun(by, r)[i] = [by |-> by, request |-> r]
<1>1. [by |-> by, request |-> r] \in Start
    BY DEF Start
<1> QED BY <1>1 DEF Begun

LEMMA NobodyBegan == ASSUME worked \in Seq(Start), DOMAIN worked = {} PROVE worked = <<>>
<1>1. Len(worked) = 0
    OBVIOUS
<1> QED BY <1>1

LEMMA TypeInit == Init => TInv
<1> SUFFICES ASSUME Init PROVE TInv
    OBVIOUS
<1>1. Found \in Repository
    BY FirstCommit, MissionAssumption DEF Found, Repo, Repository, FileStatus
<1>2. Found.head.number = 0 /\ Found.refs = 0
    BY DEF Found, Repo, CommitOf
<1>3. <<>> \in Seq(Start)
    OBVIOUS
<1> QED
    BY <1>1, <1>2, <1>3, NoSnapshotIsSnapshot, MissionAssumption
    DEF Init, TInv, TypeOK, CountersBounded, CallsAreAsked, JudgesHaveBaseline, WorkerIsLaunched,
        Calls, SnapshotPc, Ended

LEMMA TypeNext == TInv /\ [Next]_vars => TInv'
<1> SUFFICES ASSUME TInv, [Next]_vars PROVE TInv'
    OBVIOUS
<1>0. None \notin Requests /\ Callers \cap Observers = {} /\ MaxChanges \in Nat
    BY MissionAssumption
<1> USE <1>0
    DEF TInv, TypeOK, CountersBounded, CallsAreAsked, JudgesHaveBaseline, WorkerIsLaunched,
        Goto, files, work, call, SnapshotPc, Ended
<1>1. ASSUME NEW c \in Callers, Execute(c) PROVE TInv'
  <2>1. PICK r \in Requests, mode \in {"foreground", "detached"}, label \in {"register", "raised"} :
           /\ asked' = [asked EXCEPT ![c] = [request |-> r, mode |-> mode]]
           /\ pc' = [pc EXCEPT ![c] = label]
      BY <1>1 DEF Execute
  <2>2. asked' \in [Callers -> [request : Requests, mode : {"foreground", "detached"}]
                              \cup {None}]
      BY <2>1
  <2>3. CallsAreAsked'
      BY <2>1 DEF Calls, Question
  <2> QED BY <1>1, <2>1, <2>2, <2>3 DEF Execute, Calls
<1>2. ASSUME NEW c \in Callers, ReadMission(c) PROVE TInv'
    BY <1>2 DEF ReadMission, Calls
<1>3. ASSUME NEW c \in Callers, WriteMission(c) PROVE TInv'
    BY <1>3 DEF WriteMission, Calls, Question
<1>4. ASSUME NEW c \in Callers, WriteBaseline(c) PROVE TInv'
    BY <1>4, NoSnapshotIsSnapshot DEF WriteBaseline, Calls
<1>5. ASSUME NEW c \in Callers, ExecuteStrategy(c) PROVE TInv'
  <2>1. /\ pc[c] = "launch"
        /\ \/ pc' = [pc EXCEPT ![c] = "create"] \/ pc' = [pc EXCEPT ![c] = "judge"]
        /\ \/ outcome' = outcome
           \/ outcome' = [outcome EXCEPT ![c] = "returned"]
           \/ outcome' = [outcome EXCEPT ![c] = "raised"]
        /\ UNCHANGED <<files, repo, changes, work, asked, held, base>>
      BY ONLY <1>5 DEF ExecuteStrategy, Goto
  <2> QED BY <2>1 DEF Calls
<1>20. ASSUME NEW c \in Callers, CreateStrategy(c) PROVE TInv'
  <2>1. asked[c].request \in Requests
      BY <1>20 DEF CreateStrategy, Calls, Question
  <2>2. Begun("call", asked[c].request) \in Seq(Start)
      BY <2>1, BegunIsAppended
  <2> QED BY <1>20, <2>1, <2>2 DEF CreateStrategy, Calls
<1>6. ASSUME NEW c \in Callers, StrategyEnds(c) PROVE TInv'
    BY <1>6 DEF StrategyEnds, Calls
<1>7. ASSUME NEW c \in Callers, StartDetached(c) PROVE TInv'
    BY <1>7 DEF StartDetached, Calls, Question
<1>8. ASSUME NEW o \in Observers, ReadStatus(o) PROVE TInv'
    BY <1>8 DEF ReadStatus, Calls
<1>9. ASSUME NEW p \in Calls, TakeHead(p) PROVE TInv'
  <2>1. Taken(repo.head, 0, {}, {repo}) \in Snapshot
      BY TakenIsSnapshot DEF Repository
  <2> QED BY <1>9, <2>1 DEF TakeHead, Calls
<1>10. ASSUME NEW p \in Calls, TakeRefs(p) PROVE TInv'
  <2>1. Taken(held[p].head, repo.refs, {}, held[p].seen) \in Snapshot
      BY TakenIsSnapshot DEF Repository, Snapshot
  <2> QED BY <1>10, <2>1 DEF TakeRefs, Calls
<1>11. ASSUME NEW p \in Calls, TakeFiles(p) PROVE TInv'
  <2>1. FileStates(repo) \in SUBSET FileState
      BY StatesOfRepository
  <2>2. Taken(held[p].head, held[p].refs, FileStates(repo), held[p].seen) \in Snapshot
      BY <2>1, TakenIsSnapshot DEF Snapshot
  <2>3. /\ \/ held' = [held EXCEPT ![p] = NoSnapshot]
           \/ held' = [held EXCEPT ![p] = Taken(held[p].head, held[p].refs,
                                                FileStates(repo), held[p].seen)]
        /\ pc[p] = "files"
        /\ \/ pc' = [pc EXCEPT ![p] = "raised"]
           \/ base[p] = None /\ pc' = [pc EXCEPT ![p] = "baseline"]
           \/ base[p] # None /\ pc' = [pc EXCEPT ![p] = "stage"]
        /\ UNCHANGED <<files, repo, changes, work, call>>
      BY <1>11 DEF TakeFiles
  <2>4. held' \in [Calls -> Snapshot]
      BY <2>2, <2>3, NoSnapshotIsSnapshot
  <2> QED BY <2>3, <2>4 DEF Calls
<1>12. ASSUME NEW p \in Calls, ReadBaseline(p) PROVE TInv'
    BY <1>12 DEF ReadBaseline, Calls
<1>13. ASSUME NEW p \in Calls, StageEvidence(p) PROVE TInv'
  <2>1. base[p] # None => Verdict(base[p], held[p]) \in Evidence
      BY DEF Verdict, Evidence, Passed, UnrelatedPreserved
  <2> QED BY <1>13, <2>1, NoSnapshotIsSnapshot DEF StageEvidence, Calls
<1>14. ASSUME NEW p \in Calls, ReplaceEvidence(p) PROVE TInv'
    BY <1>14 DEF ReplaceEvidence, Calls
<1>15. CASE WorkerBegins
    BY <1>15 DEF WorkerBegins
<1>21. CASE WorkerCreates
  <2>1. launched \in Requests
      BY <1>21 DEF WorkerCreates
  <2>2. Begun("worker", launched) \in Seq(Start)
      BY <2>1, BegunIsAppended
  <2> QED BY <1>21, <2>1, <2>2 DEF WorkerCreates
<1>16. CASE WorkerEnds
    BY <1>16 DEF WorkerEnds
<1>17. CASE Change
  <2>1. /\ repo' \in Repository
        /\ repo'.head.number <= changes' /\ repo'.refs <= changes'
    <3>1. repo.tree \in [Files -> FileStatus] /\ repo.head \in Commit
          /\ repo.refs \in 0 .. MaxChanges /\ repo.head.number \in 0 .. MaxChanges
        BY DEF Repository, Commit
    <3>2. changes' = changes + 1 /\ changes + 1 \in 0 .. MaxChanges /\ Touched
        BY <1>17 DEF Change
    <3>3. ASSUME NEW f \in Files, NEW s \in StatusesOf(repo, f),
                 repo' = Repo(repo.head, repo.refs, [repo.tree EXCEPT ![f] = s])
          PROVE  repo' \in Repository /\ repo'.head = repo.head /\ repo'.refs = repo.refs
      <4>1. [repo.tree EXCEPT ![f] = s] \in [Files -> FileStatus]
          BY <3>1 DEF StatusesOf, FileStatus
      <4> QED BY <3>1, <3>3, <4>1 DEF Repo, Repository
    <3>4. ASSUME NEW S \in SUBSET Files,
                 repo' = Repo(CommitOf(repo.head.number + 1, S), repo.refs,
                              [f \in Files |-> "clean"])
          PROVE  /\ repo' \in Repository /\ repo'.head.number = repo.head.number + 1
                 /\ repo'.refs = repo.refs
      <4>1. CommitOf(repo.head.number + 1, S) \in Commit
          BY <3>1, <3>2 DEF CommitOf, Commit
      <4>2. CommitOf(repo.head.number + 1, S).number = repo.head.number + 1
          BY DEF CommitOf
      <4> QED BY <3>1, <3>4, <4>1, <4>2 DEF Repo, Repository, FileStatus
    <3>5. ASSUME repo' = Repo(repo.head, repo.refs + 1, repo.tree)
          PROVE  repo' \in Repository /\ repo'.head = repo.head /\ repo'.refs = repo.refs + 1
        BY <3>1, <3>2, <3>5 DEF Repo, Repository
    <3>6. \/ repo' \in Repository /\ repo'.head = repo.head /\ repo'.refs = repo.refs
          \/ /\ repo' \in Repository /\ repo'.head.number = repo.head.number + 1
             /\ repo'.refs = repo.refs
          \/ repo' \in Repository /\ repo'.head = repo.head /\ repo'.refs = repo.refs + 1
        BY <3>2, <3>3, <3>4, <3>5 DEF Touched
    <3> QED BY <3>1, <3>2, <3>6
  <2>2. held' \in [Calls -> Snapshot]
    <3>1. ASSUME NEW p \in Calls
          PROVE  Taken(held[p].head, held[p].refs, held[p].files,
                       held[p].seen \cup {repo'}) \in Snapshot
      <4>1. held[p] \in Snapshot
          OBVIOUS
      <4>2. /\ held[p].head \in Commit /\ held[p].refs \in 0 .. MaxChanges
            /\ held[p].files \in SUBSET FileState
            /\ held[p].seen \cup {repo'} \in SUBSET Repository
          BY <2>1, <4>1 DEF Snapshot
      <4> QED BY <4>2, TakenIsSnapshot
    <3>2. \A p \in Calls : held[p] \in Snapshot
        OBVIOUS
    <3>3. held' = [p \in Calls |-> IF pc[p] \in SnapshotPc \ {"head"}
                                   THEN Taken(held[p].head, held[p].refs, held[p].files,
                                              held[p].seen \cup {repo'})
                                   ELSE held[p]]
        BY <1>17 DEF Change
    <3> HIDE DEF SnapshotPc, Taken, Snapshot
    <3> QED BY <3>1, <3>2, <3>3
  <2>3. /\ UNCHANGED <<record, before, staged, evidence, strategy, worker, launched, worked>>
        /\ UNCHANGED <<pc, asked, base, outcome>>
        /\ changes' \in 0 .. MaxChanges
      BY <1>17 DEF Change
  <2> HIDE DEF Goto, SnapshotPc, Ended
  <2> QED BY <2>1, <2>2, <2>3
<1>18. ASSUME NEW p \in Calls, Crash(p) PROVE TInv'
    BY <1>18, NoSnapshotIsSnapshot DEF Crash, Calls
<1>19. CASE UNCHANGED vars
    BY <1>19 DEF vars
<1> QED
    BY <1>1, <1>2, <1>3, <1>4, <1>5, <1>6, <1>7, <1>8, <1>9, <1>10, <1>11, <1>12, <1>13,
       <1>14, <1>15, <1>16, <1>17, <1>18, <1>19, <1>20, <1>21 DEF Next, CallerStep, JudgeStep

(* Every file of a Mission holds nothing or a whole value of its kind, and *)
(* every call is where the code can be.                                    *)
THEOREM TypeCorrect == Spec => []TypeOK
<1>1. TInv => TypeOK
    BY DEF TInv
<1> QED BY TypeInit, TypeNext, <1>1, PTL DEF Spec
-----------------------------------------------------------------------------
(* What holds as long as the calls of execute take turns.                  *)

Active(c) == pc[c] \notin {"idle"} \cup Ended

Registering(c) == pc[c] \in {"write", "baseline"} \/ (pc[c] \in SnapshotPc /\ base[c] = None)

Registered(c) == pc[c] \in SnapshotPc \cup {"baseline", "launch", "create", "working", "judge",
                                            "stage", "replace", "returned"}

OneAtATime == \A c, d \in Callers : Active(c) /\ Active(d) => c = d

WritesOnce == \A c \in Callers : pc[c] = "write" => record = None

RecordIsTheirs == \A c \in Callers : Registered(c) => record = asked[c].request

NothingBegun == \A c \in Callers : Registering(c) => worked = <<>> /\ launched = None

FirstToReturn == \A c, d \in Callers : Registering(c) => pc[d] # "returned"

TurnInv ==
    /\ TInv
    /\ OneAtATime /\ WritesOnce /\ RecordIsTheirs /\ NothingBegun /\ FirstToReturn
    /\ WorkIsTheMissions
    /\ ForegroundIsJudged

LEMMA TurnInit == Init => TurnInv
<1> SUFFICES ASSUME Init PROVE TurnInv
    OBVIOUS
<1>1. TInv
    BY TypeInit
<1> QED
    BY <1>1 DEF Init, TurnInv, OneAtATime, WritesOnce, RecordIsTheirs, NothingBegun,
       FirstToReturn, WorkIsTheMissions, ForegroundIsJudged, Active, Registering, Registered,
       SnapshotPc, Ended, Calls

LEMMA TurnNext == Overlap = FALSE /\ TurnInv /\ [Next]_vars => TurnInv'
<1> SUFFICES ASSUME Overlap = FALSE, TurnInv, [Next]_vars PROVE TurnInv'
    OBVIOUS
<1>0. None \notin Requests /\ Callers \cap Observers = {}
    BY MissionAssumption
<1>t. TInv'
    BY TypeNext DEF TurnInv
<1>s. /\ pc \in [Calls -> PcLabels] /\ worked \in Seq(Start)
      /\ launched \in Requests \cup {None}
      /\ worker # "none" => launched # None
      /\ asked \in [Callers -> Question \cup {None}] /\ base \in [Calls -> Snapshot \cup {None}]
      /\ \A c \in Callers : pc[c] # "idle" => asked[c] \in Question
      /\ outcome \in [Calls -> {"returned", "raised"}]
    BY DEF TurnInv, TInv, TypeOK, PcLabels, Question, WorkerIsLaunched, CallsAreAsked
<1>p. /\ OneAtATime /\ WritesOnce /\ RecordIsTheirs /\ NothingBegun /\ FirstToReturn
      /\ WorkIsTheMissions /\ ForegroundIsJudged
    BY DEF TurnInv
<1> SUFFICES /\ OneAtATime' /\ WritesOnce' /\ RecordIsTheirs' /\ NothingBegun' /\ FirstToReturn'
             /\ WorkIsTheMissions' /\ ForegroundIsJudged'
    BY <1>t DEF TurnInv
<1> HIDE DEF TurnInv
<1> USE <1>0, <1>s, <1>p
    DEF OneAtATime, WritesOnce, RecordIsTheirs, NothingBegun, FirstToReturn, WorkIsTheMissions,
        ForegroundIsJudged, Active, Registering, Registered, SnapshotPc, Ended, PcLabels, Calls,
        Goto, files, work, call
<1>1. ASSUME NEW c \in Callers, Execute(c)
      PROVE  /\ OneAtATime' /\ WritesOnce' /\ RecordIsTheirs' /\ NothingBegun' /\ FirstToReturn'
             /\ WorkIsTheMissions' /\ ForegroundIsJudged'
    BY <1>1 DEF Execute, Question
<1>2. ASSUME NEW c \in Callers, ReadMission(c)
      PROVE  /\ OneAtATime' /\ WritesOnce' /\ RecordIsTheirs' /\ NothingBegun' /\ FirstToReturn'
             /\ WorkIsTheMissions' /\ ForegroundIsJudged'
  <2>1. record = None => worked = <<>> /\ launched = None
    <3> SUFFICES ASSUME record = None PROVE worked = <<>> /\ launched = None
        OBVIOUS
    <3>1. ASSUME NEW i \in DOMAIN worked PROVE FALSE
      <4>1. worked[i] \in Start
          OBVIOUS
      <4>2. worked[i].request \in Requests
          BY <4>1 DEF Start
      <4> QED BY <4>2
    <3> QED BY <3>1, NobodyBegan
  <2> QED BY <1>2, <2>1 DEF ReadMission, Question
<1>3. ASSUME NEW c \in Callers, WriteMission(c)
      PROVE  /\ OneAtATime' /\ WritesOnce' /\ RecordIsTheirs' /\ NothingBegun' /\ FirstToReturn'
             /\ WorkIsTheMissions' /\ ForegroundIsJudged'
    BY <1>3 DEF WriteMission, Question
<1>4. ASSUME NEW c \in Callers, WriteBaseline(c)
      PROVE  /\ OneAtATime' /\ WritesOnce' /\ RecordIsTheirs' /\ NothingBegun' /\ FirstToReturn'
             /\ WorkIsTheMissions' /\ ForegroundIsJudged'
    BY <1>4 DEF WriteBaseline
<1>5. ASSUME NEW c \in Callers, ExecuteStrategy(c)
      PROVE  /\ OneAtATime' /\ WritesOnce' /\ RecordIsTheirs' /\ NothingBegun' /\ FirstToReturn'
             /\ WorkIsTheMissions' /\ ForegroundIsJudged'
    BY <1>5 DEF ExecuteStrategy, Question
<1>20. ASSUME NEW c \in Callers, CreateStrategy(c)
      PROVE  /\ OneAtATime' /\ WritesOnce' /\ RecordIsTheirs' /\ NothingBegun' /\ FirstToReturn'
             /\ WorkIsTheMissions' /\ ForegroundIsJudged'
  <2>1. asked[c].request = record /\ record \in Requests
      BY <1>20 DEF CreateStrategy, Question
  <2>2. \A i \in DOMAIN worked' : worked'[i].request = record
      BY <1>20, <2>1, BegunIsAppended DEF CreateStrategy
  <2>3. \A d \in Callers : ~Registering(d)
      BY <1>20 DEF CreateStrategy
  <2> QED BY <1>20, <2>2, <2>3 DEF CreateStrategy
<1>6. ASSUME NEW c \in Callers, StrategyEnds(c)
      PROVE  /\ OneAtATime' /\ WritesOnce' /\ RecordIsTheirs' /\ NothingBegun' /\ FirstToReturn'
             /\ WorkIsTheMissions' /\ ForegroundIsJudged'
    BY <1>6 DEF StrategyEnds
<1>7. ASSUME NEW c \in Callers, StartDetached(c)
      PROVE  /\ OneAtATime' /\ WritesOnce' /\ RecordIsTheirs' /\ NothingBegun' /\ FirstToReturn'
             /\ WorkIsTheMissions' /\ ForegroundIsJudged'
    BY <1>7 DEF StartDetached, Question
<1>8. ASSUME NEW o \in Observers, ReadStatus(o)
      PROVE  /\ OneAtATime' /\ WritesOnce' /\ RecordIsTheirs' /\ NothingBegun' /\ FirstToReturn'
             /\ WorkIsTheMissions' /\ ForegroundIsJudged'
    BY <1>8 DEF ReadStatus
<1>9. ASSUME NEW p \in Calls, TakeHead(p)
      PROVE  /\ OneAtATime' /\ WritesOnce' /\ RecordIsTheirs' /\ NothingBegun' /\ FirstToReturn'
             /\ WorkIsTheMissions' /\ ForegroundIsJudged'
    BY <1>9 DEF TakeHead
<1>10. ASSUME NEW p \in Calls, TakeRefs(p)
      PROVE  /\ OneAtATime' /\ WritesOnce' /\ RecordIsTheirs' /\ NothingBegun' /\ FirstToReturn'
             /\ WorkIsTheMissions' /\ ForegroundIsJudged'
    BY <1>10 DEF TakeRefs
<1>11. ASSUME NEW p \in Calls, TakeFiles(p)
      PROVE  /\ OneAtATime' /\ WritesOnce' /\ RecordIsTheirs' /\ NothingBegun' /\ FirstToReturn'
             /\ WorkIsTheMissions' /\ ForegroundIsJudged'
    BY <1>11 DEF TakeFiles
<1>12. ASSUME NEW p \in Calls, ReadBaseline(p)
      PROVE  /\ OneAtATime' /\ WritesOnce' /\ RecordIsTheirs' /\ NothingBegun' /\ FirstToReturn'
             /\ WorkIsTheMissions' /\ ForegroundIsJudged'
    BY <1>12 DEF ReadBaseline
<1>13. ASSUME NEW p \in Calls, StageEvidence(p)
      PROVE  /\ OneAtATime' /\ WritesOnce' /\ RecordIsTheirs' /\ NothingBegun' /\ FirstToReturn'
             /\ WorkIsTheMissions' /\ ForegroundIsJudged'
    BY <1>13 DEF StageEvidence
<1>14. ASSUME NEW p \in Calls, ReplaceEvidence(p)
      PROVE  /\ OneAtATime' /\ WritesOnce' /\ RecordIsTheirs' /\ NothingBegun' /\ FirstToReturn'
             /\ WorkIsTheMissions' /\ ForegroundIsJudged'
    BY <1>14 DEF ReplaceEvidence
<1>15. CASE WorkerBegins
    BY <1>15 DEF WorkerBegins
<1>21. CASE WorkerCreates
  <2>1. launched = record /\ record \in Requests
      BY <1>21 DEF WorkerCreates
  <2>2. \A i \in DOMAIN worked' : worked'[i].request = record
      BY <1>21, <2>1, BegunIsAppended DEF WorkerCreates
  <2>3. \A d \in Callers : ~Registering(d)
      BY <2>1
  <2> QED BY <1>21, <2>2, <2>3 DEF WorkerCreates
<1>16. CASE WorkerEnds
    BY <1>16 DEF WorkerEnds
<1>17. CASE Change
    BY <1>17 DEF Change
<1>18. ASSUME NEW p \in Calls, Crash(p)
      PROVE  /\ OneAtATime' /\ WritesOnce' /\ RecordIsTheirs' /\ NothingBegun' /\ FirstToReturn'
             /\ WorkIsTheMissions' /\ ForegroundIsJudged'
    BY <1>18 DEF Crash
<1>19. CASE UNCHANGED vars
    BY <1>19 DEF vars
<1> QED
    BY <1>1, <1>2, <1>3, <1>4, <1>5, <1>6, <1>7, <1>8, <1>9, <1>10, <1>11, <1>12, <1>13,
       <1>14, <1>15, <1>16, <1>17, <1>18, <1>19, <1>20, <1>21 DEF Next, CallerStep, JudgeStep

(* When calls of execute take turns, only the request of the record is     *)
(* ever worked on, however often and wherever earlier calls have died.     *)
THEOREM WorkCorrect == Overlap = FALSE /\ Spec => []WorkIsTheMissions
<1> SUFFICES ASSUME Overlap = FALSE PROVE Spec => []WorkIsTheMissions
    OBVIOUS
<1>0. TurnInv /\ [Next]_vars => TurnInv'
    BY TurnNext
<1>1. TurnInv => WorkIsTheMissions
    BY DEF TurnInv
<1> QED BY TurnInit, <1>0, <1>1, PTL DEF Spec

(* And a foreground call that returns has left evidence.                   *)
THEOREM EvidenceCorrect == Overlap = FALSE /\ Spec => []ForegroundIsJudged
<1> SUFFICES ASSUME Overlap = FALSE PROVE Spec => []ForegroundIsJudged
    OBVIOUS
<1>0. TurnInv /\ [Next]_vars => TurnInv'
    BY TurnNext
<1>1. TurnInv => ForegroundIsJudged
    BY DEF TurnInv
<1> QED BY TurnInit, <1>0, <1>1, PTL DEF Spec

-----------------------------------------------------------------------------
(* What two snapshots tell about two states of the repository.             *)

(* The entries a file can have: a file of a directory that is untracked as *)
(* a whole has none; an edited or deleted one has one, of its own path; a  *)
(* renamed one has two, of other paths.                                    *)
LEMMA EntriesOfFile ==
    ASSUME NEW r \in Repository, NEW f \in Files \ Hidden(r)
    PROVE  /\ r.tree[f] \in {"edited", "rewritten", "deleted"}
                => <<"path", f, r.tree[f]>> \in FileStates(r)
           /\ r.tree[f] = "renamed" => <<"new", f, "renamed">> \in FileStates(r)
<1>1. Entries(f, r.tree[f]) \subseteq FileStates(r)
    BY DEF FileStates
<1>2. r.tree[f] \in {"edited", "rewritten", "deleted"}
         => <<"path", f, r.tree[f]>> \in Entries(f, r.tree[f])
    BY DEF Entries
<1>3. r.tree[f] = "renamed" => <<"new", f, "renamed">> \in Entries(f, r.tree[f])
    BY DEF Entries
<1> QED BY <1>1, <1>2, <1>3

LEMMA FileOfEntry ==
    ASSUME NEW r \in Repository, NEW e \in FileStates(r), e # Folder
    PROVE  \E f \in Files \ Hidden(r) : e \in Entries(f, r.tree[f])
<1>1. e \notin FolderEntries(r)
    BY DEF FolderEntries
<1> QED BY <1>1 DEF FileStates

LEMMA PathEntry ==
    ASSUME NEW r \in Repository, NEW f, NEW s, <<"path", f, s>> \in FileStates(r)
    PROVE  /\ f \in Files \ Hidden(r)
           /\ r.tree[f] = s
           /\ s \in {"edited", "rewritten", "deleted"}
<1>1. <<"path", f, s>> # Folder
    BY DEF Folder
<1>2. PICK g \in Files \ Hidden(r) : <<"path", f, s>> \in Entries(g, r.tree[g])
    BY <1>1, FileOfEntry
<1>3. r.tree[g] \in FileStatus
    BY DEF Repository
<1> QED BY <1>2, <1>3 DEF Entries, FileStatus

LEMMA RenamedEntry ==
    ASSUME NEW r \in Repository, NEW f, <<"new", f, "renamed">> \in FileStates(r)
    PROVE  r.tree[f] = "renamed"
<1>1. <<"new", f, "renamed">> # Folder
    BY DEF Folder
<1>2. PICK g \in Files \ Hidden(r) : <<"new", f, "renamed">> \in Entries(g, r.tree[g])
    BY <1>1, FileOfEntry
<1>3. r.tree[g] \in FileStatus
    BY DEF Repository
<1> QED BY <1>2, <1>3 DEF Entries, FileStatus

LEMMA FolderEntry ==
    ASSUME NEW r \in Repository
    PROVE  Folder \in FileStates(r) <=> \E f \in Hidden(r) : Present(r, f)
<1>1. ASSUME NEW f \in Files PROVE Folder \notin Entries(f, r.tree[f])
    BY DEF Folder, Entries
<1>2. Folder \in FileStates(r) <=> Folder \in FolderEntries(r)
    BY <1>1 DEF FileStates
<1> QED BY <1>2 DEF FolderEntries

(* One commit hides the same directory whenever it is HEAD.                *)
LEMMA SameCommitHidesSame ==
    ASSUME NEW b \in Repository, NEW a \in Repository, b.head = a.head
    PROVE  Hidden(b) = Hidden(a)
BY DEF Hidden

(* What every entry of before that is still there means for the files.     *)
DirtyIsKept(b, a) ==
    /\ \A f \in Files \ Hidden(b) : b.tree[f] # "clean" => a.tree[f] = b.tree[f]
    /\ (\E f \in Hidden(b) : Present(b, f)) => \E f \in Hidden(b) : Present(a, f)

(* _unrelated_changes_preserved: every entry of before is still there      *)
(* exactly when every file that was dirty and is listed is as it was, and  *)
(* an untracked directory still holds something.                           *)
LEMMA PreservedIsUnchanged ==
    ASSUME NEW b \in Repository, NEW a \in Repository, b.head = a.head
    PROVE  FileStates(b) \subseteq FileStates(a) <=> DirtyIsKept(b, a)
<1>0. Hidden(b) = Hidden(a)
    BY SameCommitHidesSame
<1>1. ASSUME FileStates(b) \subseteq FileStates(a), NEW f \in Files \ Hidden(b),
             b.tree[f] # "clean"
      PROVE  a.tree[f] = b.tree[f]
  <2>1. CASE b.tree[f] \in {"edited", "rewritten", "deleted"}
    <3>1. <<"path", f, b.tree[f]>> \in FileStates(a)
        BY <1>1, <2>1, EntriesOfFile
    <3> QED BY <3>1, PathEntry
  <2>2. CASE b.tree[f] = "renamed"
    <3>1. <<"new", f, "renamed">> \in FileStates(a)
        BY <1>1, <2>2, EntriesOfFile
    <3> QED BY <2>2, <3>1, RenamedEntry
  <2>3. b.tree[f] \in FileStatus
      BY <1>1 DEF Repository
  <2> QED BY <1>1, <2>1, <2>2, <2>3 DEF FileStatus
<1>2. ASSUME FileStates(b) \subseteq FileStates(a), \E f \in Hidden(b) : Present(b, f)
      PROVE  \E f \in Hidden(b) : Present(a, f)
  <2>1. Folder \in FileStates(a)
      BY <1>2, FolderEntry
  <2> QED BY <1>0, <2>1, FolderEntry
<1>3. ASSUME DirtyIsKept(b, a), NEW e \in FileStates(b)
      PROVE  e \in FileStates(a)
  <2>1. CASE e = Folder
    <3>1. \E f \in Hidden(a) : Present(a, f)
        BY <1>0, <1>3, <2>1, FolderEntry DEF DirtyIsKept
    <3> QED BY <2>1, <3>1, FolderEntry
  <2>2. CASE e # Folder
    <3>1. PICK f \in Files \ Hidden(b) : e \in Entries(f, b.tree[f])
        BY <2>2, FileOfEntry
    <3>2. b.tree[f] # "clean"
        BY <3>1 DEF Entries
    <3>3. e \in Entries(f, a.tree[f])
        BY <1>3, <3>1, <3>2 DEF DirtyIsKept
    <3> QED BY <1>0, <3>1, <3>3 DEF FileStates
  <2> QED BY <2>1, <2>2
<1> QED BY <1>1, <1>2, <1>3 DEF DirtyIsKept

(* _protected_changed_files, when the dirty files are as they were: none   *)
(* exactly when every protected file that is listed is as it was or        *)
(* renamed.                                                                *)
LEMMA NoneChangedIsProtected ==
    ASSUME NEW b \in Snapshot, NEW a \in Snapshot,
           NEW r \in Repository, NEW q \in Repository, r.head = q.head,
           b.files = FileStates(r), a.files = FileStates(q), DirtyIsKept(r, q)
    PROVE  ProtectedChanged(b, a) = {}
              <=> \A f \in Protected \ Hidden(r) : q.tree[f] \in {r.tree[f], "renamed"}
<1>0. Protected \subseteq Files /\ Hidden(r) = Hidden(q)
    BY MissionAssumption, SameCommitHidesSame
<1>1. ASSUME ProtectedChanged(b, a) = {}, NEW f \in Protected \ Hidden(r),
             q.tree[f] \notin {r.tree[f], "renamed"}
      PROVE  FALSE
  <2>1. r.tree[f] = "clean" /\ q.tree[f] \in {"edited", "rewritten", "deleted"}
    <3>1. r.tree[f] \in FileStatus /\ q.tree[f] \in FileStatus
        BY <1>0 DEF Repository
    <3> QED BY <1>0, <1>1, <3>1 DEF FileStatus, DirtyIsKept
  <2>2. <<"path", f, q.tree[f]>> \in a.files
      BY <1>0, <2>1, EntriesOfFile
  <2>3. <<"path", f, q.tree[f]>> \notin b.files
      BY <1>0, <2>1, PathEntry
  <2>4. PathOf(<<"path", f, q.tree[f]>>) \in ChangedFiles(b, a)
      BY <2>2, <2>3 DEF ChangedFiles
  <2>5. PathOf(<<"path", f, q.tree[f]>>) = <<"path", f>>
      BY DEF PathOf
  <2>6. <<"path", f>> \in ProtectedChanged(b, a)
      BY <2>4, <2>5 DEF ProtectedChanged
  <2> QED BY <1>1, <2>6
<1>2. ASSUME \A f \in Protected \ Hidden(r) : q.tree[f] \in {r.tree[f], "renamed"},
             NEW p \in ProtectedChanged(b, a)
      PROVE  FALSE
  <2>1. PICK e \in (b.files \ a.files) \cup (a.files \ b.files) : p = PathOf(e)
      BY DEF ProtectedChanged, ChangedFiles
  <2>2. e \in FileState
      BY DEF Snapshot
  <2>3. PICK f \in Files, st \in FileStatus : e = <<"path", f, st>>
      BY <2>1, <2>2 DEF FileState, Folder, ProtectedChanged, PathOf
  <2>4. f \in Protected
      BY <2>1, <2>3 DEF ProtectedChanged, PathOf
  <2>5. CASE e \in b.files
    <3>1. f \in Files \ Hidden(r) /\ r.tree[f] = st /\ st \in {"edited", "rewritten", "deleted"}
        BY <2>3, <2>5, PathEntry
    <3>2. q.tree[f] = st
        BY <3>1 DEF DirtyIsKept
    <3>3. e \in a.files
        BY <1>0, <2>3, <3>1, <3>2, EntriesOfFile
    <3> QED BY <2>1, <2>5, <3>3
  <2>6. CASE e \in a.files
    <3>1. f \in Files \ Hidden(q) /\ q.tree[f] = st /\ st \in {"edited", "rewritten", "deleted"}
        BY <2>3, <2>6, PathEntry
    <3>2. r.tree[f] = st
        BY <1>0, <1>2, <2>4, <3>1
    <3>3. e \in b.files
        BY <1>0, <2>3, <3>1, <3>2, EntriesOfFile
    <3> QED BY <2>1, <2>6, <3>3
  <2> QED BY <2>1, <2>5, <2>6
<1> QED BY <1>1, <1>2

(* A snapshot that shows a state of the repository.                        *)
Shows(s, r) == s.head = r.head /\ s.refs = r.refs /\ s.files = FileStates(r)

(* compare: of two snapshots that show one state of the repository each,   *)
(* the verdict is passed exactly when the second state leaves alone what   *)
(* the evidence asks to: whatever files there are, wherever, and whatever  *)
(* became of them, and of the files of a directory that is untracked as a  *)
(* whole only that something is left.                                      *)
THEOREM PassedIsRespected ==
    ASSUME NEW b \in Snapshot, NEW a \in Snapshot, NEW r \in Repository, NEW q \in Repository,
           Shows(b, r), Shows(a, q)
    PROVE  Passed(b, a) <=> Respected(r, q)
<1>1. b.files = FileStates(r) /\ a.files = FileStates(q)
    BY DEF Shows
<1>2. CASE r.head # q.head
    BY <1>2 DEF Passed, Respected, Shows
<1>3. CASE r.head = q.head
  <2>1. UnrelatedPreserved(b, a) <=> DirtyIsKept(r, q)
      BY <1>1, <1>3, PreservedIsUnchanged DEF UnrelatedPreserved
  <2>2. DirtyIsKept(r, q)
        => (ProtectedChanged(b, a) = {}
              <=> \A f \in Protected \ Hidden(r) : q.tree[f] \in {r.tree[f], "renamed"})
      BY <1>1, <1>3, NoneChangedIsProtected
  <2> QED BY <1>3, <2>1, <2>2 DEF Passed, Respected, DirtyIsKept, Shows
<1> QED BY <1>2, <1>3
-----------------------------------------------------------------------------
(* What a call knows of the repository while it takes a snapshot, and what *)
(* a snapshot on file tells, for any calls in any order.                   *)

(* A snapshot that was taken while the repository did not change shows it. *)
Faithful(s) == \A r \in s.seen : s.seen = {r} => Shows(s, r)

Judged(e) ==
    Faithful(e.before) /\ Faithful(e.after) /\ e.passed = Passed(e.before, e.after)

HeadIsKnown(p) ==
    pc[p] \in {"refs", "files"} =>
       /\ repo \in held[p].seen
       /\ \A r \in held[p].seen : held[p].seen = {r} => held[p].head = r.head

RefsAreKnown(p) ==
    pc[p] = "files" =>
       \A r \in held[p].seen : held[p].seen = {r} => held[p].refs = r.refs

SnapshotIsFaithful(p) == pc[p] \in {"baseline", "stage"} => Faithful(held[p])

BaseIsFaithful(p) == base[p] # None => Faithful(base[p])

FilesAreFaithful ==
    /\ before # None => Faithful(before)
    /\ staged # None => Judged(staged)
    /\ evidence # None => Judged(evidence)

SteadyInv ==
    /\ TInv
    /\ \A p \in Calls : /\ HeadIsKnown(p) /\ RefsAreKnown(p)
                         /\ SnapshotIsFaithful(p) /\ BaseIsFaithful(p)
    /\ FilesAreFaithful

LEMMA SteadyInit == Init => SteadyInv
<1> SUFFICES ASSUME Init PROVE SteadyInv
    OBVIOUS
<1>1. TInv
    BY TypeInit
<1> QED
    BY <1>1 DEF Init, SteadyInv, HeadIsKnown, RefsAreKnown, SnapshotIsFaithful, BaseIsFaithful,
       FilesAreFaithful

(* Steps that neither move a call into a snapshot nor write what it found. *)
LEMMA SteadyUnmoved ==
    ASSUME SteadyInv, TInv', UNCHANGED <<before, staged, evidence, repo, held, base>>,
           \A p \in Calls : pc'[p] \in SnapshotPc \cup {"baseline", "stage"} => \/ pc'[p] = pc[p]
                                                                              \/ pc'[p] = "head"
    PROVE  SteadyInv'
<1>1. ASSUME NEW p \in Calls
      PROVE  /\ HeadIsKnown(p)' /\ RefsAreKnown(p)'
             /\ SnapshotIsFaithful(p)' /\ BaseIsFaithful(p)'
    BY DEF SteadyInv, HeadIsKnown, RefsAreKnown, SnapshotIsFaithful, BaseIsFaithful, SnapshotPc
<1>2. FilesAreFaithful'
    BY DEF SteadyInv, FilesAreFaithful
<1> QED BY <1>1, <1>2 DEF SteadyInv

LEMMA TakenShows ==
    ASSUME NEW h, NEW g, NEW fs, NEW sn
    PROVE  /\ Taken(h, g, fs, sn).head = h /\ Taken(h, g, fs, sn).refs = g
           /\ Taken(h, g, fs, sn).files = fs /\ Taken(h, g, fs, sn).seen = sn
BY DEF Taken

LEMMA NothingIsFaithful == Faithful(NoSnapshot)
BY TakenShows DEF NoSnapshot, Faithful

(* What one call does to its own snapshot leaves the others as they are.   *)
LEMMA SteadyOthers ==
    ASSUME SteadyInv, repo' = repo, NEW p \in Calls, NEW q \in Calls, q # p,
           pc'[q] = pc[q], held'[q] = held[q], base'[q] = base[q]
    PROVE  /\ HeadIsKnown(q)' /\ RefsAreKnown(q)'
           /\ SnapshotIsFaithful(q)' /\ BaseIsFaithful(q)'
BY DEF SteadyInv, HeadIsKnown, RefsAreKnown, SnapshotIsFaithful, BaseIsFaithful

LEMMA SteadyJudge ==
    ASSUME SteadyInv, NEW p \in Calls, JudgeStep(p), TInv'
    PROVE  SteadyInv'
<1>s. /\ pc \in [Calls -> PcLabels] /\ held \in [Calls -> Snapshot]
      /\ base \in [Calls -> Snapshot \cup {None}] /\ repo \in Repository
      /\ outcome \in [Calls -> {"returned", "raised"}]
    BY DEF SteadyInv, TInv, TypeOK, PcLabels
<1>k. /\ HeadIsKnown(p) /\ RefsAreKnown(p) /\ SnapshotIsFaithful(p) /\ BaseIsFaithful(p)
      /\ FilesAreFaithful
    BY DEF SteadyInv
<1> USE <1>s DEF files, work, call, Goto
<1>1. CASE TakeHead(p)
  <2>1. ASSUME NEW q \in Calls, q # p
        PROVE  pc'[q] = pc[q] /\ held'[q] = held[q] /\ base'[q] = base[q]
      BY <1>1, <2>1 DEF TakeHead
  <2>2. /\ pc'[p] = "refs" /\ held'[p] = Taken(repo.head, 0, {}, {repo}) /\ repo' = repo
        /\ base' = base /\ UNCHANGED <<before, staged, evidence>>
      BY <1>1 DEF TakeHead
  <2>3. HeadIsKnown(p)' /\ RefsAreKnown(p)' /\ SnapshotIsFaithful(p)' /\ BaseIsFaithful(p)'
      BY <1>k, <2>2, TakenShows
      DEF HeadIsKnown, RefsAreKnown, SnapshotIsFaithful, BaseIsFaithful
  <2>4. FilesAreFaithful'
      BY <1>k, <2>2 DEF FilesAreFaithful
  <2> QED BY <2>1, <2>2, <2>3, <2>4, SteadyOthers DEF SteadyInv
<1>2. CASE TakeRefs(p)
  <2>1. ASSUME NEW q \in Calls, q # p
        PROVE  pc'[q] = pc[q] /\ held'[q] = held[q] /\ base'[q] = base[q]
      BY <1>2, <2>1 DEF TakeRefs
  <2>2. /\ pc[p] = "refs" /\ pc'[p] = "files" /\ repo' = repo
        /\ held'[p] = Taken(held[p].head, repo.refs, {}, held[p].seen)
        /\ base' = base /\ UNCHANGED <<before, staged, evidence>>
      BY <1>2 DEF TakeRefs
  <2>3. HeadIsKnown(p)' /\ RefsAreKnown(p)' /\ SnapshotIsFaithful(p)' /\ BaseIsFaithful(p)'
      BY <1>k, <2>2, TakenShows
      DEF HeadIsKnown, RefsAreKnown, SnapshotIsFaithful, BaseIsFaithful
  <2>4. FilesAreFaithful'
      BY <1>k, <2>2 DEF FilesAreFaithful
  <2> QED BY <2>1, <2>2, <2>3, <2>4, SteadyOthers DEF SteadyInv
<1>3. CASE TakeFiles(p)
  <2>1. ASSUME NEW q \in Calls, q # p
        PROVE  pc'[q] = pc[q] /\ held'[q] = held[q] /\ base'[q] = base[q]
      BY <1>3, <2>1 DEF TakeFiles
  <2>2. /\ pc[p] = "files" /\ repo' = repo
        /\ base' = base /\ UNCHANGED <<before, staged, evidence>>
        /\ pc'[p] \in {"raised", "baseline", "stage"}
      BY <1>3 DEF TakeFiles
  <2>3. Faithful(held'[p])
    <3>1. CASE held'[p] = NoSnapshot
        BY <3>1, NothingIsFaithful
    <3>2. CASE held'[p] = Taken(held[p].head, held[p].refs, FileStates(repo), held[p].seen)
        BY <1>k, <2>2, <3>2, TakenShows DEF Faithful, Shows, HeadIsKnown, RefsAreKnown
    <3> QED BY <1>3, <3>1, <3>2 DEF TakeFiles
  <2>4. HeadIsKnown(p)' /\ RefsAreKnown(p)' /\ SnapshotIsFaithful(p)' /\ BaseIsFaithful(p)'
      BY <1>k, <2>2, <2>3 DEF HeadIsKnown, RefsAreKnown, SnapshotIsFaithful, BaseIsFaithful
  <2>5. FilesAreFaithful'
      BY <1>k, <2>2 DEF FilesAreFaithful
  <2> QED BY <2>1, <2>2, <2>4, <2>5, SteadyOthers DEF SteadyInv
<1>4. CASE ReadBaseline(p)
  <2>1. ASSUME NEW q \in Calls, q # p
        PROVE  pc'[q] = pc[q] /\ held'[q] = held[q] /\ base'[q] = base[q]
      BY <1>4, <2>1 DEF ReadBaseline
  <2>2. /\ repo' = repo /\ UNCHANGED <<before, staged, evidence>>
        /\ pc'[p] \in {"head", "returned", "raised"}
        /\ base'[p] = base[p] \/ base'[p] = before
      BY <1>4 DEF ReadBaseline
  <2>3. HeadIsKnown(p)' /\ RefsAreKnown(p)' /\ SnapshotIsFaithful(p)' /\ BaseIsFaithful(p)'
      BY <1>k, <2>2
      DEF HeadIsKnown, RefsAreKnown, SnapshotIsFaithful, BaseIsFaithful, FilesAreFaithful
  <2>4. FilesAreFaithful'
      BY <1>k, <2>2 DEF FilesAreFaithful
  <2> QED BY <2>1, <2>2, <2>3, <2>4, SteadyOthers DEF SteadyInv
<1>5. CASE StageEvidence(p)
  <2>1. ASSUME NEW q \in Calls, q # p
        PROVE  pc'[q] = pc[q] /\ held'[q] = held[q] /\ base'[q] = base[q]
      BY <1>5, <2>1 DEF StageEvidence
  <2>2. /\ pc[p] = "stage" /\ pc'[p] = "replace" /\ repo' = repo
        /\ staged' = Verdict(base[p], held[p])
        /\ base' = base /\ UNCHANGED <<before, evidence>>
      BY <1>5 DEF StageEvidence
  <2>3. HeadIsKnown(p)' /\ RefsAreKnown(p)' /\ SnapshotIsFaithful(p)' /\ BaseIsFaithful(p)'
      BY <1>k, <2>2 DEF HeadIsKnown, RefsAreKnown, SnapshotIsFaithful, BaseIsFaithful
  <2>4. Judged(staged')
    <3>1. Faithful(base[p]) /\ Faithful(held[p])
        BY <1>k, <2>2 DEF SteadyInv, TInv, JudgesHaveBaseline, BaseIsFaithful, SnapshotIsFaithful
    <3>2. /\ staged'.before = base[p] /\ staged'.after = held[p]
          /\ staged'.passed = Passed(base[p], held[p])
        BY <2>2 DEF Verdict
    <3> QED BY <3>1, <3>2 DEF Judged
  <2>5. FilesAreFaithful'
      BY <1>k, <2>2, <2>4 DEF FilesAreFaithful
  <2> QED BY <2>1, <2>2, <2>3, <2>5, SteadyOthers DEF SteadyInv
<1>6. CASE ReplaceEvidence(p)
  <2>1. ASSUME NEW q \in Calls, q # p
        PROVE  pc'[q] = pc[q] /\ held'[q] = held[q] /\ base'[q] = base[q]
      BY <1>6, <2>1 DEF ReplaceEvidence
  <2>2. /\ repo' = repo /\ pc'[p] \in {"returned", "raised"} /\ base'[p] = None
        /\ before' = before
        /\ \/ staged # None /\ evidence' = staged /\ staged' = None
           \/ UNCHANGED <<evidence, staged>>
      BY <1>6 DEF ReplaceEvidence
  <2>3. HeadIsKnown(p)' /\ RefsAreKnown(p)' /\ SnapshotIsFaithful(p)' /\ BaseIsFaithful(p)'
      BY <1>k, <2>2 DEF HeadIsKnown, RefsAreKnown, SnapshotIsFaithful, BaseIsFaithful
  <2>4. FilesAreFaithful'
      BY <1>k, <2>2 DEF FilesAreFaithful
  <2> QED BY <2>1, <2>2, <2>3, <2>4, SteadyOthers DEF SteadyInv
<1> QED BY <1>1, <1>2, <1>3, <1>4, <1>5, <1>6 DEF JudgeStep

LEMMA SteadyNext == SteadyInv /\ [Next]_vars => SteadyInv'
<1> SUFFICES ASSUME SteadyInv, [Next]_vars PROVE SteadyInv'
    OBVIOUS
<1>t. TInv'
    BY TypeNext DEF SteadyInv
<1>s. /\ pc \in [Calls -> PcLabels] /\ held \in [Calls -> Snapshot]
      /\ base \in [Calls -> Snapshot \cup {None}] /\ repo \in Repository
      /\ outcome \in [Calls -> {"returned", "raised"}]
    BY DEF SteadyInv, TInv, TypeOK, PcLabels
<1>c. Callers \subseteq Calls /\ Observers \subseteq Calls
    BY DEF Calls
<1> USE DEF files, work, call, Goto
<1>1. ASSUME NEW c \in Callers,
             \/ Execute(c) \/ ReadMission(c) \/ WriteMission(c) \/ ExecuteStrategy(c)
             \/ CreateStrategy(c) \/ StrategyEnds(c) \/ StartDetached(c)
      PROVE  SteadyInv'
  <2>1. UNCHANGED <<before, staged, evidence, repo, held, base>>
      BY <1>1 DEF Execute, ReadMission, WriteMission, ExecuteStrategy, CreateStrategy,
         StrategyEnds, StartDetached
  <2>2. \E label \in {"register", "raised", "write", "launch", "head", "create",
                       "working", "judge", "returned"} :
           pc' = [pc EXCEPT ![c] = label]
      BY <1>1 DEF Execute, ReadMission, WriteMission, ExecuteStrategy, CreateStrategy,
         StrategyEnds, StartDetached
  <2>3. \A p \in Calls : pc'[p] \in SnapshotPc \cup {"baseline", "stage"} => \/ pc'[p] = pc[p]
                                                                          \/ pc'[p] = "head"
      BY <1>s, <2>2 DEF SnapshotPc
  <2> QED BY <1>t, <2>1, <2>3, SteadyUnmoved
<1>2. ASSUME NEW c \in Callers, WriteBaseline(c) PROVE SteadyInv'
  <2>1. ASSUME NEW q \in Calls, q # c
        PROVE  pc'[q] = pc[q] /\ held'[q] = held[q] /\ base'[q] = base[q]
      BY <1>2, <1>s, <2>1 DEF WriteBaseline
  <2>2. /\ pc[c] = "baseline" /\ pc'[c] = "launch" /\ repo' = repo /\ before' = held[c]
        /\ base' = base /\ UNCHANGED <<staged, evidence>>
      BY <1>2, <1>s, <1>c DEF WriteBaseline
  <2>3. HeadIsKnown(c)' /\ RefsAreKnown(c)' /\ SnapshotIsFaithful(c)' /\ BaseIsFaithful(c)'
      BY <1>c, <2>2
      DEF SteadyInv, HeadIsKnown, RefsAreKnown, SnapshotIsFaithful, BaseIsFaithful
  <2>4. FilesAreFaithful'
      BY <1>c, <2>2 DEF SteadyInv, FilesAreFaithful, SnapshotIsFaithful
  <2> QED BY <1>c, <1>t, <2>1, <2>2, <2>3, <2>4, SteadyOthers DEF SteadyInv
<1>3. ASSUME NEW o \in Observers, ReadStatus(o) PROVE SteadyInv'
  <2>1. UNCHANGED <<before, staged, evidence, repo, held, base>>
      BY <1>3 DEF ReadStatus
  <2>2. \E label \in {"judge", "raised"} : pc' = [pc EXCEPT ![o] = label]
      BY <1>3 DEF ReadStatus
  <2> QED BY <1>s, <1>t, <2>1, <2>2, SteadyUnmoved DEF SnapshotPc
<1>4. ASSUME NEW p \in Calls, JudgeStep(p) PROVE SteadyInv'
    BY <1>4, <1>t, SteadyJudge
<1>5. CASE WorkerBegins \/ WorkerCreates \/ WorkerEnds
  <2>1. UNCHANGED <<before, staged, evidence, repo, held, base, pc>>
      BY <1>5 DEF WorkerBegins, WorkerCreates, WorkerEnds
  <2> QED BY <1>t, <2>1, SteadyUnmoved
<1>6. CASE Change
  <2>1. UNCHANGED <<before, staged, evidence, pc, base>>
      BY <1>6 DEF Change
  <2>2. ASSUME NEW p \in Calls
        PROVE  /\ HeadIsKnown(p)' /\ RefsAreKnown(p)'
               /\ SnapshotIsFaithful(p)' /\ BaseIsFaithful(p)'
    <3>1. CASE pc[p] \in {"refs", "files"}
      <4>1. held'[p] = Taken(held[p].head, held[p].refs, held[p].files, held[p].seen \cup {repo'})
          BY <1>6, <3>1 DEF Change, SnapshotPc
      <4>2. /\ held'[p].head = held[p].head /\ held'[p].refs = held[p].refs
            /\ held'[p].seen = held[p].seen \cup {repo'}
          BY <4>1, TakenShows
      <4>3. HeadIsKnown(p) /\ RefsAreKnown(p) /\ BaseIsFaithful(p)
          BY DEF SteadyInv
      <4>4. \A r : held'[p].seen = {r} => held[p].seen = {r} /\ r \in held[p].seen
          BY <3>1, <4>2, <4>3 DEF HeadIsKnown
      <4> QED BY <2>1, <3>1, <4>2, <4>3, <4>4
          DEF HeadIsKnown, RefsAreKnown, SnapshotIsFaithful, BaseIsFaithful
    <3>2. CASE pc[p] \notin {"refs", "files"}
      <4>1. held'[p] = held[p]
          BY <1>6, <3>2 DEF Change, SnapshotPc
      <4> QED BY <2>1, <3>2, <4>1
          DEF SteadyInv, HeadIsKnown, RefsAreKnown, SnapshotIsFaithful, BaseIsFaithful
    <3> QED BY <3>1, <3>2
  <2>3. FilesAreFaithful'
      BY <2>1 DEF SteadyInv, FilesAreFaithful
  <2> QED BY <1>t, <2>2, <2>3 DEF SteadyInv
<1>7. ASSUME NEW p \in Calls, Crash(p) PROVE SteadyInv'
  <2>1. ASSUME NEW q \in Calls, q # p
        PROVE  pc'[q] = pc[q] /\ held'[q] = held[q] /\ base'[q] = base[q]
      BY <1>7, <1>s, <2>1 DEF Crash
  <2>2. pc'[p] = "crashed" /\ repo' = repo /\ base' = base /\ UNCHANGED <<before, staged, evidence>>
      BY <1>7, <1>s DEF Crash
  <2>3. HeadIsKnown(p)' /\ RefsAreKnown(p)' /\ SnapshotIsFaithful(p)' /\ BaseIsFaithful(p)'
      BY <2>2 DEF SteadyInv, HeadIsKnown, RefsAreKnown, SnapshotIsFaithful, BaseIsFaithful
  <2>4. FilesAreFaithful'
      BY <2>2 DEF SteadyInv, FilesAreFaithful
  <2> QED BY <1>t, <2>1, <2>2, <2>3, <2>4, SteadyOthers DEF SteadyInv
<1>8. CASE UNCHANGED vars
  <2>1. UNCHANGED <<before, staged, evidence, repo, held, base, pc>>
      BY <1>8 DEF vars
  <2> QED BY <1>t, <2>1, SteadyUnmoved
<1> QED
    BY <1>1, <1>2, <1>3, <1>4, <1>5, <1>6, <1>7, <1>8 DEF Next, CallerStep

LEMMA JudgedIsRespect == TInv /\ FilesAreFaithful => VerdictIsRespect
<1> SUFFICES ASSUME TInv, FilesAreFaithful, evidence # None,
                    NEW b \in evidence.before.seen, NEW a \in evidence.after.seen,
                    evidence.before.seen = {b}, evidence.after.seen = {a}
             PROVE  evidence.passed <=> Respected(b, a)
    BY DEF VerdictIsRespect
<1>1. /\ evidence.before \in Snapshot /\ evidence.after \in Snapshot
      /\ evidence.passed \in BOOLEAN
    BY DEF TInv, TypeOK, Evidence
<1>2. b \in Repository /\ a \in Repository
    BY <1>1 DEF Snapshot
<1>3. Shows(evidence.before, b) /\ Shows(evidence.after, a)
    BY DEF FilesAreFaithful, Judged, Faithful
<1>4. Passed(evidence.before, evidence.after) <=> Respected(b, a)
    BY <1>1, <1>2, <1>3, PassedIsRespected
<1>5. evidence.passed = Passed(evidence.before, evidence.after)
    BY DEF FilesAreFaithful, Judged
<1> QED BY <1>4, <1>5

(* The verdict of the evidence is right for any calls in any order, also   *)
(* when calls of execute overlap: whoever wrote the evidence, if the       *)
(* repository stood still during both of its snapshots, passed says        *)
(* whether the Mission left alone what Respected lists.                    *)
THEOREM VerdictCorrect == Spec => []VerdictIsRespect
<1>1. SteadyInv => VerdictIsRespect
    BY JudgedIsRespect DEF SteadyInv
<1> QED BY SteadyInit, SteadyNext, <1>1, PTL DEF Spec
-----------------------------------------------------------------------------
(* What the files of a Mission are about, while calls of execute take      *)
(* turns: who registers finds no baseline, and whatever is compared,       *)
(* staged or published is about the one on file.                           *)

BaselineIsFirst ==
    /\ record = None => before = None
    /\ \A c \in Callers : Registering(c) => before = None

BaseIsOnFile == \A p \in Calls : base[p] # None => base[p] = before

About(e) == e # None => before # None /\ e.before = before

(* Only a call that finds no Strategy, or the worker, begins one.          *)
NoneBegan(by) == \A i \in DOMAIN worked : worked[i].by # by

BegunOnce ==
    /\ strategy = None => NoneBegan("call")
    /\ \A c \in Callers : pc[c] = "create" => NoneBegan("call")
    /\ worker \in {"none", "queued", "create"} => NoneBegan("worker")
    /\ launched = None => worker = "none"

BasisInv == BaselineIsFirst /\ BaseIsOnFile /\ About(staged) /\ About(evidence) /\ BegunOnce

LEMMA BasisInit == Init => BasisInv
<1> SUFFICES ASSUME Init PROVE BasisInv
    OBVIOUS
<1> QED
    BY DEF Init, BasisInv, BaselineIsFirst, BaseIsOnFile, About, BegunOnce, NoneBegan,
       Registering, SnapshotPc, Calls

LEMMA BasisNext == TurnInv /\ BasisInv /\ [Next]_vars => BasisInv'
<1> SUFFICES ASSUME TurnInv, BasisInv, [Next]_vars PROVE BasisInv'
    OBVIOUS
<1>s. /\ pc \in [Calls -> PcLabels] /\ worked \in Seq(Start)
      /\ asked \in [Callers -> Question \cup {None}]
      /\ \A c \in Callers : pc[c] # "idle" => asked[c] \in Question
      /\ None \notin Requests /\ launched \in Requests \cup {None}
      /\ base \in [Calls -> Snapshot \cup {None}]
      /\ outcome \in [Calls -> {"returned", "raised"}]
      /\ \A p \in Calls : pc[p] = "stage" => base[p] # None
    BY MissionAssumption
    DEF TurnInv, TInv, TypeOK, PcLabels, JudgesHaveBaseline, CallsAreAsked, Question
<1>p. /\ OneAtATime /\ NothingBegun /\ RecordIsTheirs
      /\ BaselineIsFirst /\ BaseIsOnFile /\ About(staged) /\ About(evidence) /\ BegunOnce
    BY DEF TurnInv, BasisInv
<1> SUFFICES /\ BaselineIsFirst' /\ BaseIsOnFile' /\ About(staged)' /\ About(evidence)'
             /\ BegunOnce'
    BY DEF BasisInv
<1> USE <1>s, <1>p
    DEF BaselineIsFirst, BaseIsOnFile, About, BegunOnce, NoneBegan, Registering, SnapshotPc, Ended,
        PcLabels, Calls, Goto, files, work, call
<1>1. ASSUME NEW c \in Callers, Execute(c)
      PROVE  BaselineIsFirst' /\ BaseIsOnFile' /\ About(staged)' /\ About(evidence)' /\ BegunOnce'
    BY <1>1 DEF Execute
<1>2. ASSUME NEW c \in Callers, ReadMission(c)
      PROVE  BaselineIsFirst' /\ BaseIsOnFile' /\ About(staged)' /\ About(evidence)' /\ BegunOnce'
    BY <1>2 DEF ReadMission
<1>3. ASSUME NEW c \in Callers, WriteMission(c)
      PROVE  BaselineIsFirst' /\ BaseIsOnFile' /\ About(staged)' /\ About(evidence)' /\ BegunOnce'
    BY <1>3 DEF WriteMission
<1>4. ASSUME NEW c \in Callers, WriteBaseline(c)
      PROVE  BaselineIsFirst' /\ BaseIsOnFile' /\ About(staged)' /\ About(evidence)' /\ BegunOnce'
  <2>1. before = None
      BY <1>4 DEF NothingBegun, WriteBaseline
  <2>2. \A d \in Callers : Registering(d)' => FALSE
      BY <1>4 DEF OneAtATime, Active, WriteBaseline
  <2>3. record # None
      BY <1>4, MissionAssumption
      DEF RecordIsTheirs, Registered, WriteBaseline, TurnInv, TInv, CallsAreAsked, Question
  <2> QED BY <1>4, <2>1, <2>2, <2>3 DEF WriteBaseline
<1>5. ASSUME NEW c \in Callers, ExecuteStrategy(c)
      PROVE  BaselineIsFirst' /\ BaseIsOnFile' /\ About(staged)' /\ About(evidence)' /\ BegunOnce'
    BY <1>5 DEF ExecuteStrategy
<1>19. ASSUME NEW c \in Callers, CreateStrategy(c)
      PROVE  BaselineIsFirst' /\ BaseIsOnFile' /\ About(staged)' /\ About(evidence)' /\ BegunOnce'
  <2>1. asked[c].request \in Requests
      BY <1>19 DEF CreateStrategy, Question
  <2>2. strategy' # None /\ worked' = Begun("call", asked[c].request)
      BY <1>19, <2>1 DEF CreateStrategy
  <2>3. \A d \in Callers : pc'[d] # "create"
      BY <1>19 DEF CreateStrategy, OneAtATime, Active
  <2>4. NoneBegan("worker") => NoneBegan("worker")'
      BY <2>1, <2>2, BegunIsAppended
  <2> QED BY <1>19, <2>2, <2>3, <2>4 DEF CreateStrategy
<1>6. ASSUME NEW c \in Callers, StrategyEnds(c)
      PROVE  BaselineIsFirst' /\ BaseIsOnFile' /\ About(staged)' /\ About(evidence)' /\ BegunOnce'
    BY <1>6 DEF StrategyEnds
<1>7. ASSUME NEW c \in Callers, StartDetached(c)
      PROVE  BaselineIsFirst' /\ BaseIsOnFile' /\ About(staged)' /\ About(evidence)' /\ BegunOnce'
    BY <1>7 DEF StartDetached, Question
<1>8. ASSUME NEW o \in Observers, ReadStatus(o)
      PROVE  BaselineIsFirst' /\ BaseIsOnFile' /\ About(staged)' /\ About(evidence)' /\ BegunOnce'
    BY <1>8, MissionAssumption DEF ReadStatus
<1>9. ASSUME NEW p \in Calls, TakeHead(p) \/ TakeRefs(p)
      PROVE  BaselineIsFirst' /\ BaseIsOnFile' /\ About(staged)' /\ About(evidence)' /\ BegunOnce'
    BY <1>9 DEF TakeHead, TakeRefs
<1>10. ASSUME NEW p \in Calls, TakeFiles(p)
      PROVE  BaselineIsFirst' /\ BaseIsOnFile' /\ About(staged)' /\ About(evidence)' /\ BegunOnce'
    BY <1>10 DEF TakeFiles
<1>11. ASSUME NEW p \in Calls, ReadBaseline(p)
      PROVE  BaselineIsFirst' /\ BaseIsOnFile' /\ About(staged)' /\ About(evidence)' /\ BegunOnce'
    BY <1>11 DEF ReadBaseline
<1>12. ASSUME NEW p \in Calls, StageEvidence(p)
      PROVE  BaselineIsFirst' /\ BaseIsOnFile' /\ About(staged)' /\ About(evidence)' /\ BegunOnce'
  <2>1. staged'.before = before
      BY <1>12 DEF StageEvidence, Verdict
  <2> QED BY <1>12, <2>1 DEF StageEvidence
<1>13. ASSUME NEW p \in Calls, ReplaceEvidence(p)
      PROVE  BaselineIsFirst' /\ BaseIsOnFile' /\ About(staged)' /\ About(evidence)' /\ BegunOnce'
    BY <1>13 DEF ReplaceEvidence
<1>14. CASE WorkerBegins
    BY <1>14 DEF WorkerBegins
<1>20. CASE WorkerCreates
  <2>1. launched \in Requests
      BY <1>20 DEF WorkerCreates
  <2>2. strategy' # None /\ worked' = Begun("worker", launched)
      BY <1>20, <2>1 DEF WorkerCreates
  <2>3. NoneBegan("call") => NoneBegan("call")'
      BY <2>1, <2>2, BegunIsAppended
  <2> QED BY <1>20, <2>1, <2>2, <2>3 DEF WorkerCreates
<1>15. CASE WorkerEnds
    BY <1>15 DEF WorkerEnds
<1>16. CASE Change
    BY <1>16 DEF Change
<1>17. ASSUME NEW p \in Calls, Crash(p)
      PROVE  BaselineIsFirst' /\ BaseIsOnFile' /\ About(staged)' /\ About(evidence)' /\ BegunOnce'
    BY <1>17 DEF Crash
<1>18. CASE UNCHANGED vars
    BY <1>18 DEF vars
<1> QED
    BY <1>1, <1>2, <1>3, <1>4, <1>5, <1>6, <1>7, <1>8, <1>9, <1>10, <1>11, <1>12, <1>13,
       <1>14, <1>15, <1>16, <1>17, <1>18, <1>19, <1>20 DEF Next, CallerStep, JudgeStep

(* The evidence of a Mission is about the baseline on file and judges it   *)
(* rightly: for calls of execute that take turns and any calls of status,  *)
(* whatever files, changes and crashes there are.                          *)
THEOREM VerdictSound == Overlap = FALSE /\ Spec => []VerdictIsSound
<1> SUFFICES ASSUME Overlap = FALSE PROVE Spec => []VerdictIsSound
    OBVIOUS
<1>0. TurnInv /\ [Next]_vars => TurnInv'
    BY TurnNext
<1>1. BasisInv /\ VerdictIsRespect => VerdictIsSound
    BY DEF BasisInv, About, VerdictIsSound
<1> QED BY TurnInit, <1>0, BasisInit, BasisNext, VerdictCorrect, <1>1, PTL DEF Spec
-----------------------------------------------------------------------------
(* MissionRegistry implements MissionContract.                             *)

LEMMA ContractInit == Init => Contract!Init
BY DEF Init, Contract!Init

(* A step that leaves the files and the work alone is none of the          *)
(* contract.                                                               *)
LEMMA ContractStutter ==
    UNCHANGED <<record, before, evidence, launched, worked>>
       => [Contract!Next]_(Contract!contractVars)
BY DEF Contract!contractVars

LEMMA ContractNext ==
    TurnInv /\ BasisInv /\ [Next]_vars => [Contract!Next]_(Contract!contractVars)
<1> SUFFICES ASSUME TurnInv, BasisInv, [Next]_vars
             PROVE  [Contract!Next]_(Contract!contractVars)
    OBVIOUS
<1>s. /\ None \notin Requests
      /\ \A c \in Callers : pc[c] # "idle" => asked[c] \in Question
      /\ RecordIsTheirs /\ WritesOnce /\ NothingBegun /\ WorkIsTheMissions
      /\ BaselineIsFirst /\ About(staged) /\ BegunOnce
      /\ launched \in Requests \cup {None} /\ worked \in Seq(Start)
      /\ worker # "none" => launched # None
    BY MissionAssumption
    DEF TurnInv, TInv, TypeOK, CallsAreAsked, BasisInv, WorkerIsLaunched
<1>r. \A c \in Callers : Registered(c) => record = asked[c].request /\ record # None
    BY <1>s DEF RecordIsTheirs, Registered, Question, SnapshotPc
<1> USE DEF files, work, call
<1>1. ASSUME NEW c \in Callers, WriteMission(c) PROVE Contract!Next
  <2>1. record = None /\ record' \in Requests
      BY <1>s, <1>1 DEF WriteMission, WritesOnce, Question
  <2> QED BY <1>1, <2>1 DEF WriteMission, Contract!Next, Contract!Register
<1>2. ASSUME NEW c \in Callers, WriteBaseline(c) PROVE Contract!Next
  <2>1. record # None /\ before = None /\ worked = <<>> /\ launched = None
      BY <1>s, <1>r, <1>2
      DEF WriteBaseline, BaselineIsFirst, NothingBegun, Registering, Registered
  <2> QED BY <1>2, <2>1 DEF WriteBaseline, Contract!Next, Contract!Measure
<1>3. ASSUME NEW c \in Callers, CreateStrategy(c) PROVE Contract!Next
  <2>1. record # None /\ record = asked[c].request
      BY <1>r, <1>3 DEF CreateStrategy, Registered
  <2>2. \A i \in DOMAIN worked : worked[i].by # "call"
      BY <1>s, <1>3 DEF CreateStrategy, BegunOnce, NoneBegan
  <2>3. worked' = Append(worked, [by |-> "call", request |-> record])
      BY <1>3, <2>1 DEF CreateStrategy, Begun
  <2>4. Contract!Begin("call")
      BY <1>3, <2>1, <2>2, <2>3 DEF CreateStrategy, Contract!Begin
  <2> QED BY <2>4 DEF Contract!Next
<1>4. ASSUME NEW c \in Callers, StartDetached(c)
      PROVE  [Contract!Next]_(Contract!contractVars)
  <2>1. record # None /\ record = asked[c].request
      BY <1>r, <1>4 DEF StartDetached, Registered
  <2>2. CASE launched = None
      BY <1>4, <2>1, <2>2 DEF StartDetached, Contract!Next, Contract!HandOver
  <2>3. CASE launched # None
      BY <1>4, <2>3, ContractStutter DEF StartDetached
  <2> QED BY <2>2, <2>3
<1>5. CASE WorkerCreates
  <2>1. launched = record /\ record # None
      BY <1>s, <1>5 DEF WorkerCreates, WorkIsTheMissions
  <2>2. \A i \in DOMAIN worked : worked[i].by # "worker"
      BY <1>s, <1>5 DEF WorkerCreates, BegunOnce, NoneBegan
  <2>3. worked' = Append(worked, [by |-> "worker", request |-> record])
      BY <1>5, <2>1 DEF WorkerCreates, Begun
  <2>4. Contract!Begin("worker")
      BY <1>5, <2>1, <2>2, <2>3 DEF WorkerCreates, Contract!Begin
  <2> QED BY <2>4 DEF Contract!Next
<1>6. ASSUME NEW p \in Calls, ReplaceEvidence(p)
      PROVE  [Contract!Next]_(Contract!contractVars)
  <2>1. CASE staged # None
    <3>1. before # None /\ evidence' = staged /\ staged.before = before
        BY <1>s, <1>6, <2>1 DEF About, ReplaceEvidence
    <3> QED BY <1>6, <2>1, <3>1 DEF ReplaceEvidence, Contract!Next, Contract!Judge
  <2>2. CASE staged = None
      BY <1>6, <2>2, ContractStutter DEF ReplaceEvidence
  <2> QED BY <2>1, <2>2
<1>7. ASSUME NEW c \in Callers,
             Execute(c) \/ ReadMission(c) \/ ExecuteStrategy(c) \/ StrategyEnds(c)
      PROVE  UNCHANGED <<record, before, evidence, launched, worked>>
    BY <1>7 DEF Execute, ReadMission, ExecuteStrategy, StrategyEnds
<1>8. ASSUME NEW o \in Observers, ReadStatus(o)
      PROVE  UNCHANGED <<record, before, evidence, launched, worked>>
    BY <1>8 DEF ReadStatus
<1>9. ASSUME NEW p \in Calls,
             \/ TakeHead(p) \/ TakeRefs(p) \/ TakeFiles(p) \/ ReadBaseline(p)
             \/ StageEvidence(p) \/ Crash(p)
      PROVE  UNCHANGED <<record, before, evidence, launched, worked>>
    BY <1>9 DEF TakeHead, TakeRefs, TakeFiles, ReadBaseline, StageEvidence, Crash
<1>10. CASE WorkerBegins \/ WorkerEnds \/ Change \/ UNCHANGED vars
  <2>1. UNCHANGED <<record, before, evidence, launched, worked>>
      BY <1>10 DEF WorkerBegins, WorkerEnds, Change, vars
  <2> QED BY <2>1, ContractStutter
<1> QED
    BY <1>1, <1>2, <1>3, <1>4, <1>5, <1>6, <1>7, <1>8, <1>9, <1>10, ContractStutter
    DEF Next, CallerStep, JudgeStep

(* The files of a Mission keep its contract, for any requests, profiles,   *)
(* calls that take turns, crashes, observers and changes of the            *)
(* repository: every step of MissionRegistry is a step of MissionContract  *)
(* or none.                                                                *)
THEOREM ContractCorrect == Overlap = FALSE /\ Spec => ImplementsContract
<1> SUFFICES ASSUME Overlap = FALSE PROVE Spec => ImplementsContract
    OBVIOUS
<1>0. TurnInv /\ [Next]_vars => TurnInv'
    BY TurnNext
<1> QED
    BY TurnInit, <1>0, BasisInit, BasisNext, ContractInit, ContractNext, PTL
    DEF Spec, ImplementsContract, Contract!Spec
=============================================================================
