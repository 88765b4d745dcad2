------------------------- MODULE WorkspaceCatalogProofs -------------------------
(***************************************************************************)
(* Proofs about WorkspaceCatalog for any numbers of calls, directories,    *)
(* branches and ids: the file always passes the validation with which it   *)
(* is read, whoever wrote over whom, and writers that take turns lose      *)
(* nothing.                                                                *)
(***************************************************************************)
EXTENDS WorkspaceCatalog, TLAPS

Knows == {"adopt", "saveWorkspace", "discover", "list", "upsert", "reload", "create", "add"}

(* A call that works for a Project holds its id, and the copy it goes by   *)
(* when it asks Git has that Project.                                      *)
ProjectIsHeld ==
    \A c \in Clients :
       /\ pc[c] \in Knows => mem[c].project \in Ids
       /\ pc[c] \in {"list", "add"} => HasProject(mem[c].copy, mem[c].project)

(* What a call was asked fits the place where it is.                       *)
AskedFits ==
    \A c \in Clients :
       /\ pc[c] \in {"register", "saveProject"} =>
             asked[c].op # "adopt" /\ asked[c].dir \in Dirs
       /\ pc[c] = "adopt" => AdoptedPath(c) \in Paths
       /\ pc[c] \in {"create", "add"} => asked[c].branch \in Branches

(* The path to register and what the loops have left.                      *)
TasksFit ==
    \A c \in Clients :
       /\ pc[c] = "saveWorkspace" => mem[c].path \in Paths
       /\ pc[c] \in {"upsert", "reload"} => mem[c].todo \subseteq Paths

PcLabels == {"idle", "register", "saveProject", "adopt", "saveWorkspace", "discover", "list",
             "upsert", "reload", "create", "add", "context", "inspect"} \cup Over

(* The state of a call, and of the file.                                   *)
World ==
    /\ catalog \in Catalog /\ issued \in 0 .. MaxIds /\ made \subseteq Worktree
    /\ acked \subseteq Workspace

TInv ==
    /\ World
    /\ pc \in [Clients -> PcLabels]
    /\ asked \in [Clients -> Question]
    /\ mem \in [Clients -> Memory]
    /\ failure \in [Clients -> Failures]
    /\ shown \in [Clients -> SUBSET Paths]
    /\ overlapped \in BOOLEAN
    /\ ProjectIsHeld /\ AskedFits /\ TasksFit

LEMMA HeldIsMemory ==
    ASSUME NEW id \in Ids \cup {None}, NEW p \in Paths \cup {None}, NEW k \in Catalog,
           NEW tasks \in (SUBSET Paths) \cup (SUBSET Workspace)
    PROVE  Held(id, p, k, tasks) \in Memory
BY DEF Held, Memory

LEMMA NothingIsMemory == Nothing \in Memory
BY HeldIsMemory DEF Nothing, EmptyCatalog, Catalog

LEMMA RootIsDir ==
    ASSUME NEW k \in Catalog, NEW id, HasProject(k, id)
    PROVE  RootOf(k, id) \in Dirs
BY DEF Catalog, HasProject, RootOf, Project

LEMMA ManagedIsPath ==
    ASSUME NEW id \in Ids, NEW b \in Branches PROVE ManagedPath(id, b) \in Paths
BY DEF Paths

LEMMA GrowingCatalog ==
    ASSUME NEW k \in Catalog
    PROVE  /\ \A p \in Project : WithProject(k, p) \in Catalog
           /\ \A w \in Workspace : WithWorkspace(k, w) \in Catalog
BY DEF WithProject, WithWorkspace, Catalog

LEMMA TypeInit == Init => TInv
<1> SUFFICES ASSUME Init PROVE TInv
    OBVIOUS
<1>1. Idle \in Question
    BY DEF Question
<1>2. EmptyCatalog \in Catalog
    BY DEF EmptyCatalog, Catalog
<1>3. World
    BY <1>2, CatalogAssumption DEF Init, World
<1>4. ProjectIsHeld /\ AskedFits /\ TasksFit
    BY DEF Init, ProjectIsHeld, AskedFits, TasksFit, Knows
<1>5. /\ pc \in [Clients -> PcLabels] /\ failure \in [Clients -> Failures]
      /\ shown \in [Clients -> SUBSET Paths] /\ overlapped \in BOOLEAN
    BY DEF Init, PcLabels, Failures
<1>6. mem \in [Clients -> Memory] /\ asked \in [Clients -> Question]
    BY <1>1, NothingIsMemory DEF Init
<1> QED
    BY <1>3, <1>4, <1>5, <1>6 DEF TInv

(* Upsert writes a catalog or none, and goes on or raises.                 *)
LEMMA UpsertIsTyped ==
    ASSUME TInv, NEW c \in Clients, NEW q \in Paths, NEW next \in PcLabels,
           NEW m \in Memory, m.project \in Ids, Upsert(c, q, next, m)
    PROVE  /\ catalog' \in Catalog /\ issued' \in 0 .. MaxIds /\ acked' \subseteq Workspace
           /\ \/ Goto(c, next, m) /\ UNCHANGED failure
              \/ Raise(c, "foreign") \/ Raise(c, "invalid")
<1>0. MaxIds \in Nat /\ m.copy \in Catalog
    BY CatalogAssumption DEF Memory
<1>1. CASE \E w \in m.copy.workspaces : w.path = q
  <2>1. PICK w \in m.copy.workspaces : w.path = q /\ UNCHANGED <<catalog, issued>> /\
           \/ acked' = acked \cup {w} /\ Goto(c, next, m) /\ UNCHANGED failure
           \/ Raise(c, "foreign") /\ UNCHANGED acked
      BY <1>1 DEF Upsert
  <2>2. w \in Workspace
      BY <1>0 DEF Catalog
  <2> QED BY <2>1, <2>2 DEF TInv, World
<1>2. CASE \A w \in m.copy.workspaces : w.path # q
  <2> DEFINE new == [id |-> issued + 1, project |-> m.project, path |-> q]
  <2>1. /\ issued < MaxIds /\ issued' = issued + 1
        /\ \/ /\ catalog' = WithWorkspace(m.copy, new) /\ acked' = acked \cup {new}
              /\ Goto(c, next, m) /\ UNCHANGED failure
           \/ Raise(c, "invalid") /\ UNCHANGED <<catalog, acked>>
      BY <1>2 DEF Upsert
  <2>2. new \in Workspace
      BY <1>0, <2>1 DEF TInv, World, Workspace, Ids
  <2>3. WithWorkspace(m.copy, new) \in Catalog
      BY <1>0, <2>2, GrowingCatalog
  <2>4. issued' \in 0 .. MaxIds
      BY <1>0, <2>1 DEF TInv, World
  <2> QED BY <2>1, <2>2, <2>3, <2>4 DEF TInv, World
<1> QED BY <1>1, <1>2

(* A step of one call keeps the types if what it holds after it fits.      *)
LEMMA StepIsTyped ==
    ASSUME TInv, NEW c \in Clients, NEW label \in PcLabels, NEW m \in Memory, Goto(c, label, m),
           World', UNCHANGED asked, failure' \in [Clients -> Failures],
           shown' \in [Clients -> SUBSET Paths], overlapped' \in BOOLEAN,
           label \in Knows => m.project \in Ids,
           label \in {"list", "add"} => HasProject(m.copy, m.project),
           label = "adopt" => AdoptedPath(c) \in Paths,
           label \in {"register", "saveProject"} =>
              asked[c].op # "adopt" /\ asked[c].dir \in Dirs,
           label \in {"create", "add"} => asked[c].branch \in Branches,
           label = "saveWorkspace" => m.path \in Paths,
           label \in {"upsert", "reload"} => m.todo \subseteq Paths
    PROVE  TInv'
<1>1. mem' \in [Clients -> Memory] /\ pc' \in [Clients -> PcLabels]
    BY NothingIsMemory DEF TInv, Goto
<1>2. \A d \in Clients : /\ d # c => pc'[d] = pc[d] /\ mem'[d] = mem[d]
                         /\ pc'[c] = label
                         /\ label \notin Over => mem'[c] = m
    BY DEF TInv, Goto
<1>3. label \in Over => label \notin Knows \cup {"register", "saveProject"}
    BY DEF Over, Knows
<1>4. ProjectIsHeld'
    BY <1>2, <1>3 DEF TInv, ProjectIsHeld, HasProject, Knows
<1>5. AskedFits'
    BY <1>2, <1>3 DEF TInv, AskedFits, AdoptedPath
<1>6. TasksFit'
    BY <1>2, <1>3 DEF TInv, TasksFit, Knows
<1> QED BY <1>1, <1>4, <1>5, <1>6 DEF TInv

LEMMA RaiseIsTyped ==
    ASSUME TInv, NEW c \in Clients, NEW why \in Failures, Raise(c, why),
           World', UNCHANGED asked,
           shown' \in [Clients -> SUBSET Paths], overlapped' \in BOOLEAN
    PROVE  TInv'
<1>1. failure' \in [Clients -> Failures]
    BY DEF TInv, Raise
<1>2. Goto(c, "raised", Nothing) /\ "raised" \in PcLabels \ Knows
    BY DEF Raise, PcLabels, Over, Knows
<1> QED BY <1>1, <1>2, NothingIsMemory, StepIsTyped

LEMMA WorldStays ==
    ASSUME TInv PROVE UNCHANGED <<world, acked>> => World'
BY DEF TInv, World, world

LEMMA QuestionIsRead ==
    ASSUME TInv, NEW c \in Clients
    PROVE  /\ asked[c].op = "create" => asked[c].branch \in Branches
           /\ asked[c].op = "adopt" => asked[c].path \in Paths
BY DEF TInv, Question, Idle

LEMMA CallIsTyped ==
    ASSUME TInv, NEW c \in Clients, Call(c) PROVE TInv'
<1>1. World' /\ UNCHANGED <<failure, shown>>
    BY WorldStays DEF Call, history
<1> DEFINE Begun(question, id, label) ==
        /\ question \in Question /\ id \in Ids \cup {None} /\ label \in PcLabels
        /\ Begin(c, question, id, label)
        /\ label \notin {"saveProject", "list", "add", "saveWorkspace", "upsert", "reload"}
        /\ label \in Knows => id \in Ids
        /\ label = "register" => question.op # "adopt" /\ question.dir \in Dirs
        /\ label = "adopt" => question.op = "adopt" /\ question.path \in Paths
        /\ label = "create" => question.branch \in Branches
<1>2. \E question, id, label : Begun(question, id, label)
  <2>1. ASSUME NEW op \in {"start", "register"}, NEW d \in Dirs,
               Begin(c, [op |-> op, dir |-> d], None, "register")
        PROVE  Begun([op |-> op, dir |-> d], None, "register")
      BY <2>1 DEF Question, PcLabels, Knows
  <2>2. ASSUME NEW p \in catalog.projects, NEW q \in Dirs \cup {m.path : m \in made},
               Begin(c, [op |-> "adopt", project |-> p.id, path |-> q], p.id, "adopt")
        PROVE  Begun([op |-> "adopt", project |-> p.id, path |-> q], p.id, "adopt")
    <3>1. p.id \in Ids /\ q \in Paths
        BY DEF TInv, World, Catalog, Project, Worktree, Paths
    <3> QED BY <2>2, <3>1 DEF Question, PcLabels, Knows
  <2>3. ASSUME NEW p \in catalog.projects,
               Begin(c, [op |-> "discover", project |-> p.id], p.id, "discover")
        PROVE  Begun([op |-> "discover", project |-> p.id], p.id, "discover")
    <3>1. p.id \in Ids
        BY DEF TInv, World, Catalog, Project
    <3> QED BY <2>3, <3>1 DEF Question, PcLabels, Knows
  <2>4. ASSUME NEW p \in catalog.projects, NEW b \in Branches,
               Begin(c, [op |-> "create", project |-> p.id, branch |-> b], p.id, "create")
        PROVE  Begun([op |-> "create", project |-> p.id, branch |-> b], p.id, "create")
    <3>1. p.id \in Ids
        BY DEF TInv, World, Catalog, Project
    <3> QED BY <2>4, <3>1 DEF Question, PcLabels, Knows
  <2>5. ASSUME Begin(c, [op |-> "context"], None, "context")
        PROVE  Begun([op |-> "context"], None, "context")
      BY <2>5 DEF Question, PcLabels, Knows
  <2> HIDE DEF Begun
  <2> QED BY <2>1, <2>2, <2>3, <2>4, <2>5 DEF Call
<1>3. PICK question, id, label : Begun(question, id, label)
    BY <1>2
<1> DEFINE m == Held(id, None, EmptyCatalog, {})
<1>4. m \in Memory /\ m.project = id
    BY <1>3, HeldIsMemory DEF EmptyCatalog, Catalog, Held
<1>5. Goto(c, label, m) /\ asked' = [asked EXCEPT ![c] = question] /\ overlapped' \in BOOLEAN
    BY <1>3 DEF Begin, TInv
<1> HIDE DEF m
<1>6. mem' \in [Clients -> Memory] /\ pc' \in [Clients -> PcLabels]
      /\ asked' \in [Clients -> Question]
    BY <1>3, <1>4, <1>5, NothingIsMemory DEF TInv, Goto
<1>7. /\ \A d \in Clients \ {c} : pc'[d] = pc[d] /\ mem'[d] = mem[d] /\ asked'[d] = asked[d]
      /\ pc'[c] = label /\ asked'[c] = question
      /\ label \notin Over => mem'[c] = m
    BY <1>5 DEF TInv, Goto
<1>8. label \in Over => label \notin Knows \cup {"register", "saveProject"}
    BY DEF Over, Knows
<1>9. ProjectIsHeld'
    BY <1>3, <1>4, <1>7, <1>8 DEF TInv, ProjectIsHeld, HasProject, Knows
<1>10. AskedFits'
    BY <1>3, <1>7, <1>8 DEF TInv, AskedFits, AdoptedPath, Knows
<1>11. TasksFit'
    BY <1>3, <1>7, <1>8 DEF TInv, TasksFit, Knows
<1> QED BY <1>1, <1>5, <1>6, <1>9, <1>10, <1>11 DEF TInv

(* The Project of a call, once looked up, is in the copy it goes by.       *)
LEMMA ProjectIsFound ==
    ASSUME TInv, NEW c \in Clients, NEW p \in Paths \cup {None}, NEW label,
           pc[c] \in Knows, LoadProject(c, p, label)
    PROVE  /\ Goto(c, label, Held(mem[c].project, p, catalog, {}))
           /\ HasProject(catalog, mem[c].project) /\ mem[c].project \in Ids
           /\ Held(mem[c].project, p, catalog, {}) \in Memory
           /\ Held(mem[c].project, p, catalog, {}).project = mem[c].project
           /\ Held(mem[c].project, p, catalog, {}).path = p
           /\ Held(mem[c].project, p, catalog, {}).copy = catalog
           /\ Held(mem[c].project, p, catalog, {}).todo = {}
<1>1. mem[c].project \in Ids /\ catalog \in Catalog
    BY DEF TInv, World, ProjectIsHeld
<1> QED BY <1>1, HeldIsMemory DEF LoadProject, Held

LEMMA TypeNext == TInv /\ [Next]_vars => TInv'
<1> SUFFICES ASSUME TInv, [Next]_vars PROVE TInv'
    OBVIOUS
<1>t. /\ World /\ mem \in [Clients -> Memory] /\ asked \in [Clients -> Question]
      /\ failure \in [Clients -> Failures] /\ shown \in [Clients -> SUBSET Paths]
      /\ overlapped \in BOOLEAN /\ ProjectIsHeld /\ AskedFits /\ TasksFit
    BY DEF TInv
<1>d. Dirs \subseteq Paths
    BY DEF Paths
<1>k. MaxIds \in Nat
    BY CatalogAssumption
<1>w. UNCHANGED <<world, acked>> => World'
    BY WorldStays
<1>1. ASSUME NEW c \in Clients, Call(c) PROVE TInv'
    BY <1>1, CallIsTyped
<1>2. ASSUME NEW c \in Clients, LoadForRegister(c) PROVE TInv'
  <2>1. Held(None, None, catalog, {}) \in Memory
      BY <1>t, HeldIsMemory DEF World
  <2>2. asked[c].op # "adopt" /\ asked[c].dir \in Dirs
      BY <1>2, <1>t DEF LoadForRegister, AskedFits
  <2> QED
      BY <1>2, <1>t, <1>w, <2>1, <2>2, StepIsTyped
      DEF LoadForRegister, PcLabels, Knows, history
<1>3. ASSUME NEW c \in Clients, SaveProject(c) PROVE TInv'
  <2>1. /\ mem[c].copy \in Catalog
        /\ asked[c].op # "adopt" /\ asked[c].dir \in Dirs
      BY <1>3, <1>t DEF SaveProject, Memory, AskedFits
  <2>2. PICK id \in Ids :
           /\ catalog' \in Catalog /\ issued' \in 0 .. MaxIds
           /\ Goto(c, "adopt", Held(id, None, EmptyCatalog, {}))
    <3>1. ASSUME NEW p \in mem[c].copy.projects, catalog' = mem[c].copy, UNCHANGED issued,
                 Goto(c, "adopt", Held(p.id, None, EmptyCatalog, {}))
          PROVE  p.id \in Ids /\ catalog' \in Catalog /\ issued' \in 0 .. MaxIds
        BY <2>1, <3>1, <1>t DEF Catalog, Project, World
    <3>2. ASSUME issued < MaxIds, issued' = issued + 1,
                 catalog' = WithProject(mem[c].copy,
                                        [id |-> issued + 1, root |-> asked[c].dir])
          PROVE  issued + 1 \in Ids /\ catalog' \in Catalog /\ issued' \in 0 .. MaxIds
      <4>1. issued + 1 \in Ids /\ issued' \in 0 .. MaxIds
          BY <3>2, <1>t, <1>k DEF World, Ids
      <4>2. [id |-> issued + 1, root |-> asked[c].dir] \in Project
          BY <2>1, <4>1 DEF Project
      <4> QED BY <2>1, <3>2, <4>1, <4>2, GrowingCatalog
    <3> QED BY <1>3, <3>1, <3>2 DEF SaveProject
  <2>3. /\ Held(id, None, EmptyCatalog, {}) \in Memory
        /\ Held(id, None, EmptyCatalog, {}).project = id
      BY HeldIsMemory DEF EmptyCatalog, Catalog, Held
  <2>4. World'
      BY <1>3, <2>2, <1>t DEF SaveProject, World, history
  <2>5. AdoptedPath(c) \in Paths
      BY <2>1, <1>d DEF AdoptedPath
  <2> QED
      BY <1>3, <1>t, <2>2, <2>3, <2>4, <2>5, StepIsTyped
      DEF SaveProject, PcLabels, Knows, history
<1>4. ASSUME NEW c \in Clients, LoadForAdopt(c) PROVE TInv'
  <2>1. World' /\ UNCHANGED <<asked, shown, overlapped>>
      BY <1>4, <1>w DEF LoadForAdopt, history
  <2>2. AdoptedPath(c) \in Paths /\ pc[c] \in Knows
      BY <1>4, <1>t DEF LoadForAdopt, AskedFits, Knows
  <2>3. CASE LoadProject(c, AdoptedPath(c), "saveWorkspace") /\ UNCHANGED failure
      BY <2>1, <2>2, <2>3, <1>t, ProjectIsFound, StepIsTyped DEF PcLabels, Knows
  <2>4. CASE Raise(c, "unknown") \/ Raise(c, "foreign")
      BY <2>1, <2>4, <1>t, RaiseIsTyped DEF Failures
  <2> QED BY <1>4, <2>3, <2>4 DEF LoadForAdopt, ProjectIsUnknown
<1>5. ASSUME NEW c \in Clients, SaveWorkspace(c) PROVE TInv'
  <2> DEFINE next == IF asked[c].op = "start" THEN "discover" ELSE "returned"
  <2>1. next \in PcLabels /\ mem[c] \in Memory /\ mem[c].project \in Ids
        /\ mem[c].path \in Paths
      BY <1>5, <1>t DEF SaveWorkspace, ProjectIsHeld, TasksFit, Knows, PcLabels, Over
  <2>2. Upsert(c, mem[c].path, next, mem[c]) /\ UNCHANGED <<made, asked, shown, overlapped>>
      BY <1>5 DEF SaveWorkspace
  <2>n. next \in {"discover", "returned"}
      OBVIOUS
  <2> HIDE DEF next
  <2>3. /\ World'
        /\ \/ Goto(c, next, mem[c]) /\ UNCHANGED failure
           \/ Raise(c, "foreign") \/ Raise(c, "invalid")
      BY <2>1, <2>2, <1>t, UpsertIsTyped DEF World
  <2>4. CASE Goto(c, next, mem[c]) /\ UNCHANGED failure
      BY <2>1, <2>2, <2>n, <2>3, <2>4, <1>t, StepIsTyped DEF Knows
  <2>5. CASE Raise(c, "foreign") \/ Raise(c, "invalid")
      BY <2>2, <2>3, <2>5, <1>t, RaiseIsTyped DEF Failures
  <2> QED BY <2>3, <2>4, <2>5
<1>6. ASSUME NEW c \in Clients, LoadForDiscover(c) PROVE TInv'
  <2>1. World' /\ UNCHANGED <<asked, overlapped>> /\ pc[c] \in Knows
      BY <1>6, <1>w DEF LoadForDiscover, Knows
  <2>2. shown' \in [Clients -> SUBSET Paths]
    <3>1. \A m \in made : m.path \in Paths
        BY <1>t DEF World, Worktree
    <3>2. {m.path : m \in {n \in made : n.repo = RepoOf[RootOf(catalog, mem[c].project)]}}
             \in SUBSET Paths
        BY <3>1
    <3> QED BY <1>6, <1>t, <3>2 DEF LoadForDiscover
  <2>3. ASSUME LoadProject(c, None, "list"), UNCHANGED failure PROVE TInv'
    <3> DEFINE m == Held(mem[c].project, None, catalog, {})
    <3>1. /\ Goto(c, "list", m) /\ m \in Memory /\ m.project \in Ids
          /\ HasProject(m.copy, m.project)
        BY <2>1, <2>3, ProjectIsFound
    <3>2. failure' \in [Clients -> Failures] /\ "list" \in PcLabels
        BY <2>3, <1>t DEF PcLabels
    <3> HIDE DEF m
    <3> QED BY <2>1, <2>2, <3>1, <3>2, <1>t, StepIsTyped
  <2>4. CASE Raise(c, "unknown")
      BY <2>1, <2>2, <2>4, <1>t, RaiseIsTyped DEF Failures
  <2> QED BY <1>6, <2>3, <2>4 DEF LoadForDiscover, ProjectIsUnknown
<1>7. ASSUME NEW c \in Clients, ListWorktrees(c) PROVE TInv'
  <2> DEFINE repo == RepoOf[RootOf(mem[c].copy, mem[c].project)]
             m == Held(mem[c].project, None, mem[c].copy, WorktreesOf(repo))
  <2>1. World' /\ UNCHANGED <<asked, shown, overlapped>>
      BY <1>7, <1>w DEF ListWorktrees, history
  <2>2. WorktreesOf(repo) \subseteq Paths
      BY <1>t, <1>d, CatalogAssumption DEF WorktreesOf, World, Worktree
  <2>3. mem[c].project \in Ids /\ mem[c].copy \in Catalog
      BY <1>7, <1>t DEF ListWorktrees, ProjectIsHeld, Knows, Memory
  <2>4. m \in Memory /\ m.project = mem[c].project /\ m.todo = WorktreesOf(repo)
      BY <2>2, <2>3, HeldIsMemory DEF Held
  <2>5. \/ Goto(c, "upsert", m) /\ UNCHANGED failure
        \/ Raise(c, "git")
      BY <1>7 DEF ListWorktrees
  <2> HIDE DEF m
  <2>6. CASE Goto(c, "upsert", m) /\ UNCHANGED failure
      BY <2>1, <2>2, <2>3, <2>4, <2>6, <1>t, StepIsTyped DEF PcLabels
  <2>7. CASE Raise(c, "git")
      BY <2>1, <2>7, <1>t, RaiseIsTyped DEF Failures
  <2> QED BY <2>5, <2>6, <2>7
<1>8. ASSUME NEW c \in Clients, UpsertFound(c) PROVE TInv'
  <2>1. /\ mem[c].project \in Ids /\ mem[c].copy \in Catalog /\ mem[c].todo \subseteq Paths
        /\ UNCHANGED <<made, asked, shown, overlapped>>
      BY <1>8, <1>t DEF UpsertFound, ProjectIsHeld, TasksFit, Knows, Memory
  <2>2. ASSUME NEW q \in mem[c].todo,
               Upsert(c, q, "reload", Held(mem[c].project, None, mem[c].copy,
                                           mem[c].todo \ {q}))
        PROVE  TInv'
    <3> DEFINE m == Held(mem[c].project, None, mem[c].copy, mem[c].todo \ {q})
    <3>1. /\ m \in Memory /\ m.project = mem[c].project /\ m.todo = mem[c].todo \ {q}
          /\ q \in Paths /\ "reload" \in PcLabels
      <4>1. mem[c].todo \ {q} \in SUBSET Paths
          BY <2>1
      <4> QED BY <2>1, <4>1, HeldIsMemory DEF Held, PcLabels
    <3>2. Upsert(c, q, "reload", m)
        BY <2>2
    <3> HIDE DEF m
    <3>3. /\ World'
          /\ \/ Goto(c, "reload", m) /\ UNCHANGED failure
             \/ Raise(c, "foreign") \/ Raise(c, "invalid")
        BY <2>1, <3>1, <3>2, <1>t, UpsertIsTyped DEF World
    <3>4. CASE Goto(c, "reload", m) /\ UNCHANGED failure
        BY <2>1, <3>1, <3>3, <3>4, <1>t, StepIsTyped
    <3>5. CASE Raise(c, "foreign") \/ Raise(c, "invalid")
        BY <2>1, <3>3, <3>5, <1>t, RaiseIsTyped DEF Failures
    <3> QED BY <3>3, <3>4, <3>5
  <2>3. ASSUME Goto(c, "returned", Nothing), UNCHANGED <<catalog, issued, acked, failure>>
        PROVE  TInv'
    <3>1. World'
        BY <2>1, <2>3, <1>w DEF world
    <3> QED
        BY <2>1, <2>3, <3>1, <1>t, NothingIsMemory, StepIsTyped DEF PcLabels, Over, Knows
  <2> QED BY <1>8, <2>2, <2>3 DEF UpsertFound
<1>9. ASSUME NEW c \in Clients, Reload(c) PROVE TInv'
  <2> DEFINE m == Held(mem[c].project, None, catalog, mem[c].todo)
  <2>1. World' /\ UNCHANGED <<asked, failure, shown, overlapped>>
      BY <1>9, <1>w DEF Reload, history
  <2>2. mem[c].project \in Ids /\ mem[c].todo \subseteq Paths
      BY <1>9, <1>t DEF Reload, ProjectIsHeld, TasksFit, Knows
  <2>3. m \in Memory /\ m.project = mem[c].project /\ m.todo = mem[c].todo
      BY <2>2, <1>t, HeldIsMemory DEF Held, World
  <2>4. Goto(c, "upsert", m)
      BY <1>9 DEF Reload
  <2>5. /\ failure' \in [Clients -> Failures] /\ shown' \in [Clients -> SUBSET Paths]
        /\ overlapped' \in BOOLEAN /\ "upsert" \in PcLabels
      BY <2>1, <1>t DEF PcLabels
  <2> HIDE DEF m
  <2> QED BY <2>1, <2>2, <2>3, <2>4, <2>5, StepIsTyped
<1>10. ASSUME NEW c \in Clients, LoadForCreate(c) PROVE TInv'
  <2>1. World' /\ UNCHANGED <<asked, shown, overlapped>>
      BY <1>10, <1>w DEF LoadForCreate, history
  <2>2. pc[c] \in Knows /\ asked[c].branch \in Branches
      BY <1>10, <1>t DEF LoadForCreate, AskedFits, Knows
  <2>3. ASSUME LoadProject(c, None, "add"), UNCHANGED failure PROVE TInv'
    <3> DEFINE m == Held(mem[c].project, None, catalog, {})
    <3>1. /\ Goto(c, "add", m) /\ m \in Memory /\ m.project \in Ids
          /\ HasProject(m.copy, m.project)
        BY <2>2, <2>3, ProjectIsFound
    <3>2. failure' \in [Clients -> Failures] /\ "add" \in PcLabels
        BY <2>3, <1>t DEF PcLabels
    <3> HIDE DEF m
    <3> QED BY <2>1, <2>2, <3>1, <3>2, <1>t, StepIsTyped
  <2>4. CASE Raise(c, "unknown")
      BY <2>1, <2>4, <1>t, RaiseIsTyped DEF Failures
  <2> QED BY <1>10, <2>3, <2>4 DEF LoadForCreate, ProjectIsUnknown
<1>11. ASSUME NEW c \in Clients, AddWorktree(c) PROVE TInv'
  <2> DEFINE repo == RepoOf[RootOf(mem[c].copy, mem[c].project)]
             q == ManagedPath(mem[c].project, asked[c].branch)
             m == Held(mem[c].project, q, mem[c].copy, {})
  <2>1. /\ mem[c].project \in Ids /\ mem[c].copy \in Catalog /\ asked[c].branch \in Branches
        /\ HasProject(mem[c].copy, mem[c].project)
        /\ UNCHANGED <<catalog, issued, asked, shown, acked, overlapped>>
      BY <1>11, <1>t DEF AddWorktree, ProjectIsHeld, AskedFits, Knows, Memory, history
  <2>2. q \in Paths /\ repo \in {RepoOf[d] : d \in Dirs}
      BY <2>1, RootIsDir, ManagedIsPath
  <2>3. m \in Memory /\ m.project = mem[c].project /\ m.path = q
      BY <2>1, <2>2, HeldIsMemory DEF Held
  <2>4. \/ Raise(c, "git") /\ UNCHANGED made
        \/ /\ made' = made \cup {[repo |-> repo, branch |-> asked[c].branch, path |-> q]}
           /\ Goto(c, "saveWorkspace", m) /\ UNCHANGED failure
      BY <1>11 DEF AddWorktree
  <2> HIDE DEF m, q, repo
  <2>5. World'
      BY <2>1, <2>2, <2>4, <1>t DEF World, Worktree
  <2>6. CASE Raise(c, "git")
      BY <2>1, <2>5, <2>6, <1>t, RaiseIsTyped DEF Failures
  <2>7. CASE Goto(c, "saveWorkspace", m) /\ UNCHANGED failure
      BY <2>1, <2>2, <2>3, <2>5, <2>7, <1>t, StepIsTyped DEF PcLabels
  <2> QED BY <2>4, <2>6, <2>7
<1>12. ASSUME NEW c \in Clients, LoadForContext(c) PROVE TInv'
  <2>1. World' /\ UNCHANGED <<asked, failure, shown, overlapped>>
      BY <1>12, <1>w DEF LoadForContext, history
  <2>2. Held(None, None, EmptyCatalog, catalog.workspaces) \in Memory
      BY <1>t, HeldIsMemory DEF World, EmptyCatalog, Catalog
  <2> QED BY <1>12, <2>1, <2>2, <1>t, StepIsTyped DEF LoadForContext, PcLabels, Knows
<1>13. ASSUME NEW c \in Clients, InspectWorkspace(c) PROVE TInv'
  <2>1. World' /\ UNCHANGED <<asked, shown, overlapped>>
      BY <1>13, <1>w DEF InspectWorkspace, history
  <2>2. ASSUME NEW v \in mem[c].todo, UNCHANGED failure,
               Goto(c, "inspect", Held(None, None, EmptyCatalog, mem[c].todo \ {v}))
        PROVE  TInv'
    <3>1. Held(None, None, EmptyCatalog, mem[c].todo \ {v}) \in Memory
      <4>1. mem[c].todo \ {v} \in (SUBSET Paths) \cup (SUBSET Workspace)
          BY <1>t DEF Memory
      <4> QED BY <4>1, HeldIsMemory DEF EmptyCatalog, Catalog
    <3> QED BY <2>1, <2>2, <3>1, <1>t, StepIsTyped DEF PcLabels, Knows
  <2>3. CASE Raise(c, "unknown")
      BY <2>1, <2>3, <1>t, RaiseIsTyped DEF Failures
  <2>4. CASE Goto(c, "returned", Nothing) /\ UNCHANGED failure
      BY <2>1, <2>4, <1>t, NothingIsMemory, StepIsTyped DEF PcLabels, Over, Knows
  <2> QED BY <1>13, <2>2, <2>3, <2>4 DEF InspectWorkspace
<1>14. ASSUME NEW c \in Clients, Crash(c) PROVE TInv'
  <2>1. World' /\ UNCHANGED <<asked, failure, shown, overlapped>>
      BY <1>14, <1>w DEF Crash, history
  <2> QED
      BY <1>14, <2>1, <1>t, NothingIsMemory, StepIsTyped DEF Crash, PcLabels, Over, Knows
<1>15. CASE UNCHANGED vars
    BY <1>15 DEF vars, TInv, World, ProjectIsHeld, AskedFits, TasksFit, AdoptedPath, HasProject
<1> QED
    BY <1>1, <1>2, <1>3, <1>4, <1>5, <1>6, <1>7, <1>8, <1>9, <1>10, <1>11, <1>12, <1>13,
       <1>14, <1>15 DEF Next, Step

(* The catalog, and whatever a call holds of it, is of its type.           *)
THEOREM TypeCorrect == Spec => []TypeOK
<1>1. TInv => TypeOK
    BY DEF TInv, World, TypeOK, PcLabels
<1> QED BY TypeInit, TypeNext, <1>1, PTL DEF Spec
-----------------------------------------------------------------------------
(* A valid catalog whose ids are all given out: the next one is new to it. *)
Sound(k, n) ==
    /\ Valid(k)
    /\ \A p \in k.projects : p.id <= n
    /\ \A w \in k.workspaces : w.id <= n

SInv == TInv /\ Sound(catalog, issued) /\ \A c \in Clients : Sound(mem[c].copy, issued)

LEMMA EmptyIsSound == Sound(EmptyCatalog, issued)
BY DEF Sound, Valid, EmptyCatalog

LEMMA SoundStays ==
    ASSUME NEW k \in Catalog, NEW n \in Nat, NEW o \in Nat, n <= o, Sound(k, n)
    PROVE  Sound(k, o)
BY DEF Sound, Catalog, Project, Workspace, Ids

LEMMA NewProjectIsSound ==
    ASSUME NEW k \in Catalog, NEW n \in Nat, Sound(k, n), NEW root,
           \A p \in k.projects : p.root # root
    PROVE  Sound(WithProject(k, [id |-> n + 1, root |-> root]), n + 1)
<1> DEFINE new == [id |-> n + 1, root |-> root]
<1>1. \A p \in k.projects : p.id \in Nat /\ p.id <= n /\ p.root # root
    BY DEF Sound, Catalog, Project, Ids
<1>2. \A w \in k.workspaces : w.id \in Nat /\ w.id <= n
    BY DEF Sound, Catalog, Workspace, Ids
<1>3. new.id = n + 1 /\ new.root = root
    OBVIOUS
<1>4. WithProject(k, new) = [projects |-> k.projects \cup {new}, workspaces |-> k.workspaces]
    BY DEF WithProject
<1> HIDE DEF new
<1>5. Valid(WithProject(k, new))
    BY <1>1, <1>2, <1>3, <1>4 DEF Sound, Valid
<1>6. /\ \A p \in WithProject(k, new).projects : p.id <= n + 1
      /\ \A w \in WithProject(k, new).workspaces : w.id <= n + 1
    BY <1>1, <1>2, <1>3, <1>4
<1> QED BY <1>5, <1>6 DEF Sound, new

LEMMA NewWorkspaceIsSound ==
    ASSUME NEW k \in Catalog, NEW n \in Nat, Sound(k, n), NEW w, w.id = n + 1,
           Valid(WithWorkspace(k, w))
    PROVE  Sound(WithWorkspace(k, w), n + 1)
<1>1. /\ \A p \in k.projects : p.id \in Nat /\ p.id <= n
      /\ \A v \in k.workspaces : v.id \in Nat /\ v.id <= n
    BY DEF Sound, Catalog, Project, Workspace, Ids
<1> QED BY <1>1 DEF Sound, WithWorkspace

(* What Upsert writes is sound when the copy it goes by is.                *)
LEMMA UpsertIsSound ==
    ASSUME SInv, NEW c \in Clients, NEW q, NEW next, NEW m \in Memory,
           Sound(m.copy, issued), Upsert(c, q, next, m)
    PROVE  Sound(catalog', issued') /\ issued <= issued' /\ issued' \in Nat
<1>0. m.copy \in Catalog /\ issued \in Nat
    BY CatalogAssumption DEF SInv, TInv, World, Memory
<1>1. CASE UNCHANGED <<catalog, issued>>
    BY <1>0, <1>1 DEF SInv
<1>2. CASE issued' = issued + 1 /\ UNCHANGED catalog
    BY <1>0, <1>2, SoundStays DEF SInv, TInv, World
<1>3. ASSUME issued' = issued + 1,
             NEW w, w.id = issued + 1, Valid(WithWorkspace(m.copy, w)),
             catalog' = WithWorkspace(m.copy, w)
      PROVE  Sound(catalog', issued') /\ issued <= issued' /\ issued' \in Nat
    BY <1>0, <1>3, NewWorkspaceIsSound
<1>4. \/ UNCHANGED <<catalog, issued>>
      \/ issued' = issued + 1 /\ UNCHANGED catalog
      \/ /\ issued' = issued + 1
         /\ \E w : w.id = issued + 1 /\ Valid(WithWorkspace(m.copy, w))
                   /\ catalog' = WithWorkspace(m.copy, w)
  <2> DEFINE new == [id |-> issued + 1, project |-> m.project, path |-> q]
  <2>1. \/ UNCHANGED <<catalog, issued>>
        \/ /\ issued' = issued + 1
           /\ \/ Valid(WithWorkspace(m.copy, new)) /\ catalog' = WithWorkspace(m.copy, new)
              \/ UNCHANGED catalog
      BY DEF Upsert
  <2>2. new.id = issued + 1
      OBVIOUS
  <2> HIDE DEF new
  <2> QED BY <2>1, <2>2
<1> QED BY <1>1, <1>2, <1>3, <1>4

LEMMA UpsertGoesOn ==
    ASSUME NEW c \in Clients, NEW q, NEW next, NEW m, Upsert(c, q, next, m)
    PROVE  Goto(c, next, m) \/ Goto(c, "raised", Nothing)
BY DEF Upsert, Raise

LEMMA StepIsSound ==
    ASSUME SInv, TInv', NEW c \in Clients, NEW label, NEW m, Goto(c, label, m),
           m.copy \in Catalog, Sound(m.copy, issued),
           Sound(catalog', issued'), issued <= issued', issued' \in Nat
    PROVE  SInv'
<1>0. issued \in Nat /\ \A d \in Clients : mem[d].copy \in Catalog
    BY CatalogAssumption DEF SInv, TInv, World, Memory
<1>1. Nothing.copy = EmptyCatalog /\ EmptyCatalog \in Catalog
    BY DEF Nothing, Held, EmptyCatalog, Catalog
<1>2. \A d \in Clients : mem'[d].copy \in Catalog /\ Sound(mem'[d].copy, issued)
    BY <1>0, <1>1, EmptyIsSound DEF SInv, TInv, Goto
<1> QED BY <1>0, <1>2, SoundStays DEF SInv

LEMMA SoundNext == SInv /\ [Next]_vars => SInv'
<1> SUFFICES ASSUME SInv, [Next]_vars PROVE SInv'
    OBVIOUS
<1>t. TInv /\ TInv'
    BY TypeNext DEF SInv
<1>s. /\ Sound(catalog, issued) /\ \A c \in Clients : Sound(mem[c].copy, issued)
      /\ catalog \in Catalog /\ issued \in Nat /\ \A c \in Clients : mem[c].copy \in Catalog
      /\ \A c \in Clients : mem[c] \in Memory
    BY <1>t, CatalogAssumption DEF SInv, TInv, World, Memory
<1>e. Sound(EmptyCatalog, issued) /\ EmptyCatalog \in Catalog
    BY EmptyIsSound DEF EmptyCatalog, Catalog
<1>h. \A id, p, k, tasks : Held(id, p, k, tasks).copy = k
    BY DEF Held
<1>n. Nothing.copy = EmptyCatalog
    BY <1>h DEF Nothing
<1>q. ASSUME NEW c \in Clients, NEW label, NEW m, Goto(c, label, m), UNCHANGED <<catalog, issued>>,
             m.copy \in {catalog, EmptyCatalog, mem[c].copy}
      PROVE  SInv'
    BY <1>q, <1>t, <1>s, <1>e, StepIsSound
<1>1. ASSUME NEW c \in Clients, Call(c) PROVE SInv'
  <2>1. PICK id, label : Goto(c, label, Held(id, None, EmptyCatalog, {}))
      BY <1>1 DEF Call, Begin
  <2> QED BY <1>1, <1>q, <1>h, <2>1 DEF Call, world
<1>2. ASSUME NEW c \in Clients, LoadForRegister(c) PROVE SInv'
    BY <1>2, <1>q, <1>h DEF LoadForRegister, world
<1>3. ASSUME NEW c \in Clients, SaveProject(c) PROVE SInv'
  <2>1. PICK id : Goto(c, "adopt", Held(id, None, EmptyCatalog, {}))
      BY <1>3 DEF SaveProject
  <2>2. Sound(catalog', issued') /\ issued <= issued' /\ issued' \in Nat
    <3>1. CASE catalog' = mem[c].copy /\ UNCHANGED issued
        BY <3>1, <1>s
    <3>2. CASE /\ \A p \in mem[c].copy.projects : p.root # asked[c].dir
               /\ issued' = issued + 1
               /\ catalog' = WithProject(mem[c].copy,
                                         [id |-> issued + 1, root |-> asked[c].dir])
        BY <3>2, <1>s, NewProjectIsSound
    <3> QED BY <1>3, <3>1, <3>2 DEF SaveProject
  <2> QED BY <1>t, <1>e, <1>h, <2>1, <2>2, StepIsSound
<1>4. ASSUME NEW c \in Clients, LoadForAdopt(c) PROVE SInv'
    BY <1>4, <1>q, <1>h, <1>n DEF LoadForAdopt, LoadProject, ProjectIsUnknown, Raise, world
<1>5. ASSUME NEW c \in Clients, NEW q, NEW next, NEW m \in Memory, Upsert(c, q, next, m),
             m.copy = mem[c].copy
      PROVE  SInv'
  <2>1. Sound(catalog', issued') /\ issued <= issued' /\ issued' \in Nat
      BY <1>5, <1>s, UpsertIsSound
  <2>2. Goto(c, next, m) \/ Goto(c, "raised", Nothing)
      BY <1>5, UpsertGoesOn
  <2> QED BY <1>5, <1>t, <1>s, <1>e, <1>n, <2>1, <2>2, StepIsSound
<1>6. ASSUME NEW c \in Clients, SaveWorkspace(c) PROVE SInv'
    BY <1>6, <1>5, <1>s DEF SaveWorkspace
<1>7. ASSUME NEW c \in Clients, LoadForDiscover(c) PROVE SInv'
    BY <1>7, <1>q, <1>h, <1>n DEF LoadForDiscover, LoadProject, ProjectIsUnknown, Raise, world
<1>8. ASSUME NEW c \in Clients, ListWorktrees(c) PROVE SInv'
    BY <1>8, <1>q, <1>h, <1>n DEF ListWorktrees, Raise, world
<1>9. ASSUME NEW c \in Clients, UpsertFound(c) PROVE SInv'
  <2>1. ASSUME NEW q \in mem[c].todo,
               Upsert(c, q, "reload", Held(mem[c].project, None, mem[c].copy,
                                           mem[c].todo \ {q}))
        PROVE  SInv'
    <3>1. mem[c].project \in Ids /\ mem[c].todo \ {q} \in SUBSET Paths
        BY <1>9, <1>t DEF UpsertFound, TInv, ProjectIsHeld, TasksFit, Knows
    <3>2. Held(mem[c].project, None, mem[c].copy, mem[c].todo \ {q}) \in Memory
        BY <1>s, <3>1, HeldIsMemory
    <3> QED BY <2>1, <3>2, <1>5, <1>h
  <2>2. CASE Goto(c, "returned", Nothing) /\ UNCHANGED <<catalog, issued>>
      BY <2>2, <1>q, <1>n
  <2> QED BY <1>9, <2>1, <2>2 DEF UpsertFound
<1>10. ASSUME NEW c \in Clients, Reload(c) PROVE SInv'
    BY <1>10, <1>q, <1>h DEF Reload, world
<1>11. ASSUME NEW c \in Clients, LoadForCreate(c) PROVE SInv'
    BY <1>11, <1>q, <1>h, <1>n DEF LoadForCreate, LoadProject, ProjectIsUnknown, Raise, world
<1>12. ASSUME NEW c \in Clients, AddWorktree(c) PROVE SInv'
    BY <1>12, <1>q, <1>h, <1>n DEF AddWorktree, Raise
<1>13. ASSUME NEW c \in Clients, LoadForContext(c) PROVE SInv'
    BY <1>13, <1>q, <1>h DEF LoadForContext, world
<1>14. ASSUME NEW c \in Clients, InspectWorkspace(c) PROVE SInv'
  <2>1. \/ \E tasks : Goto(c, "inspect", Held(None, None, EmptyCatalog, tasks))
        \/ Goto(c, "raised", Nothing) \/ Goto(c, "returned", Nothing)
      BY <1>14 DEF InspectWorkspace, Raise
  <2>2. UNCHANGED <<catalog, issued>>
      BY <1>14 DEF InspectWorkspace, world
  <2> QED BY <2>1, <2>2, <1>q, <1>h, <1>n
<1>15. ASSUME NEW c \in Clients, Crash(c) PROVE SInv'
    BY <1>15, <1>q, <1>n DEF Crash, world
<1>16. CASE UNCHANGED vars
    BY <1>16, <1>t, <1>s DEF vars, SInv
<1> QED
    BY <1>1, <1>2, <1>3, <1>4, <1>6, <1>7, <1>8, <1>9, <1>10, <1>11, <1>12, <1>13,
       <1>14, <1>15, <1>16 DEF Next, Step

LEMMA SoundInit == Init => SInv
<1> SUFFICES ASSUME Init PROVE SInv
    OBVIOUS
<1>1. \A c \in Clients : mem[c].copy = EmptyCatalog
    BY DEF Init, Nothing, Held
<1> QED BY <1>1, TypeInit, EmptyIsSound DEF Init, SInv

(* Whatever calls overlap and wherever they die, catalog.json passes the   *)
(* validation with which every process reads it.                           *)
THEOREM CatalogCorrect == Spec => []CatalogIsValid
<1>1. SInv => CatalogIsValid
    BY DEF SInv, Sound, Valid, CatalogIsValid, HasProject
<1> QED BY SoundInit, SoundNext, <1>1, PTL DEF Spec
-----------------------------------------------------------------------------
(* What holds as long as writers take turns.                               *)

Copying == {"saveProject", "saveWorkspace", "list", "upsert", "add"}

Alone == \A c, d \in Clients : Writing(c) /\ Writing(d) => c = d

CopyIsCurrent == \A c \in Clients : pc[c] \in Copying => mem[c].copy = catalog

ProjectIsThere == \A c \in Clients : pc[c] \in Knows => HasProject(catalog, mem[c].project)

HasId(k, id) == \E w \in k.workspaces : w.id = id

TasksAreThere ==
    \A c \in Clients : pc[c] = "inspect" => \A v \in mem[c].todo : HasId(catalog, v.id)

NothingIsLost == acked \subseteq catalog.workspaces

NoneFails == \A c \in Clients : failure[c] \notin {"unknown", "invalid"}

PathsOf(k) == {w.path : w \in k.workspaces}

ManagedOf(repo) == {m.path : m \in {n \in made : n.repo = repo}}

(* What a discovery found at its start is listed, left to do or registered. *)
FoundAreKept ==
    \A c \in Clients :
       /\ pc[c] = "list" =>
             shown[c] \subseteq ManagedOf(RepoOf[RootOf(mem[c].copy, mem[c].project)])
       /\ pc[c] \in {"upsert", "reload"} => shown[c] \subseteq mem[c].todo \cup PathsOf(catalog)
       /\ pc[c] = "returned" /\ asked[c].op \in {"start", "discover"}
             => shown[c] \subseteq PathsOf(catalog)

OpFits ==
    \A c \in Clients :
       /\ pc[c] \in {"register", "saveProject", "adopt", "saveWorkspace", "create", "add"}
             => asked[c].op # "discover"
       /\ pc[c] \in {"context", "inspect"} => asked[c].op = "context"
       /\ pc[c] \in {"create", "add"} => asked[c].op = "create"

InTurn ==
    /\ Alone /\ CopyIsCurrent /\ ProjectIsThere /\ TasksAreThere
    /\ NothingIsLost /\ NoneFails /\ FoundAreKept

UInv == SInv /\ OpFits /\ (~overlapped => InTurn)

(* What a step of c to label, with m in its memory, must bring with it.    *)
Brings(c, label, m) ==
    /\ label \in Copying => m.copy = catalog'
    /\ label \in Knows => HasProject(catalog', m.project)
    /\ label = "inspect" => \A v \in m.todo : HasId(catalog', v.id)
    /\ label = "list" =>
          shown'[c] \subseteq ManagedOf(RepoOf[RootOf(m.copy, m.project)])
    /\ label \in {"upsert", "reload"} => shown'[c] \subseteq m.todo \cup PathsOf(catalog')
    /\ label = "returned" /\ asked[c].op \in {"start", "discover"}
          => shown'[c] \subseteq PathsOf(catalog')

OpsFit(c, label) ==
    /\ label \in {"register", "saveProject", "adopt", "saveWorkspace", "create", "add"}
          => asked[c].op # "discover"
    /\ label \in {"context", "inspect"} => asked[c].op = "context"
    /\ label \in {"create", "add"} => asked[c].op = "create"

Grows ==
    /\ catalog.projects \subseteq catalog'.projects
    /\ catalog.workspaces \subseteq catalog'.workspaces
    /\ made \subseteq made'

LEMMA StepTakesTurn ==
    ASSUME UInv, SInv', NEW c \in Clients, NEW label, NEW m, Goto(c, label, m),
           UNCHANGED <<asked, overlapped>>, OpsFit(c, label),
           pc[c] \notin {"idle"} \cup Over,
           \A d \in Clients \ {c} : shown'[d] = shown[d] /\ failure'[d] = failure[d],
           Writing(c) \/ label \notin Knows \cup {"register", "saveProject"},
           ~overlapped =>
              /\ Grows
              /\ catalog' = catalog \/ (Writing(c) /\ label \notin Copying)
              /\ acked' \subseteq catalog'.workspaces
              /\ failure'[c] \notin {"unknown", "invalid"}
              /\ Brings(c, label, m)
    PROVE  UInv'
<1>1. /\ \A d \in Clients : d # c => pc'[d] = pc[d] /\ mem'[d] = mem[d]
      /\ pc'[c] = label /\ (label \notin Over => mem'[c] = m)
    BY DEF UInv, SInv, TInv, Goto
<1>2. OpFits'
    BY <1>1 DEF UInv, OpFits, OpsFit
<1>3. ASSUME ~overlapped PROVE InTurn'
  <2>1. InTurn /\ Grows /\ Brings(c, label, m) /\ label \in PcLabels
      BY <1>1, <1>3 DEF UInv, SInv, TInv
  <2>2. Alone'
      BY <1>1, <2>1 DEF InTurn, Alone, Writing, Over, Knows, PcLabels
  <2>3. CopyIsCurrent'
    <3>1. ASSUME NEW d \in Clients, pc'[d] \in Copying PROVE mem'[d].copy = catalog'
      <4>1. CASE d = c
          BY <1>1, <2>1, <3>1, <4>1 DEF Brings, Copying, Over
      <4>2. CASE d # c
        <5>1. Writing(d) /\ mem'[d].copy = catalog
            BY <1>1, <2>1, <3>1, <4>2 DEF InTurn, CopyIsCurrent, Copying, Writing, Over
        <5>2. ~Writing(c)
            BY <2>1, <4>2, <5>1 DEF InTurn, Alone
        <5> QED BY <1>3, <5>1, <5>2
      <4> QED BY <4>1, <4>2
    <3> QED BY <3>1 DEF CopyIsCurrent
  <2>4. ProjectIsThere'
      BY <1>1, <2>1 DEF InTurn, ProjectIsThere, HasProject, Brings, Grows, Knows, Over
  <2>5. TasksAreThere'
      BY <1>1, <2>1 DEF InTurn, TasksAreThere, HasId, Brings, Grows, Over
  <2>6. NothingIsLost' /\ NoneFails'
      BY <1>3, <2>1 DEF InTurn, NothingIsLost, NoneFails
  <2>7. FoundAreKept'
    <3>1. /\ PathsOf(catalog) \subseteq PathsOf(catalog')
          /\ \A repo : ManagedOf(repo) \subseteq ManagedOf(repo)'
        BY <2>1 DEF Grows, PathsOf, ManagedOf
    <3>2. \A d \in Clients \ {c} : shown'[d] = shown[d] /\ asked'[d] = asked[d]
        OBVIOUS
    <3>3. /\ label = "list" =>
                shown'[c] \subseteq ManagedOf(RepoOf[RootOf(m.copy, m.project)])'
          /\ label \in {"upsert", "reload"} => shown'[c] \subseteq m.todo \cup PathsOf(catalog')
          /\ label = "returned" /\ asked[c].op \in {"start", "discover"}
                => shown'[c] \subseteq PathsOf(catalog')
        BY <2>1, <3>1 DEF Brings
    <3> QED BY <1>1, <2>1, <3>1, <3>2, <3>3 DEF InTurn, FoundAreKept, Over
  <2> QED BY <2>2, <2>3, <2>4, <2>5, <2>6, <2>7 DEF InTurn
<1> QED BY <1>2, <1>3 DEF UInv

(* A call that raises, with the catalog as it was.                         *)
LEMMA RaiseTakesTurn ==
    ASSUME UInv, SInv', NEW c \in Clients, NEW why, Raise(c, why),
           UNCHANGED <<catalog, made, acked, asked, shown, overlapped>>,
           pc[c] \notin {"idle"} \cup Over,
           ~overlapped => why \notin {"unknown", "invalid"}
    PROVE  UInv'
<1>1. /\ Goto(c, "raised", Nothing) /\ failure'[c] = why
      /\ \A d \in Clients \ {c} : failure'[d] = failure[d]
    BY DEF Raise, UInv, SInv, TInv
<1>2. OpsFit(c, "raised") /\ Brings(c, "raised", Nothing)
      /\ "raised" \notin Knows \cup {"register", "saveProject"}
    BY DEF OpsFit, Brings, Copying, Knows
<1>3. ~overlapped => Grows /\ acked' \subseteq catalog'.workspaces
    BY DEF Grows, UInv, InTurn, NothingIsLost
<1> QED BY <1>1, <1>2, <1>3, StepTakesTurn

(* Upsert into a copy that is current, for a Project that is there.        *)
LEMMA UpsertGrows ==
    ASSUME UInv, ~overlapped, NEW c \in Clients, NEW q, NEW next, NEW m \in Memory,
           m.copy = catalog, HasProject(catalog, m.project), Upsert(c, q, next, m)
    PROVE  /\ catalog.projects \subseteq catalog'.projects
           /\ catalog.workspaces \subseteq catalog'.workspaces
           /\ acked' \subseteq catalog'.workspaces
           /\ \/ Goto(c, next, m) /\ UNCHANGED failure /\ q \in PathsOf(catalog')
              \/ Raise(c, "foreign") /\ UNCHANGED <<catalog, acked>>
<1>0. /\ acked \subseteq catalog.workspaces /\ catalog \in Catalog /\ issued \in Nat
      /\ Sound(catalog, issued)
    BY CatalogAssumption DEF UInv, InTurn, NothingIsLost, SInv, TInv, World
<1>1. CASE \E w \in m.copy.workspaces : w.path = q
    BY <1>0, <1>1 DEF Upsert, PathsOf
<1>2. CASE \A w \in m.copy.workspaces : w.path # q
  <2> DEFINE new == [id |-> issued + 1, project |-> m.project, path |-> q]
  <2>1. /\ \A w \in catalog.workspaces : w.path # q /\ w.id # new.id
        /\ new.path = q /\ new.project = m.project
      BY <1>0, <1>2 DEF Sound, Catalog, Workspace, Ids
  <2>2. \/ /\ Valid(WithWorkspace(catalog, new))
           /\ catalog' = WithWorkspace(catalog, new) /\ acked' = acked \cup {new}
           /\ Goto(c, next, m) /\ UNCHANGED failure
        \/ ~Valid(WithWorkspace(catalog, new))
      BY <1>2 DEF Upsert
  <2> HIDE DEF new
  <2>3. WithWorkspace(catalog, new) = [projects |-> catalog.projects,
                                       workspaces |-> catalog.workspaces \cup {new}]
      BY DEF WithWorkspace
  <2>4. Valid(WithWorkspace(catalog, new))
    <3>1. Valid(catalog)
        BY <1>0 DEF Sound
    <3>2. \A w, x \in catalog.workspaces \cup {new} :
             w.id = x.id \/ w.path = x.path => w = x
        BY <2>1, <3>1 DEF Valid
    <3>3. \A w \in catalog.workspaces \cup {new} : \E p \in catalog.projects : p.id = w.project
        BY <2>1, <3>1 DEF Valid, HasProject
    <3> QED BY <2>3, <3>1, <3>2, <3>3 DEF Valid
  <2>5. /\ catalog'.projects = catalog.projects
        /\ catalog'.workspaces = catalog.workspaces \cup {new}
        /\ acked' = acked \cup {new}
        /\ Goto(c, next, m) /\ UNCHANGED failure
      BY <2>2, <2>3, <2>4
  <2>6. q \in PathsOf(catalog')
      BY <2>1, <2>5 DEF PathsOf
  <2> QED BY <1>0, <2>5, <2>6
<1> QED BY <1>1, <1>2

LEMMA TurnInit == Init => UInv
<1> SUFFICES ASSUME Init PROVE UInv
    OBVIOUS
<1>1. \A c \in Clients : pc[c] = "idle" /\ failure[c] = "none"
    BY DEF Init
<1>2. acked = {}
    BY DEF Init
<1> QED
    BY <1>1, <1>2, SoundInit
    DEF UInv, OpFits, InTurn, Alone, Writing, CopyIsCurrent, Copying, ProjectIsThere, Knows,
        TasksAreThere, NothingIsLost, NoneFails, FoundAreKept

(* A call begins: as a reader at any time, as a writer only without others.*)
LEMMA CallTakesTurn ==
    ASSUME UInv, SInv', NEW c \in Clients, Call(c) PROVE UInv'
<1> DEFINE Begun(question, id, label) ==
        /\ Begin(c, question, id, label)
        /\ label \in {"register", "adopt", "discover", "create", "context"}
        /\ label \in {"register", "adopt", "create"} => question.op # "discover"
        /\ label = "context" => question.op = "context"
        /\ label = "create" => question.op = "create"
        /\ label \in Knows => HasProject(catalog, id)
<1>0. \E question, id, label : Begun(question, id, label)
  <2>1. ASSUME NEW op \in {"start", "register"}, NEW d \in Dirs,
               Begin(c, [op |-> op, dir |-> d], None, "register")
        PROVE  Begun([op |-> op, dir |-> d], None, "register")
      BY <2>1 DEF Knows
  <2>2. ASSUME NEW p \in catalog.projects, NEW q,
               Begin(c, [op |-> "adopt", project |-> p.id, path |-> q], p.id, "adopt")
        PROVE  Begun([op |-> "adopt", project |-> p.id, path |-> q], p.id, "adopt")
      BY <2>2 DEF HasProject
  <2>3. ASSUME NEW p \in catalog.projects,
               Begin(c, [op |-> "discover", project |-> p.id], p.id, "discover")
        PROVE  Begun([op |-> "discover", project |-> p.id], p.id, "discover")
      BY <2>3 DEF HasProject
  <2>4. ASSUME NEW p \in catalog.projects, NEW b \in Branches,
               Begin(c, [op |-> "create", project |-> p.id, branch |-> b], p.id, "create")
        PROVE  Begun([op |-> "create", project |-> p.id, branch |-> b], p.id, "create")
      BY <2>4 DEF HasProject
  <2>5. ASSUME Begin(c, [op |-> "context"], None, "context")
        PROVE  Begun([op |-> "context"], None, "context")
      BY <2>5 DEF Knows
  <2> HIDE DEF Begun
  <2> QED BY <2>1, <2>2, <2>3, <2>4, <2>5 DEF Call
<1>1. PICK question, id, label : Begun(question, id, label)
    BY <1>0
<1> DEFINE m == Held(id, None, EmptyCatalog, {})
<1>2. /\ Goto(c, label, m) /\ m.project = id
      /\ asked' = [asked EXCEPT ![c] = question]
      /\ overlapped' = (overlapped \/ (label # "context" /\ \E d \in Clients : Writing(d)))
    BY <1>1 DEF Begin, Held
<1> HIDE DEF m
<1>3. UNCHANGED <<catalog, issued, made, failure, acked, shown>>
    BY DEF Call, world, history
<1>4. /\ \A d \in Clients : d # c => pc'[d] = pc[d] /\ mem'[d] = mem[d] /\ asked'[d] = asked[d]
      /\ pc'[c] = label /\ asked'[c] = question /\ mem'[c] = m
    BY <1>1, <1>2 DEF UInv, SInv, TInv, Goto, Over
<1>5. OpFits'
    BY <1>1, <1>4 DEF UInv, OpFits
<1>6. ASSUME ~overlapped' PROVE InTurn'
  <2>1. InTurn /\ (label # "context" => \A d \in Clients : ~Writing(d))
      BY <1>2, <1>6 DEF UInv
  <2>2. Alone'
      BY <1>1, <1>4, <2>1 DEF InTurn, Alone, Writing
  <2>3. CopyIsCurrent'
      BY <1>1, <1>3, <1>4, <2>1 DEF InTurn, CopyIsCurrent, Copying
  <2>4. ProjectIsThere'
      BY <1>1, <1>2, <1>3, <1>4, <2>1 DEF InTurn, ProjectIsThere, HasProject, Knows
  <2>5. TasksAreThere' /\ NothingIsLost' /\ NoneFails'
      BY <1>1, <1>3, <1>4, <2>1 DEF InTurn, TasksAreThere, HasId, NothingIsLost, NoneFails
  <2>6. FoundAreKept'
      BY <1>1, <1>3, <1>4, <2>1 DEF InTurn, FoundAreKept, ManagedOf, PathsOf
  <2> QED BY <2>2, <2>3, <2>4, <2>5, <2>6 DEF InTurn
<1> QED BY <1>5, <1>6 DEF UInv

LEMMA TurnNext == UInv /\ [Next]_vars => UInv'
<1> SUFFICES ASSUME UInv, [Next]_vars PROVE UInv'
    OBVIOUS
<1>t. SInv /\ SInv' /\ TInv
    BY SoundNext DEF UInv, SInv
<1>o. OpFits /\ (~overlapped => InTurn)
    BY DEF UInv
<1>h. \A id, p, k, tasks : /\ Held(id, p, k, tasks).project = id
                           /\ Held(id, p, k, tasks).copy = k
                           /\ Held(id, p, k, tasks).todo = tasks
    BY DEF Held
<1>g. UNCHANGED <<catalog, made>> => Grows
    BY DEF Grows
<1>a. ~overlapped => NothingIsLost /\ NoneFails /\ CopyIsCurrent /\ ProjectIsThere
                     /\ TasksAreThere /\ FoundAreKept
    BY <1>o DEF InTurn
<1>1. ASSUME NEW c \in Clients, Call(c) PROVE UInv'
    BY <1>1, <1>t, CallTakesTurn
<1>2. ASSUME NEW c \in Clients, LoadForRegister(c) PROVE UInv'
  <2> DEFINE m == Held(None, None, catalog, {})
  <2>1. /\ pc[c] = "register" /\ Goto(c, "saveProject", m) /\ Writing(c)
        /\ UNCHANGED <<catalog, issued, made, asked, failure, acked, shown, overlapped>>
      BY <1>2 DEF LoadForRegister, world, history, Writing, Over
  <2>2. m.copy = catalog
      BY <1>h
  <2> HIDE DEF m
  <2>3. OpsFit(c, "saveProject") /\ Brings(c, "saveProject", m)
      BY <1>o, <2>1, <2>2 DEF OpFits, OpsFit, Brings, Knows
  <2> QED
      BY <1>a, <1>g, <1>t, <2>1, <2>3, StepTakesTurn DEF Over, NothingIsLost, NoneFails
<1>3. ASSUME NEW c \in Clients, SaveProject(c) PROVE UInv'
  <2>1. /\ pc[c] = "saveProject" /\ Writing(c)
        /\ UNCHANGED <<made, asked, failure, acked, shown, overlapped>>
      BY <1>3 DEF SaveProject, history, Writing, Over
  <2>2. OpsFit(c, "adopt")
      BY <1>o, <2>1 DEF OpFits, OpsFit
  <2>3. PICK id : /\ Goto(c, "adopt", Held(id, None, EmptyCatalog, {}))
                  /\ mem[c].copy = catalog =>
                        HasProject(catalog', id) /\ Grows
    <3>1. ASSUME NEW p \in mem[c].copy.projects, catalog' = mem[c].copy
          PROVE  mem[c].copy = catalog => HasProject(catalog', p.id) /\ Grows
        BY <2>1, <3>1 DEF HasProject, Grows
    <3>2. ASSUME NEW new, catalog' = WithProject(mem[c].copy, new)
          PROVE  mem[c].copy = catalog => HasProject(catalog', new.id) /\ Grows
        BY <2>1, <3>2 DEF HasProject, Grows, WithProject
    <3>3. [id |-> issued + 1, root |-> asked[c].dir].id = issued + 1
        OBVIOUS
    <3> QED BY <1>3, <3>1, <3>2, <3>3 DEF SaveProject
  <2>4. ~overlapped => /\ mem[c].copy = catalog
                       /\ acked' \subseteq catalog'.workspaces
                       /\ failure'[c] \notin {"unknown", "invalid"}
      BY <1>a, <2>1, <2>3 DEF CopyIsCurrent, Copying, NothingIsLost, NoneFails, Grows
  <2>5. ~overlapped => Grows /\ Brings(c, "adopt", Held(id, None, EmptyCatalog, {}))
      BY <1>h, <2>3, <2>4 DEF Brings, Copying
  <2> QED
      BY <1>t, <2>1, <2>2, <2>3, <2>4, <2>5, StepTakesTurn DEF Over, Copying
<1>l. ASSUME NEW c \in Clients, NEW p, NEW label \in {"saveWorkspace", "list", "add"},
             LoadProject(c, p, label), Writing(c), OpsFit(c, label), pc[c] \notin {"idle"} \cup Over,
             UNCHANGED <<catalog, made, acked, asked, failure, overlapped>>,
             \A d \in Clients \ {c} : shown'[d] = shown[d],
             label = "list" => shown'[c] \subseteq
                                  ManagedOf(RepoOf[RootOf(catalog, mem[c].project)])
      PROVE  UInv'
  <2> DEFINE m == Held(mem[c].project, p, catalog, {})
  <2>1. Goto(c, label, m) /\ HasProject(catalog, mem[c].project)
      BY <1>l DEF LoadProject
  <2>2. m.project = mem[c].project /\ m.copy = catalog
      BY <1>h
  <2> HIDE DEF m
  <2>3. Brings(c, label, m)
      BY <1>l, <2>1, <2>2 DEF Brings
  <2> QED
      BY <1>a, <1>g, <1>l, <1>t, <2>1, <2>3, StepTakesTurn DEF NothingIsLost, NoneFails
<1>p. ASSUME NEW c \in Clients, ProjectIsUnknown(c), pc[c] \in Knows PROVE overlapped
    BY <1>a, <1>p DEF ProjectIsUnknown, ProjectIsThere
<1>4. ASSUME NEW c \in Clients, LoadForAdopt(c) PROVE UInv'
  <2>1. /\ pc[c] = "adopt" /\ Writing(c) /\ pc[c] \in Knows /\ pc[c] \notin {"idle"} \cup Over
        /\ UNCHANGED <<catalog, made, asked, acked, shown, overlapped>>
        /\ OpsFit(c, "saveWorkspace")
      BY <1>4, <1>o DEF LoadForAdopt, world, history, Writing, Over, Knows, OpFits, OpsFit
  <2>2. CASE ProjectIsUnknown(c)
      BY <1>p, <1>t, <2>1, <2>2, RaiseTakesTurn DEF ProjectIsUnknown
  <2>3. CASE LoadProject(c, AdoptedPath(c), "saveWorkspace") /\ UNCHANGED failure
      BY <1>l, <2>1, <2>3
  <2>4. CASE Raise(c, "foreign")
      BY <1>t, <2>1, <2>4, RaiseTakesTurn
  <2> QED BY <1>4, <2>2, <2>3, <2>4 DEF LoadForAdopt
<1>5. ASSUME NEW c \in Clients, SaveWorkspace(c) PROVE UInv'
  <2> DEFINE next == IF asked[c].op = "start" THEN "discover" ELSE "returned"
  <2>1. /\ pc[c] = "saveWorkspace" /\ Writing(c) /\ pc[c] \notin {"idle"} \cup Over
        /\ UNCHANGED <<made, asked, shown, overlapped>>
        /\ OpsFit(c, next) /\ asked[c].op # "discover"
        /\ Upsert(c, mem[c].path, next, mem[c]) /\ mem[c] \in Memory
      BY <1>5, <1>o, <1>t DEF SaveWorkspace, Writing, Over, OpFits, OpsFit, TInv
  <2>2. next \in {"discover", "returned"} /\ (next = "returned" => asked[c].op # "start")
      OBVIOUS
  <2> HIDE DEF next
  <2>3. ~overlapped => mem[c].copy = catalog /\ HasProject(catalog, mem[c].project)
      BY <1>a, <2>1 DEF CopyIsCurrent, ProjectIsThere, Copying, Knows
  <2>4. ~overlapped =>
           /\ Grows /\ acked' \subseteq catalog'.workspaces
           /\ \/ Goto(c, next, mem[c]) /\ UNCHANGED failure
              \/ Raise(c, "foreign") /\ UNCHANGED <<catalog, acked>>
      BY <1>t, <2>1, <2>3, UpsertGrows DEF Grows
  <2>5. \/ Goto(c, next, mem[c]) /\ UNCHANGED failure
        \/ /\ Goto(c, "raised", Nothing)
           /\ \A d \in Clients \ {c} : failure'[d] = failure[d]
      BY <1>t, <2>1 DEF Upsert, Raise, TInv
  <2>6. ASSUME Goto(c, next, mem[c]), UNCHANGED failure PROVE UInv'
    <3>1. ~overlapped => Brings(c, next, mem[c])
        BY <2>1, <2>2, <2>3, <2>4 DEF Brings, Copying, HasProject, Grows
    <3> QED
        BY <1>a, <1>t, <2>1, <2>2, <2>4, <2>6, <3>1, StepTakesTurn DEF Copying, NoneFails
  <2>7. ASSUME Goto(c, "raised", Nothing), \A d \in Clients \ {c} : failure'[d] = failure[d],
               ~(Goto(c, next, mem[c]) /\ UNCHANGED failure)
        PROVE  UInv'
    <3>1. ~overlapped => failure'[c] = "foreign" /\ catalog' = catalog
        BY <1>t, <2>4, <2>7 DEF Raise, TInv
    <3>2. Brings(c, "raised", Nothing) /\ OpsFit(c, "raised")
        BY DEF Brings, OpsFit, Copying, Knows
    <3> QED
        BY <1>t, <2>1, <2>4, <2>7, <3>1, <3>2, StepTakesTurn
  <2> QED BY <2>5, <2>6, <2>7
<1>6. ASSUME NEW c \in Clients, LoadForDiscover(c) PROVE UInv'
  <2>1. /\ pc[c] = "discover" /\ Writing(c) /\ pc[c] \in Knows /\ pc[c] \notin {"idle"} \cup Over
        /\ UNCHANGED <<catalog, made, asked, acked, overlapped>>
        /\ OpsFit(c, "list")
      BY <1>6 DEF LoadForDiscover, world, Writing, Over, Knows, OpsFit
  <2>2. CASE ProjectIsUnknown(c) /\ UNCHANGED shown
      BY <1>p, <1>t, <2>1, <2>2, RaiseTakesTurn DEF ProjectIsUnknown
  <2>3. ASSUME LoadProject(c, None, "list"), UNCHANGED failure,
               shown' = [shown EXCEPT ![c] = ManagedOf(RepoOf[RootOf(catalog, mem[c].project)])]
        PROVE  UInv'
    <3>1. /\ shown'[c] = ManagedOf(RepoOf[RootOf(catalog, mem[c].project)])
          /\ \A d \in Clients \ {c} : shown'[d] = shown[d]
        BY <1>t, <2>3 DEF TInv
    <3> QED BY <1>l, <2>1, <2>3, <3>1
  <2> QED BY <1>6, <2>2, <2>3 DEF LoadForDiscover, ManagedOf
<1>7. ASSUME NEW c \in Clients, ListWorktrees(c) PROVE UInv'
  <2> DEFINE repo == RepoOf[RootOf(mem[c].copy, mem[c].project)]
             m == Held(mem[c].project, None, mem[c].copy, WorktreesOf(repo))
  <2>1. /\ pc[c] = "list" /\ Writing(c) /\ pc[c] \notin {"idle"} \cup Over
        /\ UNCHANGED <<catalog, made, asked, acked, shown, overlapped>>
        /\ OpsFit(c, "upsert")
        /\ \/ Goto(c, "upsert", m) /\ UNCHANGED failure
           \/ Raise(c, "git")
      BY <1>7 DEF ListWorktrees, world, history, Writing, Over, OpsFit
  <2>2. /\ m.project = mem[c].project /\ m.copy = mem[c].copy /\ m.todo = WorktreesOf(repo)
        /\ ManagedOf(repo) \subseteq WorktreesOf(repo)
      BY <1>h DEF ManagedOf, WorktreesOf
  <2>3. ~overlapped => shown[c] \subseteq ManagedOf(repo)
      BY <1>a, <2>1 DEF FoundAreKept
  <2> HIDE DEF m, repo
  <2>4. ~overlapped => Brings(c, "upsert", m)
      BY <1>a, <2>1, <2>2, <2>3 DEF Brings, CopyIsCurrent, ProjectIsThere, Copying, Knows
  <2>5. CASE Goto(c, "upsert", m) /\ UNCHANGED failure
      BY <1>a, <1>g, <1>t, <2>1, <2>4, <2>5, StepTakesTurn DEF NothingIsLost, NoneFails
  <2>6. CASE Raise(c, "git")
      BY <1>t, <2>1, <2>6, RaiseTakesTurn
  <2> QED BY <2>1, <2>5, <2>6
<1>8. ASSUME NEW c \in Clients, UpsertFound(c) PROVE UInv'
  <2>1. /\ pc[c] = "upsert" /\ Writing(c) /\ pc[c] \notin {"idle"} \cup Over
        /\ UNCHANGED <<made, asked, shown, overlapped>>
        /\ OpsFit(c, "reload") /\ OpsFit(c, "returned")
        /\ mem[c].project \in Ids /\ mem[c].copy \in Catalog /\ mem[c].todo \in SUBSET Paths
      BY <1>8, <1>t
      DEF UpsertFound, Writing, Over, OpsFit, TInv, ProjectIsHeld, TasksFit, Knows, Memory
  <2>2. ~overlapped => /\ mem[c].copy = catalog /\ HasProject(catalog, mem[c].project)
                       /\ shown[c] \subseteq mem[c].todo \cup PathsOf(catalog)
      BY <1>a, <2>1 DEF CopyIsCurrent, ProjectIsThere, FoundAreKept, Copying, Knows
  <2>3. ASSUME NEW q \in mem[c].todo,
               Upsert(c, q, "reload", Held(mem[c].project, None, mem[c].copy,
                                           mem[c].todo \ {q}))
        PROVE  UInv'
    <3> DEFINE m == Held(mem[c].project, None, mem[c].copy, mem[c].todo \ {q})
    <3>1. m.project = mem[c].project /\ m.copy = mem[c].copy /\ m.todo = mem[c].todo \ {q}
        BY <1>h
    <3>2. m \in Memory
      <4>1. mem[c].todo \ {q} \in SUBSET Paths
          BY <2>1
      <4> QED BY <2>1, <4>1, HeldIsMemory
    <3>3. Upsert(c, q, "reload", m)
        BY <2>3
    <3> HIDE DEF m
    <3>4. ~overlapped =>
             /\ Grows /\ acked' \subseteq catalog'.workspaces
             /\ \/ Goto(c, "reload", m) /\ UNCHANGED failure /\ q \in PathsOf(catalog')
                \/ Raise(c, "foreign") /\ UNCHANGED <<catalog, acked>>
        BY <2>1, <2>2, <3>1, <3>2, <3>3, UpsertGrows DEF Grows
    <3>5. \/ Goto(c, "reload", m) /\ UNCHANGED failure
          \/ /\ Goto(c, "raised", Nothing)
             /\ \A d \in Clients \ {c} : failure'[d] = failure[d]
        BY <1>t, <3>3 DEF Upsert, Raise, TInv
    <3>6. ASSUME Goto(c, "reload", m), UNCHANGED failure PROVE UInv'
      <4>1. ~overlapped => q \in PathsOf(catalog')
        <5>1. ~Raise(c, "foreign")
            BY <1>t, <3>6 DEF Raise, Goto, TInv
        <5> QED BY <3>4, <5>1
      <4>2. Grows => PathsOf(catalog) \subseteq PathsOf(catalog')
          BY DEF Grows, PathsOf
      <4>3. ~overlapped => Brings(c, "reload", m)
          BY <2>1, <2>2, <3>1, <3>4, <4>1, <4>2 DEF Brings, Copying, HasProject, Grows
      <4> QED
          BY <1>a, <1>t, <2>1, <3>4, <3>6, <4>3, StepTakesTurn DEF Copying, NoneFails
    <3>7. ASSUME Goto(c, "raised", Nothing), \A d \in Clients \ {c} : failure'[d] = failure[d],
                 ~(Goto(c, "reload", m) /\ UNCHANGED failure)
          PROVE  UInv'
      <4>1. ~overlapped => failure'[c] = "foreign" /\ catalog' = catalog
          BY <1>t, <3>4, <3>7 DEF Raise, TInv
      <4>2. Brings(c, "raised", Nothing) /\ OpsFit(c, "raised")
          BY DEF Brings, OpsFit, Copying, Knows
      <4> QED
          BY <1>t, <2>1, <3>4, <3>7, <4>1, <4>2, StepTakesTurn
    <3> QED BY <3>5, <3>6, <3>7
  <2>4. ASSUME mem[c].todo = {}, Goto(c, "returned", Nothing),
               UNCHANGED <<catalog, issued, acked, failure>>
        PROVE  UInv'
    <3>1. ~overlapped => Brings(c, "returned", Nothing)
        BY <2>1, <2>2, <2>4 DEF Brings, Copying, Knows
    <3> QED
        BY <1>a, <1>g, <1>t, <2>1, <2>4, <3>1, StepTakesTurn DEF NothingIsLost, NoneFails
  <2> QED BY <1>8, <2>3, <2>4 DEF UpsertFound
<1>9. ASSUME NEW c \in Clients, Reload(c) PROVE UInv'
  <2> DEFINE m == Held(mem[c].project, None, catalog, mem[c].todo)
  <2>1. /\ pc[c] = "reload" /\ Goto(c, "upsert", m) /\ Writing(c)
        /\ pc[c] \notin {"idle"} \cup Over /\ OpsFit(c, "upsert")
        /\ UNCHANGED <<catalog, issued, made, asked, failure, acked, shown, overlapped>>
      BY <1>9 DEF Reload, world, history, Writing, Over, OpsFit
  <2>2. m.project = mem[c].project /\ m.copy = catalog /\ m.todo = mem[c].todo
      BY <1>h
  <2> HIDE DEF m
  <2>3. ~overlapped => Brings(c, "upsert", m)
      BY <1>a, <2>1, <2>2 DEF Brings, ProjectIsThere, FoundAreKept, Knows
  <2> QED
      BY <1>a, <1>g, <1>t, <2>1, <2>3, StepTakesTurn DEF NothingIsLost, NoneFails
<1>10. ASSUME NEW c \in Clients, LoadForCreate(c) PROVE UInv'
  <2>1. /\ pc[c] = "create" /\ Writing(c) /\ pc[c] \in Knows /\ pc[c] \notin {"idle"} \cup Over
        /\ UNCHANGED <<catalog, made, asked, acked, shown, overlapped>>
        /\ OpsFit(c, "add")
      BY <1>10, <1>o DEF LoadForCreate, world, history, Writing, Over, Knows, OpFits, OpsFit
  <2>2. CASE ProjectIsUnknown(c)
      BY <1>p, <1>t, <2>1, <2>2, RaiseTakesTurn DEF ProjectIsUnknown
  <2>3. CASE LoadProject(c, None, "add") /\ UNCHANGED failure
      BY <1>l, <2>1, <2>3
  <2> QED BY <1>10, <2>2, <2>3 DEF LoadForCreate
<1>11. ASSUME NEW c \in Clients, AddWorktree(c) PROVE UInv'
  <2>1. /\ pc[c] = "add" /\ Writing(c) /\ pc[c] \notin {"idle"} \cup Over
        /\ UNCHANGED <<catalog, asked, acked, shown, overlapped>>
        /\ OpsFit(c, "saveWorkspace") /\ made \subseteq made'
      BY <1>11, <1>o DEF AddWorktree, history, Writing, Over, OpFits, OpsFit
  <2>2. \/ Raise(c, "git") /\ UNCHANGED made
        \/ /\ \E q : Goto(c, "saveWorkspace", Held(mem[c].project, q, mem[c].copy, {}))
           /\ UNCHANGED failure
      BY <1>11 DEF AddWorktree
  <2>3. CASE Raise(c, "git") /\ UNCHANGED made
      BY <1>t, <2>1, <2>3, RaiseTakesTurn
  <2>4. ASSUME NEW q, Goto(c, "saveWorkspace", Held(mem[c].project, q, mem[c].copy, {})),
               UNCHANGED failure
        PROVE  UInv'
    <3> DEFINE m == Held(mem[c].project, q, mem[c].copy, {})
    <3>1. m.project = mem[c].project /\ m.copy = mem[c].copy /\ Goto(c, "saveWorkspace", m)
        BY <1>h, <2>4
    <3> HIDE DEF m
    <3>2. ~overlapped => Brings(c, "saveWorkspace", m) /\ Grows
        BY <1>a, <2>1, <3>1 DEF Brings, CopyIsCurrent, ProjectIsThere, Copying, Knows, Grows
    <3> QED
        BY <1>a, <1>t, <2>1, <2>4, <3>1, <3>2, StepTakesTurn DEF NothingIsLost, NoneFails
  <2> QED BY <2>2, <2>3, <2>4
<1>12. ASSUME NEW c \in Clients, LoadForContext(c) PROVE UInv'
  <2> DEFINE m == Held(None, None, EmptyCatalog, catalog.workspaces)
  <2>1. /\ pc[c] = "context" /\ Goto(c, "inspect", m) /\ pc[c] \notin {"idle"} \cup Over
        /\ UNCHANGED <<catalog, made, asked, failure, acked, shown, overlapped>>
        /\ OpsFit(c, "inspect")
      BY <1>12, <1>o DEF LoadForContext, world, history, Over, OpFits, OpsFit
  <2>2. m.todo = catalog.workspaces
      BY <1>h
  <2> HIDE DEF m
  <2>3. Brings(c, "inspect", m)
      BY <2>1, <2>2 DEF Brings, HasId, Copying, Knows
  <2> QED
      BY <1>a, <1>g, <1>t, <2>1, <2>3, StepTakesTurn DEF NothingIsLost, NoneFails, Knows
<1>13. ASSUME NEW c \in Clients, InspectWorkspace(c) PROVE UInv'
  <2>1. /\ pc[c] = "inspect" /\ pc[c] \notin {"idle"} \cup Over
        /\ UNCHANGED <<catalog, made, asked, acked, shown, overlapped>>
        /\ OpsFit(c, "inspect") /\ OpsFit(c, "returned")
        /\ asked[c].op = "context"
      BY <1>13, <1>o DEF InspectWorkspace, world, history, Over, OpFits, OpsFit
  <2>2. ~overlapped => \A v \in mem[c].todo : HasId(catalog, v.id)
      BY <1>a, <2>1 DEF TasksAreThere
  <2>3. ASSUME NEW v \in mem[c].todo, UNCHANGED failure,
               Goto(c, "inspect", Held(None, None, EmptyCatalog, mem[c].todo \ {v}))
        PROVE  UInv'
    <3> DEFINE m == Held(None, None, EmptyCatalog, mem[c].todo \ {v})
    <3>1. m.todo = mem[c].todo \ {v} /\ Goto(c, "inspect", m)
        BY <1>h, <2>3
    <3> HIDE DEF m
    <3>2. ~overlapped => Brings(c, "inspect", m)
        BY <2>1, <2>2, <3>1 DEF Brings, Copying, Knows
    <3> QED
        BY <1>a, <1>g, <1>t, <2>1, <2>3, <3>1, <3>2, StepTakesTurn
        DEF NothingIsLost, NoneFails, Knows
  <2>4. ASSUME NEW v \in mem[c].todo, \A w \in catalog.workspaces : w.id # v.id,
               Raise(c, "unknown")
        PROVE  UInv'
      BY <1>t, <2>1, <2>2, <2>4, RaiseTakesTurn DEF HasId
  <2>5. CASE Goto(c, "returned", Nothing) /\ UNCHANGED failure
    <3>1. Brings(c, "returned", Nothing)
        BY <2>1 DEF Brings, Copying, Knows
    <3> QED
        BY <1>a, <1>g, <1>t, <2>1, <2>5, <3>1, StepTakesTurn
        DEF NothingIsLost, NoneFails, Knows
  <2> QED BY <1>13, <2>3, <2>4, <2>5 DEF InspectWorkspace
<1>14. ASSUME NEW c \in Clients, Crash(c) PROVE UInv'
  <2>1. /\ Writing(c) /\ pc[c] \notin {"idle"} \cup Over /\ Goto(c, "crashed", Nothing)
        /\ UNCHANGED <<catalog, made, asked, failure, acked, shown, overlapped>>
        /\ OpsFit(c, "crashed")
      BY <1>14 DEF Crash, world, history, Writing, OpsFit
  <2>2. Brings(c, "crashed", Nothing)
      BY DEF Brings, Copying, Knows
  <2> QED
      BY <1>a, <1>g, <1>t, <2>1, <2>2, StepTakesTurn DEF NothingIsLost, NoneFails
<1>15. CASE UNCHANGED vars
    BY <1>15, <1>t, <1>o
    DEF vars, UInv, OpFits, InTurn, Alone, Writing, CopyIsCurrent, ProjectIsThere, HasProject,
        TasksAreThere, HasId, NothingIsLost, NoneFails, FoundAreKept, ManagedOf, PathsOf
<1> QED
    BY <1>1, <1>2, <1>3, <1>4, <1>5, <1>6, <1>7, <1>8, <1>9, <1>10, <1>11, <1>12, <1>13,
       <1>14, <1>15 DEF Next, Step

(* Writers that take turns lose no Workspace and meet no id that is gone,  *)
(* also when one of them dies and readers come in between.                 *)
THEOREM TurnsCorrect == Spec => []TakingTurnsIsEnough
<1>1. UInv => TakingTurnsIsEnough
    BY DEF UInv, InTurn, NothingIsLost, NoneFails, TakingTurnsIsEnough
<1> QED BY TurnInit, TurnNext, <1>1, PTL DEF Spec

(* And a discovery that comes to its end has registered every managed      *)
(* worktree that was there when it began.                                  *)
THEOREM DiscoveryCorrect == Spec => []DiscoveryRecovers
<1>1. UInv => DiscoveryRecovers
    BY DEF UInv, InTurn, FoundAreKept, PathsOf, DiscoveryRecovers
<1> QED BY TurnInit, TurnNext, <1>1, PTL DEF Spec
=============================================================================
