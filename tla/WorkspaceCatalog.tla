---------------------------- MODULE WorkspaceCatalog ----------------------------
(***************************************************************************)
(* The file catalog.json of Projects and Workspaces: WorkspaceService over *)
(* AdeStateStore, as the desktop window and the agent tools call it.  Each *)
(* call reads the whole catalog, asks Git, and writes the whole catalog    *)
(* back; nothing locks the file, and several processes share it.  A write  *)
(* is one rename of a file of its own, hence one step.  Names, kinds and   *)
(* times are left out: a Project is its id and root, a Workspace its id,   *)
(* Project and path.                                                       *)
(***************************************************************************)
EXTENDS Naturals

CONSTANTS
    Clients,       \* the calls; each is made once
    Dirs,          \* the directories a person names
    Inside,        \* Inside[d]: the directories in d, itself included
    RepoOf,        \* RepoOf[d]: the Git repository of d, or None
    Linked,        \* the directories that git worktree list names
    Branches,      \* names for a new branch
    Folder,        \* Folder[b]: the directory name made of branch name b
    None,          \* nothing
    MaxIds,        \* bound: how many ids the calls give out
    Crashable      \* the calls whose process may die

ASSUME CatalogAssumption ==
    /\ Inside \in [Dirs -> SUBSET Dirs]
    /\ \A d \in Dirs : d \in Inside[d]
    /\ Linked \subseteq Dirs
    /\ MaxIds \in Nat

VARIABLES
    catalog,       \* catalog.json
    issued,        \* the ids given out: uuid4 never gives one twice
    made,          \* the managed worktrees in the repositories and on disk
    pc,            \* pc[c]: where call c is
    asked,         \* asked[c]: what it was asked
    mem,           \* mem[c]: what it holds meanwhile
    failure,       \* failure[c]: what made it raise
    acked,         \* the Workspaces that calls have returned (a history variable)
    shown,         \* shown[c]: the worktrees there when a discovery began (history)
    overlapped     \* whether two writers were ever at work at once (history)

vars == <<catalog, issued, made, pc, asked, mem, failure, acked, shown, overlapped>>

world == <<catalog, issued, made>>
history == <<acked, shown>>

Ids == 1 .. MaxIds

Project == [id : Ids, root : Dirs]

(* Below the state root, one directory for each Project id.                *)
ManagedPath(id, branch) == [project |-> id, folder |-> Folder[branch]]

Paths == Dirs \cup {ManagedPath(id, b) : id \in Ids, b \in Branches}

Workspace == [id : Ids, project : Ids, path : Paths]

Worktree == [repo : {RepoOf[d] : d \in Dirs}, branch : Branches, path : Paths]

Catalog == [projects : SUBSET Project, workspaces : SUBSET Workspace]

EmptyCatalog == [projects |-> {}, workspaces |-> {}]

-----------------------------------------------------------------------------
(* Variant: the Project of a Workspace is not looked up.                   *)
ValidWithoutReferences(k) ==
    /\ \A p, q \in k.projects : p.id = q.id \/ p.root = q.root => p = q
    /\ \A w, x \in k.workspaces : w.id = x.id \/ w.path = x.path => w = x

(* AdeCatalog.reject_duplicate_identity, at every construction of a        *)
(* catalog, whether to write it or of what was read.                       *)
Valid(k) ==
    /\ \A p, q \in k.projects : p.id = q.id \/ p.root = q.root => p = q
    /\ \A w, x \in k.workspaces : w.id = x.id \/ w.path = x.path => w = x
    /\ \A w \in k.workspaces : \E p \in k.projects : p.id = w.project

HasProject(k, id) == \E p \in k.projects : p.id = id

RootOf(k, id) == (CHOOSE p \in k.projects : p.id = id).root

WithProject(k, p) == [projects |-> k.projects \cup {p}, workspaces |-> k.workspaces]

WithWorkspace(k, w) == [projects |-> k.projects, workspaces |-> k.workspaces \cup {w}]

RepoAt(p) == IF p \in Dirs THEN RepoOf[p] ELSE (CHOOSE m \in made : m.path = p).repo

(* _require_project_workspace.                                             *)
Belongs(root, p) ==
    \/ p \in Inside[root]
    \/ RepoOf[root] # None /\ RepoAt(p) = RepoOf[root]

(* Variant: a managed worktree is taken to be registered already.          *)
LinkedWorktreesOf(repo) == {d \in Linked : RepoOf[d] = repo}

(* git worktree list.                                                      *)
WorktreesOf(repo) ==
    {d \in Linked : RepoOf[d] = repo} \cup {m.path : m \in {n \in made : n.repo = repo}}

-----------------------------------------------------------------------------
(* The Project a call is about, the path it registers, the catalog as it   *)
(* read it, and what its loop still has to do.                             *)
Held(id, p, k, tasks) == [project |-> id, path |-> p, copy |-> k, todo |-> tasks]

Memory == [project : Ids \cup {None}, path : Paths \cup {None}, copy : Catalog,
           todo : (SUBSET Paths) \cup (SUBSET Workspace)]

Nothing == Held(None, None, EmptyCatalog, {})

Idle == [op |-> "none"]

Question ==
    {Idle}
    \cup [op : {"start", "register"}, dir : Dirs]
    \cup [op : {"adopt"}, project : Ids, path : Paths]
    \cup [op : {"discover"}, project : Ids]
    \cup [op : {"create"}, project : Ids, branch : Branches]
    \cup [op : {"context"}]

Init ==
    /\ catalog = EmptyCatalog /\ issued = 0 /\ made = {}
    /\ pc = [c \in Clients |-> "idle"]
    /\ asked = [c \in Clients |-> Idle]
    /\ mem = [c \in Clients |-> Nothing]
    /\ failure = [c \in Clients |-> "none"]
    /\ acked = {} /\ shown = [c \in Clients |-> {}] /\ overlapped = FALSE

Over == {"returned", "raised", "crashed"}

(* The call goes on with m in its memory; a call that is over holds nothing. *)
Goto(c, label, m) ==
    /\ pc' = [pc EXCEPT ![c] = label]
    /\ mem' = [mem EXCEPT ![c] = IF label \in Over THEN Nothing ELSE m]

Raise(c, why) ==
    /\ Goto(c, "raised", Nothing)
    /\ failure' = [failure EXCEPT ![c] = why]

Writing(c) == pc[c] \notin {"idle", "context", "inspect"} \cup Over

(* A call comes: the window starts, or someone registers a Project, adopts *)
(* a directory, discovers worktrees, creates one, or reads the context;    *)
(* the ids are of Projects they have seen.                                 *)
Begin(c, question, id, label) ==
    /\ asked' = [asked EXCEPT ![c] = question]
    /\ Goto(c, label, Held(id, None, EmptyCatalog, {}))
    /\ overlapped' = (overlapped \/ (label # "context" /\ \E d \in Clients : Writing(d)))

Call(c) ==
    /\ pc[c] = "idle"
    /\ \/ \E op \in {"start", "register"}, d \in Dirs :
             Begin(c, [op |-> op, dir |-> d], None, "register")
       \/ \E p \in catalog.projects, q \in Dirs \cup {m.path : m \in made} :
             Begin(c, [op |-> "adopt", project |-> p.id, path |-> q], p.id, "adopt")
       \/ \E p \in catalog.projects :
             Begin(c, [op |-> "discover", project |-> p.id], p.id, "discover")
       \/ \E p \in catalog.projects, b \in Branches :
             Begin(c, [op |-> "create", project |-> p.id, branch |-> b], p.id, "create")
       \/ Begin(c, [op |-> "context"], None, "context")
    /\ UNCHANGED <<world, failure, history>>

(* load_catalog, for a Project that must be in it.                         *)
LoadProject(c, p, label) ==
    /\ HasProject(catalog, mem[c].project)
    /\ Goto(c, label, Held(mem[c].project, p, catalog, {}))

ProjectIsUnknown(c) ==
    /\ ~HasProject(catalog, mem[c].project)
    /\ Raise(c, "unknown")

-----------------------------------------------------------------------------
(* register_project.                                                       *)
LoadForRegister(c) ==
    /\ pc[c] = "register"
    /\ Goto(c, "saveProject", Held(None, None, catalog, {}))
    /\ UNCHANGED <<world, asked, failure, history, overlapped>>

(* A known root is opened again, which writes the copy with a new time.    *)
SaveProject(c) ==
    /\ pc[c] = "saveProject"
    /\ \/ \E p \in mem[c].copy.projects :
             /\ p.root = asked[c].dir
             /\ catalog' = mem[c].copy
             /\ Goto(c, "adopt", Held(p.id, None, EmptyCatalog, {}))
             /\ UNCHANGED issued
       \/ /\ \A p \in mem[c].copy.projects : p.root # asked[c].dir
          /\ issued < MaxIds
          /\ issued' = issued + 1
          /\ catalog' = WithProject(mem[c].copy,
                                    [id |-> issued + 1, root |-> asked[c].dir])
          /\ Goto(c, "adopt", Held(issued + 1, None, EmptyCatalog, {}))
    /\ UNCHANGED <<made, asked, failure, history, overlapped>>

-----------------------------------------------------------------------------
(* adopt_workspace, which a registration goes on with.                     *)
AdoptedPath(c) == IF asked[c].op = "adopt" THEN asked[c].path ELSE asked[c].dir

LoadForAdopt(c) ==
    /\ pc[c] = "adopt"
    /\ \/ ProjectIsUnknown(c)
       \/ /\ LoadProject(c, AdoptedPath(c), "saveWorkspace")
          /\ Belongs(RootOf(catalog, mem[c].project), AdoptedPath(c))
          /\ UNCHANGED failure
       \/ /\ HasProject(catalog, mem[c].project)
          /\ ~Belongs(RootOf(catalog, mem[c].project), AdoptedPath(c))
          /\ Raise(c, "foreign")
    /\ UNCHANGED <<world, asked, history, overlapped>>

(* _upsert_workspace into the copy of the caller: returned as it is,       *)
(* refused for another Project, or new and written if the catalog is valid.*)
Upsert(c, q, next, m) ==
    \/ \E w \in m.copy.workspaces :
          /\ w.path = q
          /\ \/ /\ w.project = m.project
                /\ acked' = acked \cup {w}
                /\ Goto(c, next, m) /\ UNCHANGED failure
             \/ /\ w.project # m.project
                /\ Raise(c, "foreign") /\ UNCHANGED acked
          /\ UNCHANGED <<catalog, issued>>
    \/ /\ \A w \in m.copy.workspaces : w.path # q
       /\ issued < MaxIds
       /\ issued' = issued + 1
       /\ LET new == [id |-> issued + 1, project |-> m.project, path |-> q]
          IN  \/ /\ Valid(WithWorkspace(m.copy, new))
                 /\ catalog' = WithWorkspace(m.copy, new)
                 /\ acked' = acked \cup {new}
                 /\ Goto(c, next, m) /\ UNCHANGED failure
              \/ /\ ~Valid(WithWorkspace(m.copy, new))
                 /\ Raise(c, "invalid") /\ UNCHANGED <<catalog, acked>>

SaveWorkspace(c) ==
    /\ pc[c] = "saveWorkspace"
    /\ Upsert(c, mem[c].path, IF asked[c].op = "start" THEN "discover" ELSE "returned",
              mem[c])
    /\ UNCHANGED <<made, asked, shown, overlapped>>

-----------------------------------------------------------------------------
(* discover_worktrees, with which a window starts and ends a registration. *)
LoadForDiscover(c) ==
    /\ pc[c] = "discover"
    /\ \/ ProjectIsUnknown(c) /\ UNCHANGED shown
       \/ /\ LoadProject(c, None, "list")
          /\ shown' = [shown EXCEPT ![c] =
                {m.path : m \in {n \in made :
                                   n.repo = RepoOf[RootOf(catalog, mem[c].project)]}}]
          /\ UNCHANGED failure
    /\ UNCHANGED <<world, asked, acked, overlapped>>

(* Outside a repository git fails, and CalledProcessError is no OSError.   *)
ListWorktrees(c) ==
    /\ pc[c] = "list"
    /\ LET repo == RepoOf[RootOf(mem[c].copy, mem[c].project)]
       IN  \/ repo = None /\ Raise(c, "git")
           \/ /\ repo # None
              /\ Goto(c, "upsert",
                      Held(mem[c].project, None, mem[c].copy, WorktreesOf(repo)))
              /\ UNCHANGED failure
    /\ UNCHANGED <<world, asked, history, overlapped>>

UpsertFound(c) ==
    /\ pc[c] = "upsert"
    /\ \/ \E q \in mem[c].todo :
             Upsert(c, q, "reload",
                    Held(mem[c].project, None, mem[c].copy, mem[c].todo \ {q}))
       \/ /\ mem[c].todo = {}
          /\ Goto(c, "returned", Nothing)
          /\ UNCHANGED <<catalog, issued, acked, failure>>
    /\ UNCHANGED <<made, asked, shown, overlapped>>

(* Variant: the loop goes on with the catalog it has read first.           *)
ReloadNothing(c) ==
    /\ pc[c] = "reload"
    /\ Goto(c, "upsert", mem[c])
    /\ UNCHANGED <<world, asked, failure, history, overlapped>>

(* After each worktree the catalog is read anew.                           *)
Reload(c) ==
    /\ pc[c] = "reload"
    /\ Goto(c, "upsert", Held(mem[c].project, None, catalog, mem[c].todo))
    /\ UNCHANGED <<world, asked, failure, history, overlapped>>

-----------------------------------------------------------------------------
(* create_managed_worktree.                                                *)
LoadForCreate(c) ==
    /\ pc[c] = "create"
    /\ \/ ProjectIsUnknown(c)
       \/ LoadProject(c, None, "add") /\ UNCHANGED failure
    /\ UNCHANGED <<world, asked, history, overlapped>>

(* git worktree add -b: not outside a repository, for a directory that     *)
(* exists, or with a branch that exists.                                   *)
CanAdd(repo, branch, q) ==
    /\ repo # None
    /\ \A m \in made : m.path # q /\ ~(m.repo = repo /\ m.branch = branch)

AddWorktree(c) ==
    /\ pc[c] = "add"
    /\ LET repo == RepoOf[RootOf(mem[c].copy, mem[c].project)]
           branch == asked[c].branch
           q == ManagedPath(mem[c].project, branch)
       IN  \/ ~CanAdd(repo, branch, q) /\ Raise(c, "git") /\ UNCHANGED made
           \/ /\ CanAdd(repo, branch, q)
              /\ made' = made \cup {[repo |-> repo, branch |-> branch, path |-> q]}
              /\ Goto(c, "saveWorkspace", Held(mem[c].project, q, mem[c].copy, {}))
              /\ UNCHANGED failure
    /\ UNCHANGED <<catalog, issued, asked, history, overlapped>>

-----------------------------------------------------------------------------
(* The readers, AdeAgentTools.context and AdeRefreshReader.read: the       *)
(* catalog, and inspect_workspace of each Workspace in it, which reads the *)
(* catalog again.                                                          *)
LoadForContext(c) ==
    /\ pc[c] = "context"
    /\ Goto(c, "inspect", Held(None, None, EmptyCatalog, catalog.workspaces))
    /\ UNCHANGED <<world, asked, failure, history, overlapped>>

InspectWorkspace(c) ==
    /\ pc[c] = "inspect"
    /\ \/ \E v \in mem[c].todo :
             \/ /\ \E w \in catalog.workspaces : w.id = v.id
                /\ Goto(c, "inspect", Held(None, None, EmptyCatalog, mem[c].todo \ {v}))
                /\ UNCHANGED failure
             \/ /\ \A w \in catalog.workspaces : w.id # v.id
                /\ Raise(c, "unknown")
       \/ /\ mem[c].todo = {}
          /\ Goto(c, "returned", Nothing)
          /\ UNCHANGED failure
    /\ UNCHANGED <<world, asked, history, overlapped>>

Crash(c) ==
    /\ c \in Crashable
    /\ Writing(c)
    /\ Goto(c, "crashed", Nothing)
    /\ UNCHANGED <<world, asked, failure, history, overlapped>>

Step(c) ==
    \/ Call(c)
    \/ LoadForRegister(c) \/ SaveProject(c)
    \/ LoadForAdopt(c) \/ SaveWorkspace(c)
    \/ LoadForDiscover(c) \/ ListWorktrees(c) \/ UpsertFound(c) \/ Reload(c)
    \/ LoadForCreate(c) \/ AddWorktree(c)
    \/ LoadForContext(c) \/ InspectWorkspace(c)
    \/ Crash(c)

Next == \E c \in Clients : Step(c)

Spec == Init /\ [][Next]_vars

-----------------------------------------------------------------------------
Failures == {"none", "unknown", "foreign", "invalid", "git"}

TypeOK ==
    /\ catalog \in Catalog
    /\ issued \in 0 .. MaxIds
    /\ made \subseteq Worktree
    /\ pc \in [Clients -> {"idle", "register", "saveProject", "adopt", "saveWorkspace",
                           "discover", "list", "upsert", "reload", "create", "add",
                           "context", "inspect"} \cup Over]
    /\ asked \in [Clients -> Question]
    /\ mem \in [Clients -> Memory]
    /\ failure \in [Clients -> Failures]
    /\ acked \subseteq Workspace
    /\ shown \in [Clients -> SUBSET Paths]
    /\ overlapped \in BOOLEAN

(* The file always passes the validation with which every process reads    *)
(* it, whoever wrote over whom: a catalog with a Workspace of a lost       *)
(* Project would keep every window and every tool from starting.           *)
CatalogIsValid ==
    /\ \A w \in catalog.workspaces : HasProject(catalog, w.project)
    /\ \A p, q \in catalog.projects : p.id = q.id \/ p.root = q.root => p = q
    /\ \A w, x \in catalog.workspaces : w.id = x.id \/ w.path = x.path => w = x

(* As long as writers take turns, no Workspace that a call has returned    *)
(* leaves the catalog, and no call, not even a reader in between, meets an *)
(* id that is gone or a catalog it may not write, also after a crash.      *)
TakingTurnsIsEnough ==
    ~overlapped => /\ acked \subseteq catalog.workspaces
                   /\ \A c \in Clients : failure[c] \notin {"unknown", "invalid"}

(* A managed worktree that lost its call before it was registered is found *)
(* by the next discovery that comes to its end, and then it is registered. *)
DiscoveryRecovers ==
    ~overlapped =>
       \A c \in Clients :
          pc[c] = "returned" /\ asked[c].op \in {"start", "discover"}
          => shown[c] \subseteq {w.path : w \in catalog.workspaces}
=============================================================================
