------------------------------- MODULE Workbench -------------------------------
(***************************************************************************)
(* The desktop window AdeTkApplication: its navigation state, the two      *)
(* coordinators that read in the background (the refresh of the table and  *)
(* the Attention pane, the inspection of one Run), the file                *)
(* view-context.json and the restarts between which that file lives.  All  *)
(* handlers run on the Tk event loop, one at a time; what interleaves is   *)
(* the two worker threads, the timers, the operator, a modal dialog during *)
(* which the timers go on, and the Runs themselves, which change without   *)
(* the window.                                                             *)
(***************************************************************************)
EXTENDS BackgroundRefresh, RunProjection, FiniteSets

CONSTANTS
    Workspaces,    \* the workspaces of the catalog
    Runs,          \* the Runs
    Fresh,         \* the Runs that a plan of this window may create
    Home,          \* Home[r]: the workspace of Run r
    Phases,        \* names for what a Run that has begun may be like
    ReportOf,      \* ReportOf[s]: what the projection reads of it then
    Limit,         \* how many Runs of a workspace are read
    MaxActions,    \* bound: how much the operator does
    MaxOpens,      \* bound: how often the window is opened
    MaxFailures    \* bound: how many background reads fail

ASSUME WorkbenchAssumption ==
    /\ None \notin Runs \cup Workspaces
    /\ Home \in [Runs -> Workspaces]
    /\ Fresh \subseteq Runs
    /\ ReportOf \in [Phases -> Report]
    /\ Phases \cap {"planned", "queued"} = {}
    /\ Limit \in Nat \ {0}
    /\ MaxActions \in Nat /\ MaxOpens \in Nat /\ MaxFailures \in Nat

VARIABLES
    status,        \* status[r]: a plan of the window, started but not begun, or its phase
    later,         \* later[r]: the Runs whose run.json was written after that of r
    workspace,     \* the active workspace, also in the file
    reviewed,      \* reviewed_run_ids, also in the file
    savedRun,      \* selected_run_id of the file
    savedView,     \* active_view of the file
    open,          \* whether the window is there
    selected,      \* _selected_run_id
    target,        \* _pending_attention_target
    plan,          \* the Run of the plan that the active controller keeps
    view,          \* the visible main tab
    firstView,     \* _initial_view_pending
    table,         \* the table of Runs: the workspace it shows, and its Runs
    row,           \* the row selected in it
    pane,          \* the Attention pane
    detail,        \* Run Detail: what it shows, and the entry it focuses
    refresh,       \* _background_refresh
    inspect,       \* _background_inspection
    dialog,        \* whether the dialog "Inspection failed" waits
    waiting,       \* what _poll keeps in a local variable meanwhile
    answered,      \* the last inspection that came back (a history variable)
    actions,       \* what the operator has done so far
    opens,         \* how often the window has been opened
    failures       \* how many reads have failed

runs == <<status, later>>
file == <<workspace, reviewed, savedRun, savedView>>
screen == <<table, row, pane, detail>>
modal == <<dialog, waiting>>
bounds == <<actions, opens, failures>>
vars == <<status, later, workspace, reviewed, savedRun, savedView, open, selected, target,
          plan, view, firstView, table, row, pane, detail, refresh, inspect, dialog, waiting,
          answered, actions, opens, failures>>

Views == {"workspace-home", "new-run", "run-detail"}

RefreshRequest == [workspace : Workspaces, reviewed : SUBSET Runs]
InspectRequest == [workspace : Workspaces, run : Runs]

ItemsOf == [s \in Phases |-> Items(ReportOf[s])]

Entry == [run : Runs, item : UNION {ItemsOf[s] : s \in Phases}]

Listing == [workspace : Workspaces, runs : SUBSET Runs, attention : SUBSET Entry]

-----------------------------------------------------------------------------
(* What the background reads see.                                          *)

Exists(r) == status[r] \in Phases

Over(s) == ReportOf[s].status \notin {"planned", "running"}

RunsOf(w) == {r \in Runs : Home[r] = w /\ Exists(r)}

(* _recent_run_ids: those that were written last, as many as are read.     *)
Recent(w) == {r \in RunsOf(w) : Cardinality(later[r] \cap RunsOf(w)) < Limit}

(* The items of the recent Runs of every workspace: a Run that was         *)
(* reviewed is not ready for review again.                                 *)
AttentionEntries(done) ==
    UNION {[run : {r}, item : {i \in ItemsOf[status[r]] :
                                 ~(i.kind = "ready_for_review" /\ r \in done)}] :
             r \in UNION {Recent(w) : w \in Workspaces}}

(* AdeRefreshReader.read: the Runs are chosen and then read one after      *)
(* another, each once; one moment stands for all of these, since what the  *)
(* properties say of a screen is what later reads bring it to.             *)
Read(q) == [workspace |-> q.workspace, runs |-> Recent(q.workspace),
            attention |-> AttentionEntries(q.reviewed)]

-----------------------------------------------------------------------------
Init ==
    /\ status \in [Runs -> Phases \cup {"planned"}]
    /\ \A r \in Runs : status[r] = "planned" <=> r \in Fresh
    /\ later \in [Runs -> SUBSET Runs]
    /\ \A r, x \in Runs :
          r \in later[x] <=> Exists(r) /\ Exists(x) /\ r # x /\ x \notin later[r]
    /\ \A r, x \in Runs : r \in later[x] => later[r] \subseteq later[x]
    /\ workspace \in Workspaces /\ reviewed = {} /\ savedRun = None
    /\ savedView = "workspace-home"
    /\ open = FALSE
    /\ selected = None /\ target = None /\ plan = None
    /\ view = "workspace-home" /\ firstView = FALSE
    /\ table = None /\ row = None /\ pane = {} /\ detail = None
    /\ refresh = IdleCoordinator /\ inspect = IdleCoordinator
    /\ dialog = FALSE /\ waiting = None /\ answered = None
    /\ actions = 0 /\ opens = 0 /\ failures = 0

(* _refresh_all, with the workspace and the reviewed Runs of this moment.  *)
RefreshAll(w, done) == refresh' = Requested(refresh, [workspace |-> w, reviewed |-> done])

(* Another main tab comes up, and <<NotebookTabChanged>> saves it; while   *)
(* the first view is awaited, home is not saved.                           *)
ShowView(v) ==
    /\ view' = v
    /\ savedView' = IF v = view \/ (firstView /\ v = "workspace-home") THEN savedView ELSE v
    /\ firstView' = (firstView /\ v = "workspace-home")

(* The window opens: the context is restored, the table is still empty, so *)
(* Run Detail has to wait for the first refresh.                           *)
Open ==
    /\ ~open /\ opens < MaxOpens
    /\ open' = TRUE
    /\ opens' = opens + 1
    /\ selected' = savedRun
    /\ firstView' = (savedView = "run-detail")
    /\ view' = IF savedView = "new-run" THEN "new-run" ELSE "workspace-home"
    /\ RefreshAll(workspace, reviewed)
    /\ UNCHANGED <<runs, file, target, plan, screen, inspect, modal, answered, actions,
                   failures>>

(* What the process held is gone.                                          *)
WindowGone ==
    /\ open' = FALSE
    /\ selected' = None /\ target' = None /\ plan' = None
    /\ view' = "workspace-home" /\ firstView' = FALSE
    /\ table' = None /\ row' = None /\ pane' = {} /\ detail' = None
    /\ refresh' = IdleCoordinator /\ inspect' = IdleCoordinator
    /\ dialog' = FALSE /\ waiting' = None /\ answered' = None
    /\ UNCHANGED <<runs, workspace, reviewed, bounds>>

(* _close saves, shuts both workers down and destroys the window.          *)
Close ==
    /\ open /\ ~dialog
    /\ savedRun' = selected
    /\ savedView' = view
    /\ WindowGone

Kill ==
    /\ open
    /\ WindowGone
    /\ UNCHANGED <<savedRun, savedView>>

-----------------------------------------------------------------------------
(* The operator.                                                           *)

Acts ==
    /\ open /\ ~dialog
    /\ actions < MaxActions
    /\ actions' = actions + 1

SelectRow(r) ==
    /\ Acts
    /\ table # None /\ r \in table.runs
    /\ row' = r
    /\ UNCHANGED <<runs, file, open, selected, target, plan, view, firstView, table, pane,
                   detail, refresh, inspect, modal, answered, opens, failures>>

(* _inspect_run: a selected row goes before the selected Run.              *)
Chosen(r) == IF row # None THEN row ELSE r

Inspect(w, r) == inspect' = Requested(inspect, [workspace |-> w, run |-> r])

InspectRun ==
    /\ Acts
    /\ Chosen(selected) # None
    /\ selected' = Chosen(selected)
    /\ Inspect(workspace, Chosen(selected))
    /\ UNCHANGED <<runs, file, open, target, plan, view, firstView, screen, refresh, modal,
                   answered, opens, failures>>

(* _open_attention_selection: _activate_workspace makes a new controller,  *)
(* which keeps no plan.                                                    *)
OpenAttention(e) ==
    /\ Acts
    /\ e \in pane
    /\ workspace' = Home[e.run]
    /\ plan' = None
    /\ target' = e
    /\ selected' = Chosen(e.run)
    /\ RefreshAll(Home[e.run], reviewed)
    /\ Inspect(Home[e.run], Chosen(e.run))
    /\ UNCHANGED <<runs, reviewed, savedRun, savedView, open, view, firstView, screen, modal,
                   answered, opens, failures>>

(* _sidebar_selected: another workspace, and the selection is cleared.     *)
Sidebar(w) ==
    /\ Acts
    /\ w # workspace
    /\ workspace' = w
    /\ plan' = None
    /\ selected' = None
    /\ target' = None
    /\ RefreshAll(w, reviewed)
    /\ UNCHANGED <<runs, reviewed, savedRun, savedView, open, view, firstView, screen,
                   inspect, modal, answered, opens, failures>>

(* _register_project, _adopt_workspace and _create_worktree activate the   *)
(* workspace they made or found and keep the selection.                    *)
JoinWorkspace(w) ==
    /\ Acts
    /\ workspace' = w
    /\ plan' = None
    /\ RefreshAll(w, reviewed)
    /\ UNCHANGED <<runs, reviewed, savedRun, savedView, open, selected, target, view,
                   firstView, screen, inspect, modal, answered, opens, failures>>

ReviewPlan(r) ==
    /\ Acts
    /\ view = "new-run"
    /\ status[r] = "planned" /\ Home[r] = workspace
    /\ plan' = r
    /\ UNCHANGED <<runs, file, open, selected, target, view, firstView, screen, refresh,
                   inspect, modal, answered, opens, failures>>

(* _start_run: the Run belongs to a detached worker from here on.          *)
StartRun ==
    /\ Acts
    /\ view = "new-run"
    /\ plan # None
    /\ status' = [status EXCEPT ![plan] = "queued"]
    /\ UNCHANGED later
    /\ selected' = plan
    /\ plan' = None
    /\ ShowView("workspace-home")
    /\ RefreshAll(workspace, reviewed)
    /\ UNCHANGED <<workspace, reviewed, savedRun, open, target, screen, inspect, modal,
                   answered, opens, failures>>

SelectView(v) ==
    /\ Acts
    /\ v # view
    /\ ShowView(v)
    /\ UNCHANGED <<runs, workspace, reviewed, savedRun, open, selected, target, plan, screen,
                   refresh, inspect, modal, answered, opens, failures>>

-----------------------------------------------------------------------------
(* The refresh.                                                            *)

(* The timer of 1.5 seconds.                                               *)
ScheduledRefresh ==
    /\ open
    /\ RefreshAll(workspace, reviewed)
    /\ UNCHANGED <<runs, file, open, selected, target, plan, view, firstView, screen,
                   inspect, modal, answered, bounds>>

LoadRefresh ==
    /\ refresh.future = "loading"
    /\ \/ /\ refresh' = Ended(refresh, "loaded", Read(refresh.active))
          /\ UNCHANGED failures
       \/ /\ failures < MaxFailures
          /\ failures' = failures + 1
          /\ refresh' = Ended(refresh, "failed", None)
    /\ UNCHANGED <<runs, file, open, selected, target, plan, view, firstView, screen,
                   inspect, modal, answered, actions, opens>>

AwaitRefresh ==
    /\ refresh.polls > 0 /\ refresh.future = "loading"
    /\ refresh' = PolledAgain(refresh)
    /\ UNCHANGED <<runs, file, open, selected, target, plan, view, firstView, screen,
                   inspect, modal, answered, bounds>>

RefreshTaken == refresh' = Resumed(Taken(refresh), refresh.pending)

(* _refresh_failed: the first view is not awaited any longer.              *)
RefreshFailed ==
    /\ IsDone(refresh) /\ refresh.future = "failed"
    /\ RefreshTaken
    /\ firstView' = FALSE
    /\ UNCHANGED <<runs, file, open, selected, target, plan, view, screen, inspect, modal,
                   answered, bounds>>

(* _apply_refresh of another workspace than the active one.                *)
DropRefresh ==
    /\ IsDone(refresh) /\ refresh.future = "loaded"
    /\ refresh.result.workspace # workspace
    /\ RefreshTaken
    /\ UNCHANGED <<runs, file, open, selected, target, plan, view, firstView, screen,
                   inspect, modal, answered, bounds>>

(* _restore_main_view once the table is there.                             *)
RestoreView(listed) ==
    \/ /\ ~firstView \/ savedView # "run-detail"
       /\ UNCHANGED <<selected, view, savedView, inspect>>
       /\ firstView' = FALSE
    \/ /\ firstView /\ savedView = "run-detail" /\ selected \in listed
       /\ Inspect(workspace, selected)
       /\ view' = "run-detail"
       /\ firstView' = FALSE
       /\ UNCHANGED <<selected, savedView>>
    \/ /\ firstView /\ savedView = "run-detail" /\ selected \notin listed
       /\ selected' = None
       /\ firstView' = FALSE
       /\ UNCHANGED <<view, savedView, inspect>>

(* _apply_refresh: the table is filled anew, its selection set to the      *)
(* selected Run, and the pane replaced.                                    *)
ApplyRefresh ==
    /\ IsDone(refresh) /\ refresh.future = "loaded"
    /\ refresh.result.workspace = workspace
    /\ RefreshTaken
    /\ table' = [workspace |-> workspace, runs |-> refresh.result.runs]
    /\ row' = IF selected \in refresh.result.runs THEN selected ELSE None
    /\ pane' = refresh.result.attention
    /\ RestoreView(refresh.result.runs)
    /\ UNCHANGED <<runs, workspace, reviewed, savedRun, open, target, plan, detail, modal,
                   answered, bounds>>

-----------------------------------------------------------------------------
(* The inspection.                                                         *)

(* RunInspectionReader.read finds only a Run of the workspace it was asked *)
(* in; and it may fail for other reasons.                                  *)
LoadInspection ==
    /\ inspect.future = "loading"
    /\ LET q == inspect.active
       IN  \/ /\ q.run \in RunsOf(q.workspace)
              /\ inspect' = Ended(inspect, "loaded", None)
              /\ UNCHANGED failures
           \/ /\ q.run \notin RunsOf(q.workspace)
              /\ inspect' = Ended(inspect, "failed", None)
              /\ UNCHANGED failures
           \/ /\ q.run \in RunsOf(q.workspace) /\ failures < MaxFailures
              /\ failures' = failures + 1
              /\ inspect' = Ended(inspect, "failed", None)
    /\ UNCHANGED <<runs, file, open, selected, target, plan, view, firstView, screen,
                   refresh, modal, answered, actions, opens>>

AwaitInspection ==
    /\ inspect.polls > 0 /\ inspect.future = "loading"
    /\ inspect' = PolledAgain(inspect)
    /\ UNCHANGED <<runs, file, open, selected, target, plan, view, firstView, screen,
                   refresh, modal, answered, bounds>>

InspectionTaken ==
    /\ inspect' = Resumed(Taken(inspect), inspect.pending)
    /\ answered' = inspect.active

IsWanted(q) == q.workspace = workspace /\ q.run = selected

(* _apply_inspection of what is not selected any longer.                   *)
DropInspection ==
    /\ IsDone(inspect) /\ inspect.future = "loaded"
    /\ ~IsWanted(inspect.active)
    /\ InspectionTaken
    /\ UNCHANGED <<runs, file, open, selected, target, plan, view, firstView, screen,
                   refresh, modal, bounds>>

(* _apply_inspection: the Run is shown, counts as reviewed from here on,   *)
(* and the awaited entry is focused.                                       *)
ApplyInspection ==
    /\ IsDone(inspect) /\ inspect.future = "loaded"
    /\ IsWanted(inspect.active)
    /\ InspectionTaken
    /\ detail' = [workspace |-> workspace, run |-> selected, focus |-> target]
    /\ savedRun' = selected
    /\ reviewed' = reviewed \cup {selected}
    /\ ShowView("run-detail")
    /\ target' = None
    /\ RefreshAll(workspace, reviewed')
    /\ UNCHANGED <<runs, workspace, open, selected, plan, table, row, pane, modal, bounds>>

(* _inspection_failed: a dialog, and _poll goes on only when it is gone.   *)
InspectionFailed ==
    /\ IsDone(inspect) /\ inspect.future = "failed"
    /\ inspect' = Taken(inspect)
    /\ answered' = inspect.active
    /\ target' = None
    /\ dialog' = TRUE
    /\ waiting' = IF dialog THEN waiting ELSE inspect.pending
    /\ UNCHANGED <<runs, file, open, selected, plan, view, firstView, screen, refresh,
                   bounds>>

DismissDialog ==
    /\ dialog
    /\ dialog' = FALSE
    /\ waiting' = None
    /\ inspect' = Resumed(inspect, waiting)
    /\ UNCHANGED <<runs, file, open, selected, target, plan, view, firstView, screen,
                   refresh, answered, bounds>>

-----------------------------------------------------------------------------
(* The Runs go on without the window: a detached worker begins the queued  *)
(* one, and a running one waits, goes on or ends.  Its run.json is written *)
(* when it begins and when its status changes, and is the last one then.   *)
Written(r) ==
    later' = [x \in Runs |-> IF x # r /\ Exists(x) THEN later[x] \cup {r} ELSE {}]

RunMoves(r) ==
    /\ status[r] = "queued" \/ (Exists(r) /\ ~Over(status[r]))
    /\ \E s \in Phases :
          /\ status[r] = "queued" => ~Over(s)
          /\ status' = [status EXCEPT ![r] = s]
          /\ IF status[r] = "queued" \/ ReportOf[s].status # ReportOf[status[r]].status
                THEN Written(r) ELSE UNCHANGED later
    /\ UNCHANGED <<file, open, selected, target, plan, view, firstView, screen, refresh,
                   inspect, modal, answered, bounds>>

Operator ==
    \/ \E r \in Runs : SelectRow(r) \/ ReviewPlan(r)
    \/ \E e \in pane : OpenAttention(e)
    \/ \E w \in Workspaces : Sidebar(w) \/ JoinWorkspace(w)
    \/ \E v \in Views : SelectView(v)
    \/ InspectRun \/ StartRun \/ DismissDialog
    \/ Open \/ Close \/ Kill

PollRefresh == AwaitRefresh \/ RefreshFailed \/ DropRefresh \/ ApplyRefresh

PollInspection == AwaitInspection \/ DropInspection \/ ApplyInspection \/ InspectionFailed

Next ==
    \/ Operator
    \/ ScheduledRefresh
    \/ LoadRefresh \/ PollRefresh
    \/ LoadInspection \/ PollInspection
    \/ \E r \in Runs : RunMoves(r)

Spec == Init /\ [][Next]_vars

(* The event loop runs its timers, and every read ends.                    *)
FairSpec ==
    /\ Spec
    /\ WF_vars(ScheduledRefresh)
    /\ WF_vars(LoadRefresh) /\ WF_vars(PollRefresh)
    /\ WF_vars(LoadInspection) /\ WF_vars(PollInspection)

-----------------------------------------------------------------------------
RunsOK ==
    /\ status \in [Runs -> Phases \cup {"planned", "queued"}]
    /\ later \in [Runs -> SUBSET Runs]

TypeOK ==
    /\ RunsOK
    /\ workspace \in Workspaces
    /\ reviewed \subseteq Runs
    /\ savedRun \in Runs \cup {None}
    /\ savedView \in Views
    /\ open \in BOOLEAN
    /\ selected \in Runs \cup {None}
    /\ target \in Entry \cup {None}
    /\ plan \in Runs \cup {None}
    /\ view \in Views
    /\ firstView \in BOOLEAN
    /\ table \in [workspace : Workspaces, runs : SUBSET Runs] \cup {None}
    /\ row \in Runs \cup {None}
    /\ pane \subseteq Entry
    /\ detail \in [workspace : Workspaces, run : Runs, focus : Entry \cup {None}] \cup {None}
    /\ refresh \in Coordinator(RefreshRequest, Listing)
    /\ inspect \in Coordinator(InspectRequest, {})
    /\ dialog \in BOOLEAN
    /\ waiting \in InspectRequest \cup {None}
    /\ answered \in InspectRequest \cup {None}
    /\ actions \in 0 .. MaxActions
    /\ opens \in 0 .. MaxOpens
    /\ failures \in 0 .. MaxFailures

(* Never two loads under way in one coordinator and never a load that      *)
(* nobody polls, also when the timers run inside the dialog of a failed    *)
(* inspection; and nothing can wait behind the request that dialog keeps.  *)
OneLoadAtATime ==
    /\ \A c \in {refresh, inspect} :
          /\ c.polls = IF c.future = "none" THEN 0 ELSE 1
          /\ c.pending # None => c.future # "none"
    /\ dialog => inspect.pending = None

OfTheFinished(entries) == {e \in entries : Exists(e.run) /\ Over(status[e.run])}

(* Whatever the operator does, and whatever is dropped or fails on the     *)
(* way, the table ends up showing the Runs of the active workspace that    *)
(* were written last, and the Attention pane exactly what is to be said of *)
(* those of every workspace that are over: none that a later one pushed    *)
(* out, and with the reviews of this window in account.                    *)
ScreenCatchesUp ==
    <>[](open =>
           /\ table # None /\ table.workspace = workspace
           /\ table.runs = Recent(workspace)
           /\ OfTheFinished(pane) = OfTheFinished(AttentionEntries(reviewed)))

Newest(c) == IF c.pending # None THEN c.pending ELSE c.active

(* The inspection that was asked for last comes back, unless a newer one   *)
(* replaces it, the window closes or a dialog asks for the operator.       *)
InspectionIsAnswered ==
    \A q \in InspectRequest :
       Newest(inspect) = q ~> \/ answered = q \/ Newest(inspect) \notin {q, None}
                              \/ dialog \/ ~open

(* What the usage guide promises of the Attention pane: an opened entry is *)
(* shown in the detail of its own Run.                                     *)
AttentionOpensItsRun ==
    detail # None /\ detail.focus # None => detail.focus.run = detail.run
=============================================================================
