---------------------------- MODULE WorkbenchProofs ----------------------------
(***************************************************************************)
(* Proofs about Workbench for any numbers of Runs, workspaces and steps:   *)
(* type correctness, and the discipline of the two coordinators.           *)
(***************************************************************************)
EXTENDS Workbench, TLAPS

(* A coordinator that polls exactly while it has a load, of a request, and *)
(* lets nothing wait when it has none.                                     *)
Sane(c, Request, Result) ==
    /\ c \in Coordinator(Request, Result)
    /\ c.polls = IF c.future = "none" THEN 0 ELSE 1
    /\ c.pending # None => c.future # "none"
    /\ c.future # "none" => c.active \in Request
    /\ c.future = "loaded" => c.result \in Result

LEMMA IdleIsSane ==
    ASSUME NEW Request, NEW Result
    PROVE  Sane(IdleCoordinator, Request, Result)
BY DEF Sane, IdleCoordinator, Coordinator

LEMMA RequestedIsSane ==
    ASSUME NEW Request, NEW Result, NEW c, Sane(c, Request, Result), NEW q \in Request
    PROVE  /\ Sane(Requested(c, q), Request, Result)
           /\ Requested(c, q).future # "none"
           /\ c.future = "none" => Requested(c, q).pending = None
<1>1. CASE c.future = "none"
    BY <1>1 DEF Sane, Coordinator, Requested, Started
<1>2. CASE c.future # "none"
    BY <1>2 DEF Sane, Coordinator, Requested
<1> QED BY <1>1, <1>2

LEMMA LoadedIsSane ==
    ASSUME NEW Request, NEW Result, NEW c, Sane(c, Request, Result),
           c.future = "loading", NEW result \in Result
    PROVE  Sane(Ended(c, "loaded", result), Request, Result)
BY DEF Sane, Coordinator, Ended

LEMMA FailedIsSane ==
    ASSUME NEW Request, NEW Result, NEW c, Sane(c, Request, Result), c.future = "loading"
    PROVE  Sane(Ended(c, "failed", None), Request, Result)
BY DEF Sane, Coordinator, Ended

LEMMA TakenIsSane ==
    ASSUME NEW Request, NEW Result, NEW c, Sane(c, Request, Result), IsDone(c)
    PROVE  /\ Sane(Taken(c), Request, Result)
           /\ Taken(c).future = "none" /\ Taken(c).pending = None
BY DEF Sane, Coordinator, Taken, IsDone

LEMMA ResumedIsSane ==
    ASSUME NEW Request, NEW Result, NEW c, Sane(c, Request, Result),
           NEW w \in Request \cup {None}
    PROVE  /\ Sane(Resumed(c, w), Request, Result)
           /\ Resumed(c, w).pending = c.pending
<1>1. CASE w # None /\ c.future = "none"
    BY <1>1 DEF Sane, Coordinator, Resumed, Started
<1>2. CASE ~(w # None /\ c.future = "none")
    BY <1>2 DEF Resumed
<1> QED BY <1>1, <1>2

(* The coordinators are sane, the dialog belongs to an open window, and    *)
(* while it is there the first view can be awaited only by an inspection   *)
(* that is not under way.                                                  *)
WInv ==
    /\ TypeOK
    /\ Sane(refresh, RefreshRequest, Listing)
    /\ Sane(inspect, InspectRequest, {None})
    /\ dialog => open /\ inspect.pending = None
    /\ dialog /\ firstView => inspect.future = "none"
    /\ refresh.future # "none" \/ inspect.future # "none" => open

LEMMA InspectsAre == Coordinator(InspectRequest, {}) = Coordinator(InspectRequest, {None})
BY DEF Coordinator

LEMMA ReadIsListing ==
    ASSUME TypeOK, NEW q \in RefreshRequest PROVE Read(q) \in Listing
<1>1. ASSUME NEW r \in UNION {Recent(w) : w \in Workspaces}
      PROVE  [run : {r}, item : {i \in ItemsOf[status[r]] :
                                   ~(i.kind = "ready_for_review" /\ r \in q.reviewed)}]
                \subseteq Entry
  <2>1. status[r] \in Phases /\ r \in Runs
      BY DEF Recent, RunsOf, Exists
  <2>2. ItemsOf[status[r]] \subseteq UNION {ItemsOf[s] : s \in Phases}
      BY <2>1
  <2> QED BY <2>1, <2>2 DEF Entry
<1>2. AttentionEntries(q.reviewed) \subseteq Entry
    BY <1>1 DEF AttentionEntries
<1>3. Recent(q.workspace) \subseteq Runs /\ q.workspace \in Workspaces
    BY DEF Recent, RunsOf, RefreshRequest
<1> QED BY <1>2, <1>3 DEF Read, Listing

LEMMA WorkbenchInit == Init => WInv
<1> SUFFICES ASSUME Init PROVE WInv
    OBVIOUS
<1>1. /\ Sane(refresh, RefreshRequest, Listing)
      /\ Sane(inspect, InspectRequest, {None})
    BY IdleIsSane DEF Init
<1>2. TypeOK
  <2>1. /\ refresh \in Coordinator(RefreshRequest, Listing)
        /\ inspect \in Coordinator(InspectRequest, {})
      BY <1>1, InspectsAre DEF Sane
  <2>2. /\ actions \in 0 .. MaxActions /\ opens \in 0 .. MaxOpens
        /\ failures \in 0 .. MaxFailures
      BY WorkbenchAssumption DEF Init
  <2>3. RunsOK
      BY DEF Init, RunsOK
  <2> HIDE DEF Coordinator
  <2> QED BY <2>1, <2>2, <2>3 DEF Init, TypeOK, Views
<1>3. dialog = FALSE /\ refresh.future = "none" /\ inspect.future = "none"
    BY DEF Init, IdleCoordinator
<1> QED BY <1>1, <1>2, <1>3 DEF WInv

LEMMA WorkbenchNext == WInv /\ [Next]_vars => WInv'
<1> SUFFICES ASSUME WInv, [Next]_vars PROVE WInv'
    OBVIOUS
<1>t. /\ TypeOK
      /\ Sane(refresh, RefreshRequest, Listing)
      /\ Sane(inspect, InspectRequest, {None})
      /\ dialog => open /\ inspect.pending = None
      /\ dialog /\ firstView => inspect.future = "none"
      /\ refresh.future # "none" \/ inspect.future # "none" => open
    BY DEF WInv
<1>k. /\ MaxActions \in Nat /\ MaxOpens \in Nat /\ MaxFailures \in Nat
      /\ Home \in [Runs -> Workspaces]
    BY WorkbenchAssumption
<1>r. ASSUME NEW w \in Workspaces, NEW done \in SUBSET Runs, RefreshAll(w, done)
      PROVE  Sane(refresh', RefreshRequest, Listing)
  <2>1. [workspace |-> w, reviewed |-> done] \in RefreshRequest
      BY DEF RefreshRequest
  <2> QED BY <1>r, <1>t, <2>1, RequestedIsSane DEF RefreshAll
<1>i. ASSUME NEW w \in Workspaces, NEW r \in Runs, Inspect(w, r)
      PROVE  /\ Sane(inspect', InspectRequest, {None})
             /\ inspect.future = "none" => inspect'.pending = None
  <2>1. [workspace |-> w, run |-> r] \in InspectRequest
      BY DEF InspectRequest
  <2> QED BY <1>i, <1>t, <2>1, RequestedIsSane DEF Inspect
<1>c. /\ refresh' = refresh => Sane(refresh', RefreshRequest, Listing)
      /\ inspect' = inspect => Sane(inspect', InspectRequest, {None})
    BY <1>t
<1>s. UNCHANGED runs => RunsOK'
  <2>1. RunsOK
      BY <1>t DEF TypeOK
  <2> QED BY <2>1 DEF RunsOK, runs
<1>w. ASSUME TypeOK', Sane(refresh', RefreshRequest, Listing),
             Sane(inspect', InspectRequest, {None}),
             dialog' => open' /\ inspect'.pending = None,
             dialog' /\ firstView' => inspect'.future = "none",
             refresh'.future # "none" \/ inspect'.future # "none" => open'
      PROVE  WInv'
    BY <1>w DEF WInv
<1>g. /\ Sane(refresh', RefreshRequest, Listing) =>
            refresh' \in Coordinator(RefreshRequest, Listing)
      /\ Sane(inspect', InspectRequest, {None}) =>
            inspect' \in Coordinator(InspectRequest, {})
    BY InspectsAre DEF Sane
<1> USE <1>k, <1>s DEF TypeOK, file, screen, modal, bounds, Views, Acts
<1>1. CASE Open
  <2>1. workspace \in Workspaces /\ reviewed \in SUBSET Runs
      BY <1>t
  <2>2. Sane(refresh', RefreshRequest, Listing) /\ Sane(inspect', InspectRequest, {None})
      BY <1>1, <1>r, <1>c, <2>1 DEF Open
  <2> QED BY <1>1, <1>t, <1>w, <1>g, <2>2 DEF Open
<1>2. ASSUME WindowGone, savedRun' \in Runs \cup {None}, savedView' \in Views PROVE WInv'
  <2>1. Sane(refresh', RefreshRequest, Listing) /\ Sane(inspect', InspectRequest, {None})
      BY <1>2, IdleIsSane DEF WindowGone
  <2>2. refresh'.future = "none" /\ inspect'.future = "none" /\ dialog' = FALSE
      BY <1>2 DEF WindowGone, IdleCoordinator
  <2>3. TypeOK'
    <3>1. /\ refresh' \in Coordinator(RefreshRequest, Listing)
          /\ inspect' \in Coordinator(InspectRequest, {})
        BY <1>g, <2>1
    <3> HIDE DEF Coordinator
    <3>2. /\ UNCHANGED <<runs, workspace, reviewed, actions, opens, failures>>
          /\ open' = FALSE /\ firstView' = FALSE /\ dialog' = FALSE
          /\ selected' = None /\ target' = None /\ plan' = None /\ row' = None
          /\ table' = None /\ pane' = {} /\ detail' = None
          /\ waiting' = None /\ answered' = None /\ view' = "workspace-home"
        BY <1>2 DEF WindowGone
    <3>3. TypeOK
        BY <1>t
    <3> QED BY <1>2, <3>1, <3>2, <3>3
  <2> QED BY <1>w, <2>1, <2>2, <2>3
<1>3. CASE Close \/ Kill
    BY <1>2, <1>3, <1>t DEF Close, Kill
<1>4. ASSUME NEW r \in Runs, SelectRow(r) \/ ReviewPlan(r) PROVE WInv'
    BY <1>4, <1>t, <1>w, <1>c DEF SelectRow, ReviewPlan
<1>5. ASSUME NEW e \in pane, OpenAttention(e) PROVE WInv'
  <2>1. e.run \in Runs /\ e \in Entry /\ Home[e.run] \in Workspaces
        /\ Chosen(e.run) \in Runs /\ reviewed \in SUBSET Runs
      BY <1>t DEF Entry, Chosen
  <2>2. Sane(refresh', RefreshRequest, Listing) /\ Sane(inspect', InspectRequest, {None})
      BY <1>5, <1>r, <1>i, <2>1 DEF OpenAttention
  <2> QED BY <1>5, <1>t, <1>w, <1>g, <2>1, <2>2 DEF OpenAttention
<1>6. ASSUME NEW w \in Workspaces, Sidebar(w) \/ JoinWorkspace(w) PROVE WInv'
  <2>1. Sane(refresh', RefreshRequest, Listing) /\ Sane(inspect', InspectRequest, {None})
      BY <1>6, <1>r, <1>c, <1>t DEF Sidebar, JoinWorkspace
  <2> QED BY <1>6, <1>t, <1>w, <1>g, <2>1 DEF Sidebar, JoinWorkspace
<1>7. ASSUME NEW v \in Views, SelectView(v) PROVE WInv'
    BY <1>7, <1>t, <1>w, <1>c DEF SelectView, ShowView
<1>8. CASE InspectRun
  <2>1. Chosen(selected) \in Runs /\ workspace \in Workspaces
      BY <1>8, <1>t DEF InspectRun, Chosen
  <2>2. Sane(refresh', RefreshRequest, Listing) /\ Sane(inspect', InspectRequest, {None})
      BY <1>8, <1>i, <1>c, <2>1 DEF InspectRun
  <2> QED BY <1>8, <1>t, <1>w, <1>g, <2>1, <2>2 DEF InspectRun
<1>9. CASE StartRun
  <2>1. Sane(refresh', RefreshRequest, Listing) /\ Sane(inspect', InspectRequest, {None})
      BY <1>9, <1>r, <1>c, <1>t DEF StartRun
  <2>2. savedView' \in Views /\ view' \in Views /\ firstView' \in BOOLEAN
      BY <1>9, <1>t DEF StartRun, ShowView
  <2>3. RunsOK'
      BY <1>9, <1>t DEF StartRun, RunsOK
  <2> QED BY <1>9, <1>t, <1>w, <1>g, <2>1, <2>2, <2>3 DEF StartRun
<1>10. CASE DismissDialog
  <2>1. Sane(inspect', InspectRequest, {None})
      BY <1>10, <1>t, ResumedIsSane DEF DismissDialog
  <2>2. /\ Sane(refresh', RefreshRequest, Listing) /\ UNCHANGED refresh
        /\ open' = TRUE /\ dialog' = FALSE
      BY <1>10, <1>t, <1>c DEF DismissDialog
  <2>3. TypeOK'
    <3>1. /\ refresh' \in Coordinator(RefreshRequest, Listing)
          /\ inspect' \in Coordinator(InspectRequest, {})
        BY <1>g, <2>1, <2>2
    <3>2. /\ dialog' = FALSE /\ waiting' = None
          /\ UNCHANGED <<runs, file, open, selected, target, plan, view, firstView, screen,
                         answered, bounds>>
        BY <1>10 DEF DismissDialog
    <3>3. TypeOK
        BY <1>t
    <3>4. dialog' \in BOOLEAN /\ waiting' \in InspectRequest \cup {None}
        BY <3>2
    <3>5. /\ detail' \in [workspace : Workspaces, run : Runs, focus : Entry \cup {None}] \cup {None}
          /\ table' \in [workspace : Workspaces, runs : SUBSET Runs] \cup {None}
          /\ pane' \subseteq Entry /\ target' \in Entry \cup {None}
        BY <3>2, <3>3
    <3> QED BY <3>1, <3>2, <3>3, <3>4, <3>5
  <2> QED BY <1>w, <2>1, <2>2, <2>3
<1>11. CASE ScheduledRefresh
  <2>1. Sane(refresh', RefreshRequest, Listing) /\ Sane(inspect', InspectRequest, {None})
      BY <1>11, <1>r, <1>c, <1>t DEF ScheduledRefresh
  <2> QED BY <1>11, <1>t, <1>w, <1>g, <2>1 DEF ScheduledRefresh
<1>12. CASE LoadRefresh
  <2>1. Read(refresh.active) \in Listing
      BY <1>12, <1>t, ReadIsListing DEF LoadRefresh, Sane
  <2>2. Sane(refresh', RefreshRequest, Listing) /\ Sane(inspect', InspectRequest, {None})
      BY <1>12, <1>t, <1>c, <2>1, LoadedIsSane, FailedIsSane DEF LoadRefresh
  <2> QED BY <1>12, <1>t, <1>w, <1>g, <2>2 DEF LoadRefresh
<1>13. CASE AwaitRefresh \/ AwaitInspection
    BY <1>13, <1>t, <1>w, <1>c DEF AwaitRefresh, AwaitInspection, PolledAgain
<1>q. ASSUME IsDone(refresh), RefreshTaken
      PROVE  Sane(refresh', RefreshRequest, Listing)
  <2>1. refresh.pending \in RefreshRequest \cup {None}
      BY <1>t DEF Coordinator
  <2> QED BY <1>q, <1>t, <2>1, TakenIsSane, ResumedIsSane DEF RefreshTaken
<1>14. CASE RefreshFailed \/ DropRefresh
  <2>1. /\ Sane(refresh', RefreshRequest, Listing)
        /\ UNCHANGED inspect /\ Sane(inspect', InspectRequest, {None})
      BY <1>14, <1>c, <1>q DEF RefreshFailed, DropRefresh
  <2>2. open /\ open' /\ UNCHANGED dialog /\ (firstView' => firstView)
      BY <1>14, <1>t DEF RefreshFailed, DropRefresh, IsDone
  <2>3. TypeOK'
      BY <1>14, <1>t, <1>g, <2>1 DEF RefreshFailed, DropRefresh
  <2> QED BY <1>t, <1>w, <2>1, <2>2, <2>3
<1>15. CASE ApplyRefresh
  <2>1. refresh.result \in Listing /\ refresh.result.runs \in SUBSET Runs
        /\ refresh.result.attention \in SUBSET Entry
      BY <1>15, <1>t DEF ApplyRefresh, Sane, Listing
  <2>2. Sane(refresh', RefreshRequest, Listing)
      BY <1>15, <1>q DEF ApplyRefresh
  <2>3. /\ Sane(inspect', InspectRequest, {None})
        /\ dialog => inspect'.pending = None
        /\ selected' \in Runs \cup {None} /\ view' \in Views /\ savedView' \in Views
        /\ firstView' = FALSE
    <3>1. CASE selected \in refresh.result.runs /\ Inspect(workspace, selected) /\ firstView
               /\ view' = "run-detail" /\ firstView' = FALSE /\ UNCHANGED <<selected, savedView>>
        BY <1>t, <1>i, <2>1, <3>1
    <3>2. CASE UNCHANGED <<inspect, savedView, view>> /\ selected' \in {selected, None}
               /\ firstView' = FALSE
        BY <1>t, <1>c, <3>2
    <3> QED BY <1>15, <3>1, <3>2 DEF ApplyRefresh, RestoreView
  <2>4. /\ table' \in [workspace : Workspaces, runs : SUBSET Runs]
        /\ row' \in Runs \cup {None} /\ pane' \subseteq Entry
      BY <1>15, <1>t, <2>1 DEF ApplyRefresh
  <2>5. open /\ open' /\ UNCHANGED dialog
      BY <1>15, <1>t DEF ApplyRefresh, IsDone
  <2>6. TypeOK'
      BY <1>15, <1>t, <1>g, <2>2, <2>3, <2>4 DEF ApplyRefresh
  <2> QED BY <1>w, <2>2, <2>3, <2>5, <2>6
<1>16. CASE LoadInspection
  <2>1. inspect.future = "loading" /\ UNCHANGED refresh
      BY <1>16 DEF LoadInspection
  <2>2. \/ inspect' = Ended(inspect, "loaded", None)
        \/ inspect' = Ended(inspect, "failed", None)
      BY <1>16 DEF LoadInspection
  <2>3. Sane(refresh', RefreshRequest, Listing) /\ Sane(inspect', InspectRequest, {None})
      BY <1>t, <1>c, <2>1, <2>2, LoadedIsSane, FailedIsSane
  <2>4. inspect'.pending = inspect.pending
      BY <2>2 DEF Ended
  <2>5. failures' \in 0 .. MaxFailures
      BY <1>16, <1>t DEF LoadInspection
  <2> QED BY <1>16, <1>t, <1>w, <1>g, <2>1, <2>3, <2>4, <2>5 DEF LoadInspection
<1>a. ASSUME IsDone(inspect)
      PROVE  /\ inspect.active \in InspectRequest /\ inspect.pending \in InspectRequest \cup {None}
             /\ Sane(Taken(inspect), InspectRequest, {None})
             /\ Taken(inspect).future = "none" /\ Taken(inspect).pending = None
  <2>1. inspect.active \in InspectRequest /\ inspect.pending \in InspectRequest \cup {None}
      BY <1>a, <1>t DEF IsDone, Sane, Coordinator
  <2> QED BY <1>a, <1>t, <2>1, TakenIsSane
<1>b. ASSUME IsDone(inspect), InspectionTaken
      PROVE  /\ Sane(inspect', InspectRequest, {None}) /\ inspect'.pending = None
             /\ answered' \in InspectRequest
    BY <1>a, <1>b, ResumedIsSane DEF InspectionTaken
<1>17. CASE DropInspection
  <2>1. dialog => ~firstView
      BY <1>17, <1>t DEF DropInspection, IsDone
  <2> QED BY <1>17, <1>t, <1>w, <1>g, <1>c, <1>b, <2>1 DEF DropInspection
<1>18. CASE ApplyInspection
  <2>1. dialog => ~firstView
      BY <1>18, <1>t DEF ApplyInspection, IsDone
  <2>2. /\ Sane(inspect', InspectRequest, {None}) /\ inspect'.pending = None
        /\ answered' \in InspectRequest
      BY <1>18, <1>b DEF ApplyInspection
  <2>3. selected \in Runs /\ workspace \in Workspaces
      BY <1>18, <1>a, <1>t DEF ApplyInspection, IsWanted, InspectRequest
  <2>4. reviewed' \in SUBSET Runs
      BY <1>18, <1>t, <2>3 DEF ApplyInspection
  <2>5. Sane(refresh', RefreshRequest, Listing)
      BY <1>18, <1>r, <2>3, <2>4 DEF ApplyInspection
  <2>6. /\ detail' \in [workspace : Workspaces, run : Runs, focus : Entry \cup {None}]
        /\ savedView' \in Views /\ view' \in Views
        /\ firstView' \in BOOLEAN /\ (firstView' => firstView)
      BY <1>18, <1>t, <2>3 DEF ApplyInspection, ShowView
  <2> QED
      BY <1>18, <1>t, <1>w, <1>g, <2>1, <2>2, <2>3, <2>4, <2>5, <2>6 DEF ApplyInspection
<1>19. CASE InspectionFailed
  <2>1. open
      BY <1>19, <1>t DEF InspectionFailed, IsDone
  <2>2. Sane(inspect', InspectRequest, {None}) /\ inspect'.future = "none"
        /\ inspect'.pending = None /\ answered' \in InspectRequest
        /\ waiting' \in InspectRequest \cup {None}
      BY <1>19, <1>a, <1>t DEF InspectionFailed
  <2> QED BY <1>19, <1>t, <1>w, <1>g, <1>c, <2>1, <2>2 DEF InspectionFailed
<1>20. ASSUME NEW r \in Runs, RunMoves(r) PROVE WInv'
  <2>1. RunsOK'
      BY <1>20, <1>t DEF RunMoves, Written, RunsOK
  <2> QED BY <1>20, <1>t, <1>w, <1>c, <2>1 DEF RunMoves
<1>21. CASE UNCHANGED vars
    BY <1>21, <1>t, <1>w, <1>c DEF vars, runs
<1> QED
    BY <1>1, <1>3, <1>4, <1>5, <1>6, <1>7, <1>8, <1>9, <1>10, <1>11, <1>12, <1>13, <1>14,
       <1>15, <1>16, <1>17, <1>18, <1>19, <1>20, <1>21
    DEF Next, Operator, PollRefresh, PollInspection

(* The window only ever holds Runs, workspaces and entries there are.      *)
THEOREM TypeCorrect == Spec => []TypeOK
<1>1. WInv => TypeOK
    BY DEF WInv
<1> QED BY WorkbenchInit, WorkbenchNext, <1>1, PTL DEF Spec

(* Each coordinator has one load at a time and polls it, dialogs or not.   *)
THEOREM LoadsCorrect == Spec => []OneLoadAtATime
<1>1. WInv => OneLoadAtATime
    BY DEF WInv, Sane, OneLoadAtATime
<1> QED BY WorkbenchInit, WorkbenchNext, <1>1, PTL DEF Spec
=============================================================================
