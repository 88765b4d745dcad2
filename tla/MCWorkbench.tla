---- MODULE MCWorkbench ----
(* Model checking of Workbench: which Run is in which workspace, and Runs  *)
(* that work, wait for approval, have failed or are done.                  *)
EXTENDS Workbench, TLC

CONSTANTS r1, r2, w1, w2

HomeOfEach == (r1 :> w1) @@ (r2 :> w2)
HomeOfBoth == (r1 :> w1) @@ (r2 :> w1)

Said(data) == [answer |-> "data", data |-> data]

\* A Team whose only worker the monitor calls failed, and another that is gone.
Gone == [installed |-> TRUE, status |-> "missing", config |-> Said({}), tasks |-> Said({}),
         summary |-> Said([alive |-> <<>>, silent |-> {}]),
         monitor |-> Said([alive |-> <<>>, state |-> <<>>])]

Failing == [Gone EXCEPT !.status = "present", !.config = Said({"ann"}),
                        !.tasks.answer = "refused",
                        !.monitor = Said([alive |-> "ann" :> TRUE,
                                           state |-> "ann" :> "failed"])]

Teams == <<Gone, Failing>>

ASSUME TeamsAreRead ==
    /\ \A i \in DOMAIN Teams : Teams[i] \in Native
    /\ ~ReadFails(<<"none">>, Teams)

Own == [kind \in {"result", "plan", "events"} |-> kind]

Seen(result, events, files, found) ==
    [status |-> result, liveness |-> IF result = "running" THEN "running" ELSE "finished",
     failure |-> IF result = "failed" THEN "evidence" ELSE "none",
     events |-> events, artifacts |-> Collected(Own, {}, files),
     teams |-> TeamsOf(events, found)]

\* The result is there and has contents, or is not there yet.
Begun == [path \in {"plan", "events"} |-> TRUE]
Done == [path \in {"result", "plan", "events"} |-> TRUE]

ReportOfEach ==
    [s \in Phases |-> CASE s = "working" -> Seen("running", <<"other">>, Begun, Teams)
                       [] s = "busy" -> Seen("running", <<"other">>, Begun, <<>>)
                       [] s = "asking" -> Seen("running", <<"other", "approval", "none">>,
                                               Begun, <<>>)
                       [] s = "failed" -> Seen("failed", <<"none">>, Begun, Teams)
                       [] s = "done" -> Seen("succeeded", <<>>, Done, <<>>)]
====
