---------------------------- MODULE MissionContract -----------------------------
(***************************************************************************)
(* What one mission_id promises while the calls of execute take turns: the *)
(* abstract specification that MissionRegistry implements.  One request is *)
(* registered for good, its baseline is measured at most once and before   *)
(* anything is done, and only that request is worked on: at most once by   *)
(* all calls together, handed to a worker at most once, and begun by that  *)
(* worker at most once.  A verdict is about the baseline, whether or not   *)
(* any work has begun; it may be replaced, never taken back.               *)
(***************************************************************************)
EXTENDS Sequences

CONSTANTS
    Requests,   \* what a Mission may be asked to do
    None        \* nothing

VARIABLES
    record,     \* the request that is registered
    baseline,   \* the repository as it was found
    launched,   \* the request that was handed to a worker
    worked,     \* who began to work on which request, in this order
    verdict     \* what was found about the work

contractVars == <<record, baseline, launched, worked, verdict>>

Init ==
    /\ record = None /\ baseline = None /\ launched = None
    /\ worked = <<>> /\ verdict = None

Register ==
    /\ record = None
    /\ record' \in Requests
    /\ UNCHANGED <<baseline, launched, worked, verdict>>

\* A Mission whose first call died has no baseline, and gets none.
Measure ==
    /\ record # None
    /\ baseline = None /\ worked = <<>> /\ launched = None
    /\ UNCHANGED <<record, launched, worked, verdict>>

HandOver ==
    /\ record # None
    /\ launched = None
    /\ launched' = record
    /\ UNCHANGED <<record, baseline, worked, verdict>>

Begin(by) ==
    /\ record # None
    /\ by = "worker" => launched = record
    /\ \A i \in DOMAIN worked : worked[i].by # by
    /\ worked' = Append(worked, [by |-> by, request |-> record])
    /\ UNCHANGED <<record, baseline, launched, verdict>>

Judge ==
    /\ baseline # None
    /\ verdict' # None
    /\ verdict'.before = baseline
    /\ UNCHANGED <<record, baseline, launched, worked>>

Next == Register \/ Measure \/ HandOver \/ Begin("call") \/ Begin("worker") \/ Judge

Spec == Init /\ [][Next]_contractVars

================================================================================
