----------------------------- MODULE LaunchContract ------------------------------
(***************************************************************************)
(* What one strategy_id promises to those who start it and to those who    *)
(* read its launch envelope: the abstract specification that               *)
(* DetachedLaunch implements.  However many calls of start there are, one  *)
(* definition is executed at most once, after the envelope has said that   *)
(* it runs; its result precedes a success; and there is one verdict, after *)
(* which nothing is executed.  A late call may set the envelope back to    *)
(* queued, but it changes nothing else.                                    *)
(***************************************************************************)
CONSTANTS
    Definitions,   \* what may be asked for
    None           \* no definition

VARIABLES
    status,        \* what the envelope says
    executed,      \* the definitions whose execution has begun
    result,        \* the definition that the stored result belongs to
    over           \* there has been a verdict

contractVars == <<status, executed, result, over>>

Init == status = "none" /\ executed = {} /\ result = None /\ over = FALSE

Queue == status' = "queued" /\ UNCHANGED <<executed, result, over>>

Report ==
    /\ status = "queued" /\ executed = {} /\ ~over
    /\ status' = "running"
    /\ UNCHANGED <<executed, result, over>>

Execute(d) ==
    /\ status = "running" /\ executed = {} /\ ~over
    /\ executed' = {d}
    /\ UNCHANGED <<status, result, over>>

Produce ==
    /\ executed # {} /\ ~over
    /\ executed = {result'}
    /\ UNCHANGED <<status, executed, over>>

Succeed ==
    /\ executed = {result} /\ ~over
    /\ status' = "succeeded" /\ over' = TRUE
    /\ UNCHANGED <<executed, result>>

\* The worker could not be started, or what it executed raised an error.
Fail ==
    /\ status = "queued" \/ executed # {}
    /\ ~over
    /\ status' = "failed" /\ over' = TRUE
    /\ UNCHANGED <<executed, result>>

Next ==
    \/ Queue \/ Report \/ Produce \/ Succeed \/ Fail
    \/ \E d \in Definitions : Execute(d)

Spec == Init /\ [][Next]_contractVars

================================================================================
