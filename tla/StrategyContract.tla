---------------------------- MODULE StrategyContract ----------------------------
(***************************************************************************)
(* What one Strategy promises its observers while a single caller executes *)
(* it: Stages are worked through in their order, a Stage that has ended is *)
(* never reopened, nothing begins behind a Stage whose failure stops the   *)
(* Strategy, and the verdict is the verdict of the last Stage.             *)
(***************************************************************************)
EXTENDS Naturals, Sequences

VARIABLES
    status,     \* of the Strategy; "none" before it exists
    stages,     \* the status of each of its Stages
    stopping    \* stopping[i]: a failure of Stage i stops the Strategy

contractVars == <<status, stages, stopping>>

Ended == {"succeeded", "failed", "skipped"}

Final == {"succeeded", "failed"}

Halted(i) == stages[i] = "failed" /\ stopping[i]

Init == status = "none" /\ stages = <<>> /\ stopping = <<>>

Create ==
    /\ status = "none" /\ status' = "pending"
    /\ Len(stages') > 0 /\ Len(stopping') = Len(stages')
    /\ stages' = [i \in 1..Len(stages') |-> "pending"]

Start == status = "pending" /\ status' = "running" /\ UNCHANGED <<stages, stopping>>

\* Stage i is next: all before it have ended, and none of them halts the Strategy.
\* A failed Stage may be tried again.
Turn(i) ==
    /\ status = "running"
    /\ \A j \in 1..(i - 1) : stages[j] \in Ended /\ ~Halted(j)
    /\ \A j \in (i + 1)..Len(stages) : stages[j] = "pending"

Move(i, new) ==
    /\ Turn(i)
    /\ stages' = [stages EXCEPT ![i] = new]
    /\ UNCHANGED <<status, stopping>>

Advance(i) ==
    \/ stages[i] \in {"pending", "failed"} /\ Move(i, "running")
    \/ stages[i] = "pending" /\ Move(i, "skipped")
    \/ stages[i] = "running" /\ \E new \in Final : Move(i, new)

Conclude ==
    /\ status = "running"
    /\ \/ status' = "failed" /\ \E i \in 1..Len(stages) : Halted(i)
       \/ /\ \A i \in 1..Len(stages) : stages[i] \in Ended
          /\ status' = IF stages[Len(stages)] = "succeeded" THEN "succeeded" ELSE "failed"
    /\ UNCHANGED <<stages, stopping>>

Next == Create \/ Start \/ Conclude \/ \E i \in 1..Len(stages) : Advance(i)

Spec == Init /\ [][Next]_contractVars

================================================================================
