------------------------------ MODULE OnceContract ------------------------------
(***************************************************************************)
(* What a retry token promises: the abstract specification that            *)
(* IdempotentOperations implements.  A key is decided at most once, for    *)
(* one request, and the Run that carries its identity is launched at most  *)
(* once and only for the request that was decided.                         *)
(***************************************************************************)
EXTENDS Naturals

CONSTANTS
    Key,        \* retry tokens, in the namespace of their operation
    Request,    \* what an operation may be asked to do
    None        \* no request

VARIABLES
    decided,    \* decided[k]: the request k stands for, or None
    launches    \* launches[k]: native processes started for the Run of k

onceVars == <<decided, launches>>

Init ==
    /\ decided = [k \in Key |-> None]
    /\ launches = [k \in Key |-> 0]

Decide(k) ==
    /\ decided[k] = None
    /\ decided'[k] \in Request
    /\ decided' = [decided EXCEPT ![k] = decided'[k]]
    /\ UNCHANGED launches

Launch(k) ==
    /\ decided[k] # None
    /\ launches[k] = 0
    /\ launches' = [launches EXCEPT ![k] = 1]
    /\ UNCHANGED decided

Next == \E k \in Key : Decide(k) \/ Launch(k)

Spec == Init /\ [][Next]_onceVars

================================================================================
