--------------------------- MODULE BackgroundRefresh ---------------------------
(***************************************************************************)
(* BackgroundRefreshCoordinator: one worker thread that reads, one timer   *)
(* of the Tk event loop that polls it, and at most one request kept for    *)
(* later.  The operators map a coordinator to the coordinator after one    *)
(* call; the callbacks belong to the module that uses them.                *)
(***************************************************************************)
EXTENDS Naturals

CONSTANT None      \* nothing

Coordinator(Request, Result) ==
    [future : {"none", "loading", "loaded", "failed"},   \* _future
     active : Request \cup {None},                        \* _active_request
     pending : Request \cup {None},                       \* _pending_request
     result : Result \cup {None},                         \* what the future holds
     polls : 0 .. 1]                                      \* calls of _poll that are scheduled

(* __init__, and also what is left after close.                            *)
IdleCoordinator ==
    [future |-> "none", active |-> None, pending |-> None, result |-> None, polls |-> 0]

(* _start: submit the load and schedule a poll.                            *)
Started(c, q) ==
    [future |-> "loading", active |-> q, pending |-> c.pending, result |-> None,
     polls |-> c.polls + 1]

(* request: start, or replace whatever waits.                              *)
Requested(c, q) ==
    IF c.future = "none" THEN Started(c, q)
    ELSE [future |-> c.future, active |-> c.active, pending |-> q, result |-> c.result,
          polls |-> c.polls]

(* The worker thread ends the load.                                        *)
Ended(c, future, result) ==
    [future |-> future, active |-> c.active, pending |-> c.pending, result |-> result,
     polls |-> c.polls]

(* Variant: a load that is not done is not polled again.                   *)
PolledOnce(c) ==
    [future |-> c.future, active |-> c.active, pending |-> c.pending, result |-> c.result,
     polls |-> c.polls - 1]

(* _poll of a load that is not done schedules itself again.                *)
PolledAgain(c) == c

IsDone(c) == c.polls > 0 /\ c.future \in {"loaded", "failed"}

(* _poll of a load that is done: the coordinator is free, and what waited  *)
(* is a local variable, while the callback runs.                           *)
Taken(c) ==
    [future |-> "none", active |-> None, pending |-> None, result |-> None,
     polls |-> c.polls - 1]

(* Variant: what waited is started whether or not a load is under way.     *)
ResumedRegardless(c, waiting) ==
    IF waiting # None THEN Started(c, waiting) ELSE c

(* Variant: what waited is forgotten.                                      *)
ResumedNever(c, waiting) == c

(* _poll after the callback: start what waited, unless the callback has    *)
(* started another load.                                                   *)
Resumed(c, waiting) ==
    IF waiting # None /\ c.future = "none" THEN Started(c, waiting) ELSE c
=============================================================================
