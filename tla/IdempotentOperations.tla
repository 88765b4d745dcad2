-------------------------- MODULE IdempotentOperations --------------------------
(***************************************************************************)
(* The operations that create a Run -- HarnessService.run, resume and      *)
(* handoff -- called with a retry token by any number of processes at      *)
(* once, which may die at any step and try again.  The state is what they  *)
(* share through the workspace: the advisory lock and the binding file of  *)
(* each key (IdempotencyStore), the plan and record of the Run that bears  *)
(* the key's identity, and the handoff records.                            *)
(*                                                                         *)
(* An operation without a token allocates an identity of its own and       *)
(* shares no file with the others, so it is left out.  What happens to a   *)
(* Run between its launch and its end is the subject of RunLifecycle.      *)
(***************************************************************************)
EXTENDS Naturals, FiniteSets

CONSTANTS
    Callers,     \* processes that call the operations, one call at a time
    Tokens,      \* the retry tokens callers choose
    RunScopes,   \* the namespaces a token given to run may happen to spell
    Bodies,      \* what a call asks for, apart from its token
    Contents,    \* versions of the source artifact of a handoff
    Crashable    \* callers that may die at any step

Scopes == {"plain", "resume", "handoff", "handoff-target"}

ASSUME ScopeAssumption == RunScopes \subseteq Scopes

VARIABLES
    lock,        \* lock[k]: the callers that hold the flock of key k
    bindings,    \* bindings[k]: the request in the binding file of k, or None
    plans,       \* plans[k]: the request in plan.json of the Run of k, or None
    status,      \* status[k]: the status in run.json of the Run of k
    launches,    \* launches[k]: native processes started for the Run of k
    handoffs,    \* handoffs[t]: the source digest in the handoff record of t
    content,     \* the source artifact on disk
    session,     \* the source Run's record carries a provider session id
    pc,          \* pc[c]: where caller c is
    job,         \* job[c]: the call c makes, or NoJob
    nested,      \* nested[c]: c is a handoff, and inside its call of run
    digest,      \* digest[c]: the digest select_handoff_artifact returned
    text,        \* text[c]: what read_handoff_text returned
    answered     \* the calls that have returned a Run, ever

fileVars   == <<bindings, plans, status, launches, handoffs>>
sourceVars == <<content, session>>
localVars  == <<digest, text>>

vars == <<lock, fileVars, sourceVars, pc, job, nested, localVars, answered>>

-----------------------------------------------------------------------------
(***************************************************************************)
(* Keys, requests and jobs.                                                *)
(***************************************************************************)
Operation == {"run", "resume", "handoff"}

\* _operation_idempotency_key prefixes the token with the operation, except for run,
\* whose token is the key.  The key of the Run inside a handoff gets a prefix too.
Key == [scope : Scopes, token : Tokens]

TargetKey(t) == [scope |-> "handoff-target", token |-> t]

\* The objective of a handoff's target Run: the handoff's own objective, and the
\* digest and the text of the source artifact.
TargetBody == [objective : Bodies, digest : Contents, text : Contents]

Request == [op : Operation, body : Bodies \cup TargetBody]

None == [op |-> "none"]

\* A caller between two calls, and a file it has not read.
NoJob == [op |-> "none"]

Unread == "unread"

Job ==
    [key : [scope : RunScopes, token : Tokens], op : {"run"}, body : Bodies]
        \cup [key : [scope : {"resume"}, token : Tokens], op : {"resume"}, body : Bodies]
        \cup [key : [scope : {"handoff"}, token : Tokens], op : {"handoff"}, body : Bodies]

CallerPc == {"idle", "claim", "resolve", "select", "read", "plan", "initial", "bind",
             "launch", "running", "record", "bindHandoff"}

\* The key and the request that caller c works on now: a handoff inside its call of
\* run works on the target's.
CurrentKey(c) == IF nested[c] THEN TargetKey(job[c].key.token) ELSE job[c].key

CurrentRequest(c) ==
    IF nested[c]
    THEN [op |-> "run",
          body |-> [objective |-> job[c].body, digest |-> digest[c], text |-> text[c]]]
    ELSE [op |-> job[c].op, body |-> job[c].body]

\* The Run that a call returns.
ReturnedRun(j) == IF j.op = "handoff" THEN TargetKey(j.key.token) ELSE j.key

(***************************************************************************)
(* The shape of every variable.                                            *)
(***************************************************************************)
TypeOK ==
    /\ lock \in [Key -> SUBSET Callers]
    /\ bindings \in [Key -> Request \cup {None}]
    /\ plans \in [Key -> Request \cup {None}]
    /\ status \in [Key -> {"absent", "planned", "running", "ended"}]
    /\ launches \in [Key -> Nat]
    /\ handoffs \in [Tokens -> SUBSET Contents]
    /\ content \in Contents
    /\ session \in BOOLEAN
    /\ pc \in [Callers -> CallerPc]
    /\ job \in [Callers -> Job \cup {NoJob}]
    /\ nested \in [Callers -> BOOLEAN]
    /\ digest \in [Callers -> Contents \cup {Unread}]
    /\ text \in [Callers -> Contents \cup {Unread}]
    /\ answered \subseteq Job

\* An empty workspace with one source Run.
Init ==
    /\ lock = [k \in Key |-> {}]
    /\ bindings = [k \in Key |-> None]
    /\ plans = [k \in Key |-> None]
    /\ status = [k \in Key |-> "absent"]
    /\ launches = [k \in Key |-> 0]
    /\ handoffs = [t \in Tokens |-> {}]
    /\ content \in Contents
    /\ session = FALSE
    /\ pc = [c \in Callers |-> "idle"]
    /\ job = [c \in Callers |-> NoJob]
    /\ nested = [c \in Callers |-> FALSE]
    /\ digest = [c \in Callers |-> Unread]
    /\ text = [c \in Callers |-> Unread]
    /\ answered = {}

-----------------------------------------------------------------------------
(***************************************************************************)
(* The source Run of a resume or a handoff.                                *)
(***************************************************************************)
\* Its provider, or anybody with access to the workspace, writes the artifact: the
\* source need not have ended when it is handed off.
SourceWrites ==
    /\ content' \in Contents
    /\ UNCHANGED <<lock, fileVars, session, pc, job, nested, localVars, answered>>

\* Its terminal record publishes the session id the provider printed.
SourceConcludes ==
    /\ session' = TRUE
    /\ UNCHANGED <<lock, fileVars, content, pc, job, nested, localVars, answered>>

-----------------------------------------------------------------------------
(***************************************************************************)
(* One call.  Leaving the two `with` blocks by return or by exception      *)
(* releases whatever the caller holds, and so does its death.              *)
(***************************************************************************)
Goto(c, place) == pc' = [pc EXCEPT ![c] = place]

Released(c) == [k \in Key |-> lock[k] \ {c}]

\* The call is over, by an exception or by the death of the caller.
Leave(c) ==
    /\ lock' = Released(c)
    /\ Goto(c, "idle")
    /\ job' = [job EXCEPT ![c] = NoJob]
    /\ nested' = [nested EXCEPT ![c] = FALSE]
    /\ digest' = [digest EXCEPT ![c] = Unread]
    /\ text' = [text EXCEPT ![c] = Unread]

Raise(c) == Leave(c) /\ UNCHANGED answered

ReturnRun(c) == Leave(c) /\ answered' = answered \cup {job[c]}

\* run returns to the handoff that called it, which still holds its own lock.
ReturnToHandoff(c, place) ==
    /\ lock' = [lock EXCEPT ![CurrentKey(c)] = @ \ {c}]
    /\ Goto(c, place)
    /\ nested' = [nested EXCEPT ![c] = FALSE]
    /\ UNCHANGED <<job, localVars, answered>>

Call(c) ==
    /\ pc[c] = "idle"
    /\ \E j \in Job : job' = [job EXCEPT ![c] = j]
    /\ Goto(c, "claim")
    /\ UNCHANGED <<lock, fileVars, sourceVars, nested, localVars, answered>>

\* Variant: a shared flock, which two callers may hold at once.
ClaimShared(c) ==
    /\ pc[c] = "claim"
    /\ lock' = [lock EXCEPT ![CurrentKey(c)] = @ \cup {c}]
    /\ Goto(c, "resolve")
    /\ UNCHANGED <<fileVars, sourceVars, job, nested, localVars, answered>>

Claim(c) ==
    /\ pc[c] = "claim"
    /\ lock[CurrentKey(c)] = {}
    /\ lock' = [lock EXCEPT ![CurrentKey(c)] = {c}]
    /\ Goto(c, "resolve")
    /\ UNCHANGED <<fileVars, sourceVars, job, nested, localVars, answered>>

\* Ten seconds of polling a lock somebody else holds: IdempotencyLockTimeoutError.
ClaimTimesOut(c) ==
    /\ pc[c] = "claim"
    /\ lock[CurrentKey(c)] # {}
    /\ Raise(c)
    /\ UNCHANGED <<fileVars, sourceVars>>

\* Variant: a Run that is bound and still planned is planned and launched again.
ResolvePlannedAgain(c) ==
    /\ pc[c] = "resolve"
    /\ bindings[CurrentKey(c)] = None \/ status[CurrentKey(c)] = "planned"
    /\ Goto(c, IF CurrentRequest(c).op = "handoff" THEN "select" ELSE "plan")
    /\ UNCHANGED <<lock, fileVars, sourceVars, job, nested, localVars, answered>>

\* resolve_idempotent_record finds no binding.
ResolveUnbound(c) ==
    /\ pc[c] = "resolve"
    /\ bindings[CurrentKey(c)] = None
    /\ Goto(c, IF CurrentRequest(c).op = "handoff" THEN "select" ELSE "plan")
    /\ UNCHANGED <<lock, fileVars, sourceVars, job, nested, localVars, answered>>

\* The key is bound to another request: IdempotencyConflictError.
ResolveConflict(c) ==
    /\ pc[c] = "resolve"
    /\ bindings[CurrentKey(c)] \notin {None, CurrentRequest(c)}
    /\ Raise(c)
    /\ UNCHANGED <<fileVars, sourceVars>>

\* Variants of ResolveReplay: any binding is replayed; and a handoff that finds its
\* target Run goes on as if its own record were there too.
ResolveReplayAny(c) ==
    /\ pc[c] = "resolve"
    /\ bindings[CurrentKey(c)] # None
    /\ IF nested[c] THEN ReturnToHandoff(c, "record") ELSE ReturnRun(c)
    /\ UNCHANGED <<fileVars, sourceVars>>

ResolveReplaySkipping(c) ==
    /\ pc[c] = "resolve"
    /\ bindings[CurrentKey(c)] = CurrentRequest(c)
    /\ IF nested[c] THEN ReturnToHandoff(c, "bindHandoff") ELSE ReturnRun(c)
    /\ UNCHANGED <<fileVars, sourceVars>>

\* The key is bound to this request: the recorded Run is the result.  Inside a
\* handoff only the lock of the target's key is released.
ResolveReplay(c) ==
    /\ pc[c] = "resolve"
    /\ bindings[CurrentKey(c)] = CurrentRequest(c)
    /\ IF nested[c] THEN ReturnToHandoff(c, "record") ELSE ReturnRun(c)
    /\ UNCHANGED <<fileVars, sourceVars>>

\* build_execution_plan and build_resume_plan raise when the provider is not installed;
\* resume also when its source has no session id.
PlanRefused(c) ==
    /\ pc[c] = "plan"
    /\ Raise(c)
    /\ UNCHANGED <<fileVars, sourceVars>>

WritePlan(c) ==
    /\ pc[c] = "plan" /\ (CurrentRequest(c).op = "resume" => session)
    /\ plans' = [plans EXCEPT ![CurrentKey(c)] = CurrentRequest(c)]
    /\ Goto(c, "initial")
    /\ UNCHANGED <<lock, bindings, status, launches, handoffs, sourceVars, job, nested,
                   localVars, answered>>

WriteInitialRecord(c) ==
    /\ pc[c] = "initial"
    /\ status' = [status EXCEPT ![CurrentKey(c)] = "planned"]
    /\ Goto(c, "bind")
    /\ UNCHANGED <<lock, bindings, plans, launches, handoffs, sourceVars, job, nested,
                   localVars, answered>>

\* IdempotencyStore.bind, and the end of the claim: the Run is executed outside it.
Bind(c) ==
    /\ pc[c] = "bind"
    /\ bindings' = [bindings EXCEPT ![CurrentKey(c)] = CurrentRequest(c)]
    /\ lock' = [lock EXCEPT ![CurrentKey(c)] = {}]
    /\ Goto(c, "launch")
    /\ UNCHANGED <<plans, status, launches, handoffs, sourceVars, job, nested,
                   localVars, answered>>

Launch(c) ==
    /\ pc[c] = "launch"
    /\ launches' = [launches EXCEPT ![CurrentKey(c)] = @ + 1]
    /\ status' = [status EXCEPT ![CurrentKey(c)] = "running"]
    /\ Goto(c, "running")
    /\ UNCHANGED <<lock, bindings, plans, handoffs, sourceVars, job, nested, localVars,
                   answered>>

\* The executor returns: the native process has ended, or could not be started.
Finish(c) ==
    /\ pc[c] \in {"launch", "running"}
    /\ status' = [status EXCEPT ![CurrentKey(c)] = "ended"]
    /\ IF nested[c] THEN ReturnToHandoff(c, "record") ELSE ReturnRun(c)
    /\ UNCHANGED <<bindings, plans, launches, handoffs, sourceVars>>

\* select_handoff_artifact collects the source's artifacts and their digests.
SelectArtifact(c) ==
    /\ pc[c] = "select"
    /\ digest' = [digest EXCEPT ![c] = content]
    /\ Goto(c, "read")
    /\ UNCHANGED <<lock, fileVars, sourceVars, job, nested, text, answered>>

\* read_handoff_text opens the file again, and the target Run is requested.
ReadText(c) ==
    /\ pc[c] = "read"
    /\ text' = [text EXCEPT ![c] = content]
    /\ nested' = [nested EXCEPT ![c] = TRUE]
    /\ Goto(c, "claim")
    /\ UNCHANGED <<lock, fileVars, sourceVars, job, digest, answered>>

\* The source and the target have the same provider, or the artifact is not there,
\* empty, or not UTF-8 text.
SourceRefused(c) ==
    /\ pc[c] \in {"select", "read"}
    /\ Raise(c)
    /\ UNCHANGED <<fileVars, sourceVars>>

\* Variant: the handoff record describes the artifact as it is now.
WriteHandoffRehashed(c) ==
    /\ pc[c] = "record"
    /\ handoffs' = [handoffs EXCEPT ![job[c].key.token] = {content}]
    /\ Goto(c, "bindHandoff")
    /\ UNCHANGED <<lock, bindings, plans, status, launches, sourceVars, job, nested,
                   localVars, answered>>

WriteHandoff(c) ==
    /\ pc[c] = "record"
    /\ handoffs' = [handoffs EXCEPT ![job[c].key.token] = {digest[c]}]
    /\ Goto(c, "bindHandoff")
    /\ UNCHANGED <<lock, bindings, plans, status, launches, sourceVars, job, nested,
                   localVars, answered>>

BindHandoff(c) ==
    /\ pc[c] = "bindHandoff"
    /\ bindings' = [bindings EXCEPT ![CurrentKey(c)] = CurrentRequest(c)]
    /\ ReturnRun(c)
    /\ UNCHANGED <<plans, status, launches, handoffs, sourceVars>>

\* The caller dies, and the kernel drops its locks.
Crash(c) ==
    /\ c \in Crashable
    /\ pc[c] # "idle"
    /\ Raise(c)
    /\ UNCHANGED <<fileVars, sourceVars>>

\* What a call does by itself, once made.
Step(c) ==
    \/ Claim(c) \/ ClaimTimesOut(c)
    \/ ResolveUnbound(c) \/ ResolveConflict(c) \/ ResolveReplay(c)
    \/ PlanRefused(c) \/ WritePlan(c) \/ WriteInitialRecord(c) \/ Bind(c)
    \/ Launch(c) \/ Finish(c)
    \/ SourceRefused(c) \/ SelectArtifact(c) \/ ReadText(c)
    \/ WriteHandoff(c) \/ BindHandoff(c)

Next ==
    \/ SourceWrites \/ SourceConcludes
    \/ \E c \in Callers : Call(c) \/ Step(c) \/ Crash(c)

Spec == Init /\ [][Next]_vars

-----------------------------------------------------------------------------
(***************************************************************************)
(* Safety.                                                                 *)
(***************************************************************************)
\* What was launched is what the key was bound to, and stays readable: no retry, with
\* this request or another one, replaces the plan of a Run that was ever launched.
LaunchedAsPlanned ==
    \A k \in Key : launches[k] > 0 => plans[k] = bindings[k] /\ plans[k] # None

\* The Run that a call returned was planned for that very call: a token reused for
\* something else fails closed, whatever crashed or raced before.
ReplayIsFaithful ==
    \A j \in answered :
        LET planned == plans[ReturnedRun(j)] IN
        IF j.op = "handoff"
        THEN planned \in [op : {"run"}, body : TargetBody] /\ planned.body.objective = j.body
        ELSE planned = [op |-> j.op, body |-> j.body]

\* A handoff record names the digest its target Run was told, even when the handoff
\* that launched the target and the retry that records it saw different sources.
ProvenanceMatches ==
    \A t \in Tokens : \A d \in handoffs[t] :
        /\ bindings[TargetKey(t)] \in [op : {"run"}, body : TargetBody]
        /\ bindings[TargetKey(t)].body.digest = d
        /\ plans[TargetKey(t)] = bindings[TargetKey(t)]

\* Whoever finds its request bound finds the files it returns: the Run's record and,
\* for a handoff, the handoff record and the target Run.
ReplayFindsItsFiles ==
    \A k \in Key : bindings[k] # None =>
        IF bindings[k].op = "handoff"
        THEN handoffs[k.token] # {} /\ status[TargetKey(k.token)] # "absent"
        ELSE status[k] # "absent"

\* Provenance, once recorded, is never rewritten to something else.
ProvenanceIsStable ==
    [][ \A t \in Tokens : handoffs[t] # {} => handoffs'[t] = handoffs[t] ]_vars

(***************************************************************************)
(* IdempotentOperations implements OnceContract: a key is decided by its   *)
(* binding file.                                                           *)
(***************************************************************************)
Once == INSTANCE OnceContract WITH decided <- bindings

ImplementsOnce == Once!Spec

================================================================================
