---------------------- MODULE IdempotentOperationsProofs ----------------------
(***************************************************************************)
(* Theorems about IdempotentOperations, for every set of callers, tokens,  *)
(* requests and artifact contents, and whoever may crash.                  *)
(***************************************************************************)
EXTENDS IdempotentOperations, TLAPS

-----------------------------------------------------------------------------
(***************************************************************************)
(* The inductive invariant, in named parts.                                *)
(***************************************************************************)
\* Where a call of run or resume may be, inside a handoff or on its own, and where a
\* handoff itself may be.
RunPlaces == {"claim", "resolve", "plan", "initial", "bind", "launch", "running"}

HandoffOnly == {"select", "read", "record", "bindHandoff"}

HandoffPlaces == {"claim", "resolve"} \cup HandoffOnly

\* The code between claiming a key and binding it.
Planning == {"plan", "initial", "bind"}

Critical == {"resolve"} \cup Planning

\* A caller is between two calls, or in a place its operation goes through, with what
\* it has read so far.
InPlace(c) ==
    /\ pc[c] = "idle" <=> job[c] = NoJob
    /\ nested[c] => job[c].op = "handoff" /\ pc[c] \in RunPlaces
    /\ job[c].op = "handoff" /\ ~nested[c] => pc[c] \in HandoffPlaces
    /\ job[c].op \in {"run", "resume"} => pc[c] \in RunPlaces
    /\ pc[c] \in {"read", "record", "bindHandoff"} \/ nested[c] => digest[c] \in Contents
    /\ pc[c] \in {"record", "bindHandoff"} \/ nested[c] => text[c] \in Contents

JobInv == \A c \in Callers : InPlace(c)

\* The keys whose lock a caller holds: its own in the critical section, and a handoff
\* also while it runs its target.
Holds(c, k) ==
    \/ k = CurrentKey(c) /\ pc[c] \in Critical \cup HandoffOnly
    \/ k = job[c].key /\ nested[c]

LockInv ==
    /\ \A k \in Key : \A c \in Callers : pc[c] # "idle" => (c \in lock[k] <=> Holds(c, k))
    /\ \A k \in Key : \A c \in lock[k] : pc[c] # "idle"
    /\ \A k \in Key : \A c, d \in lock[k] : c = d

\* The target's request, as the handoff of caller c built it.
BuiltRequest(c) ==
    [op |-> "run",
     body |-> [objective |-> job[c].body, digest |-> digest[c], text |-> text[c]]]

\* What a caller in the middle of an operation knows about the key it works on, and a
\* handoff about its own key and about its target's.
Knows(c) ==
    /\ pc[c] \in Planning => bindings[CurrentKey(c)] = None
    /\ pc[c] \in {"initial", "bind"} => plans[CurrentKey(c)] = CurrentRequest(c)
    /\ pc[c] = "bind" => status[CurrentKey(c)] # "absent"
    /\ pc[c] \in {"launch", "running"} => bindings[CurrentKey(c)] = CurrentRequest(c)
    /\ pc[c] = "launch" => launches[CurrentKey(c)] = 0
    /\ pc[c] \in HandoffOnly \/ nested[c] => bindings[job[c].key] = None
    /\ pc[c] \in {"record", "bindHandoff"}
          => bindings[TargetKey(job[c].key.token)] = BuiltRequest(c)
    /\ pc[c] = "bindHandoff" => handoffs[job[c].key.token] = {digest[c]}

CallerInv == \A c \in Callers : Knows(c)

\* Only one caller has the right to launch the Run of a key.
LaunchInv ==
    \A c, d \in Callers :
        pc[c] = "launch" /\ pc[d] = "launch" /\ CurrentKey(c) = CurrentKey(d) => c = d

\* What a binding file says about the other files of its key.
BindingInv ==
    \A k \in Key :
        /\ bindings[k] = None => launches[k] = 0
        /\ bindings[k] # None /\ bindings[k].op # "handoff"
              => plans[k] = bindings[k] /\ status[k] # "absent"
        /\ bindings[k].op = "handoff" =>
              /\ k.scope = "handoff" /\ launches[k] = 0
              /\ handoffs[k.token] # {}
              /\ bindings[TargetKey(k.token)].op = "run"
              /\ bindings[TargetKey(k.token)].body \in TargetBody
              /\ bindings[TargetKey(k.token)].body.objective = bindings[k].body

\* Whatever call ever returned a Run, its key is bound to its request.
AnswerInv == \A j \in answered : bindings[j.key] = [op |-> j.op, body |-> j.body]

IInv == TypeOK /\ JobInv /\ LockInv /\ CallerInv /\ LaunchInv /\ BindingInv
           /\ ProvenanceMatches /\ AnswerInv

-----------------------------------------------------------------------------
(***************************************************************************)
(* Facts about one caller, and about two.                                  *)
(***************************************************************************)
\* The key a caller at work uses, and its request, in each of the two places a call of
\* run can come from.
LEMMA AtWork ==
    ASSUME TypeOK, JobInv, NEW c \in Callers, pc[c] # "idle"
    PROVE  /\ job[c] \in Job /\ job[c].key \in Key
           /\ CurrentKey(c) \in Key
           /\ nested[c] => /\ CurrentRequest(c) = BuiltRequest(c)
                           /\ CurrentKey(c) = TargetKey(job[c].key.token)
                           /\ job[c].op = "handoff"
           /\ ~nested[c] => /\ CurrentRequest(c) = [op |-> job[c].op, body |-> job[c].body]
                            /\ CurrentKey(c) = job[c].key
           /\ job[c].op = "handoff"
                 => job[c].key = [scope |-> "handoff", token |-> job[c].key.token]
           /\ job[c].op \in Operation /\ job[c].body \in Bodies
           /\ CurrentRequest(c) \in Request /\ CurrentRequest(c) # None
<1>1. job[c] \in Job
  BY DEF TypeOK, JobInv, InPlace
<1>2. job[c].key \in Key /\ job[c].op \in Operation /\ job[c].body \in Bodies
  BY <1>1, ScopeAssumption DEF Job, Key, Scopes, Operation
<1>3. job[c].op = "handoff" => job[c].key = [scope |-> "handoff", token |-> job[c].key.token]
  BY <1>1, ScopeAssumption DEF Job
<1>4. CurrentKey(c) \in Key
  BY <1>2 DEF CurrentKey, TargetKey, Key, Scopes
<1>5. CASE nested[c]
  <2>1. digest[c] \in Contents /\ text[c] \in Contents /\ job[c].op = "handoff"
    BY <1>5 DEF JobInv, InPlace
  <2> QED
    BY <1>1, <1>2, <1>3, <1>4, <1>5, <2>1
       DEF CurrentKey, CurrentRequest, BuiltRequest, Request, Operation, TargetBody, None
<1>6. CASE ~nested[c]
  BY <1>1, <1>2, <1>3, <1>4, <1>6 DEF CurrentKey, CurrentRequest, Request, Operation, None
<1> QED
  BY <1>5, <1>6

\* A handoff's own key is not its target's.
LEMMA TargetDiffers ==
    ASSUME TypeOK, JobInv, NEW c \in Callers, pc[c] # "idle", nested[c]
    PROVE  job[c].key # CurrentKey(c)
<1>1. job[c].key = [scope |-> "handoff", token |-> job[c].key.token]
  BY AtWork
<1>2. CurrentKey(c) = TargetKey(job[c].key.token)
  BY AtWork
<1>3. job[c].key.scope = "handoff"
  BY <1>1
<1>4. TargetKey(job[c].key.token).scope = "handoff-target"
  BY DEF TargetKey
<1> QED
  BY <1>2, <1>3, <1>4

\* Two callers at work never hold the lock of the same key.
LEMMA Exclusive ==
    ASSUME LockInv, NEW k \in Key, NEW c \in Callers, NEW d \in Callers,
           pc[c] # "idle", pc[d] # "idle", Holds(c, k), Holds(d, k)
    PROVE  c = d
<1>1. c \in lock[k] /\ d \in lock[k]
  BY DEF LockInv
<1> QED
  BY <1>1 DEF LockInv

\* The places in which a caller holds the lock of the key it works on.
LEMMA WorkerHolds ==
    ASSUME NEW c, pc[c] \in Critical \cup HandoffOnly
    PROVE  Holds(c, CurrentKey(c)) /\ pc[c] # "idle"
  BY DEF Holds, Critical, Planning, HandoffOnly

\* A handoff holds the lock of its own key from its claim to its end.
LEMMA HandoffHolds ==
    ASSUME TypeOK, JobInv, NEW c \in Callers, pc[c] \in HandoffOnly \/ nested[c]
    PROVE  /\ Holds(c, job[c].key) /\ pc[c] # "idle" /\ job[c].op = "handoff"
           /\ ~nested[c] => CurrentKey(c) = job[c].key
<1>1. pc[c] # "idle"
  BY DEF JobInv, InPlace, HandoffOnly, RunPlaces
<1>2. job[c].op = "handoff"
  BY <1>1, AtWork DEF JobInv, InPlace, HandoffOnly, RunPlaces, Operation
<1> QED
  BY <1>1, <1>2, AtWork DEF Holds

\* A step of one caller leaves what another one is doing alone.
LEMMA OthersKeep ==
    ASSUME TypeOK, NEW c \in Callers, Call(c) \/ Step(c) \/ Crash(c),
           NEW d \in Callers, d # c
    PROVE  /\ pc'[d] = pc[d] /\ job'[d] = job[d] /\ nested'[d] = nested[d]
           /\ digest'[d] = digest[d] /\ text'[d] = text[d]
           /\ CurrentKey(d)' = CurrentKey(d)
           /\ CurrentRequest(d)' = CurrentRequest(d)
           /\ BuiltRequest(d)' = BuiltRequest(d)
<1>1. /\ pc'[d] = pc[d] /\ job'[d] = job[d] /\ nested'[d] = nested[d]
      /\ digest'[d] = digest[d] /\ text'[d] = text[d]
  <2> USE DEF TypeOK, localVars, Goto, Leave, Raise, ReturnRun, ReturnToHandoff
  <2>1. CASE Call(c) \/ Claim(c) \/ ResolveUnbound(c) \/ WritePlan(c)
              \/ WriteInitialRecord(c) \/ Bind(c) \/ Launch(c) \/ SelectArtifact(c)
              \/ ReadText(c) \/ WriteHandoff(c)
    BY <2>1 DEF Call, Claim, ResolveUnbound, WritePlan, WriteInitialRecord, Bind, Launch,
                SelectArtifact, ReadText, WriteHandoff
  <2>2. CASE ClaimTimesOut(c) \/ ResolveConflict(c) \/ PlanRefused(c) \/ SourceRefused(c)
            \/ Crash(c)
              \/ BindHandoff(c) \/ ResolveReplay(c) \/ Finish(c)
    BY <2>2 DEF ClaimTimesOut, ResolveConflict, PlanRefused, SourceRefused, Crash, BindHandoff,
                ResolveReplay, Finish
  <2> QED
    BY <2>1, <2>2 DEF Step
<1> QED
  BY <1>1 DEF CurrentKey, CurrentRequest, BuiltRequest

\* What a step of one caller does to the files: each is written in one place, for the
\* key or the token the caller works on.
LEMMA FileEffects ==
    ASSUME NEW c \in Callers, Call(c) \/ Step(c) \/ Crash(c)
    PROVE  /\ \/ bindings' = bindings
              \/ /\ pc[c] \in {"bind", "bindHandoff"}
                 /\ bindings' = [bindings EXCEPT ![CurrentKey(c)] = CurrentRequest(c)]
           /\ \/ plans' = plans
              \/ pc[c] = "plan" /\ plans' = [plans EXCEPT ![CurrentKey(c)] = CurrentRequest(c)]
           /\ \/ status' = status
              \/ /\ pc[c] \in {"initial", "launch", "running"}
                 /\ \E s \in {"planned", "running", "ended"} :
                       status' = [status EXCEPT ![CurrentKey(c)] = s]
           /\ \/ launches' = launches
              \/ pc[c] = "launch" /\ launches' = [launches EXCEPT ![CurrentKey(c)] = @ + 1]
           /\ \/ handoffs' = handoffs
              \/ pc[c] = "record" /\ handoffs' = [handoffs EXCEPT
                                        ![job[c].key.token] = {digest[c]}]
<1> USE DEF fileVars
<1>1. CASE Call(c) \/ Claim(c) \/ ResolveUnbound(c) \/ SelectArtifact(c) \/ ReadText(c)
            \/ ClaimTimesOut(c) \/ ResolveConflict(c) \/ PlanRefused(c)
                      \/ SourceRefused(c) \/ Crash(c)
            \/ ResolveReplay(c)
  BY <1>1 DEF Call, Claim, ResolveUnbound, SelectArtifact, ReadText, ClaimTimesOut,
              ResolveConflict, PlanRefused, SourceRefused, Crash, ResolveReplay
<1>2. CASE WritePlan(c)
  BY <1>2 DEF WritePlan
<1>3. CASE WriteInitialRecord(c)
  BY <1>3 DEF WriteInitialRecord
<1>4. CASE Bind(c) \/ BindHandoff(c)
  BY <1>4 DEF Bind, BindHandoff
<1>5. CASE Launch(c)
  BY <1>5 DEF Launch
<1>6. CASE Finish(c)
  BY <1>6 DEF Finish
<1>7. CASE WriteHandoff(c)
  BY <1>7 DEF WriteHandoff
<1> QED
  BY <1>1, <1>2, <1>3, <1>4, <1>5, <1>6, <1>7 DEF Step

\* A binding is only ever written where there was none.
LEMMA BindingsGrow ==
    ASSUME TypeOK, JobInv, CallerInv, NEW c \in Callers, Call(c) \/ Step(c) \/ Crash(c),
           NEW k \in Key, bindings[k] # None
    PROVE  bindings'[k] = bindings[k]
<1>1. CASE pc[c] = "bind"
  BY <1>1, FileEffects DEF CallerInv, Knows, Planning, TypeOK
<1>2. CASE pc[c] = "bindHandoff"
  <2>1. CurrentKey(c) = job[c].key /\ bindings[job[c].key] = None
    BY <1>2, HandoffHolds DEF CallerInv, Knows, HandoffOnly, JobInv, InPlace, RunPlaces
  <2> QED
    BY <1>2, <2>1, FileEffects DEF TypeOK
<1> QED
  BY <1>1, <1>2, FileEffects

-----------------------------------------------------------------------------
(***************************************************************************)
(* Each part of the invariant is preserved by every step.                  *)
(***************************************************************************)
\* The files keep their shape.
LEMMA FilesTyped ==
    ASSUME TypeOK, JobInv, NEW c \in Callers, Call(c) \/ Step(c) \/ Crash(c)
    PROVE  /\ bindings' \in [Key -> Request \cup {None}]
           /\ plans' \in [Key -> Request \cup {None}]
           /\ status' \in [Key -> {"absent", "planned", "running", "ended"}]
           /\ launches' \in [Key -> Nat]
           /\ handoffs' \in [Tokens -> SUBSET Contents]
<1>1. pc[c] # "idle" => CurrentKey(c) \in Key /\ CurrentRequest(c) \in Request
  BY AtWork
<1>2. bindings' \in [Key -> Request \cup {None}]
  BY <1>1, FileEffects DEF TypeOK
<1>3. plans' \in [Key -> Request \cup {None}]
  BY <1>1, FileEffects DEF TypeOK
<1>4. status' \in [Key -> {"absent", "planned", "running", "ended"}]
  BY <1>1, FileEffects DEF TypeOK
<1>5. launches' \in [Key -> Nat]
  BY <1>1, FileEffects DEF TypeOK
<1>6. pc[c] = "record" => digest[c] \in Contents
  BY DEF JobInv, InPlace
<1>7. handoffs' \in [Tokens -> SUBSET Contents]
  BY <1>6, FileEffects DEF TypeOK
<1> QED
  BY <1>2, <1>3, <1>4, <1>5, <1>7

\* So does what callers hold and remember.
LEMMA CallersTyped ==
    ASSUME TypeOK, JobInv, NEW c \in Callers, Call(c) \/ Step(c) \/ Crash(c)
    PROVE  /\ lock' \in [Key -> SUBSET Callers]
           /\ pc' \in [Callers -> CallerPc]
           /\ job' \in [Callers -> Job \cup {NoJob}]
           /\ nested' \in [Callers -> BOOLEAN]
           /\ digest' \in [Callers -> Contents \cup {Unread}]
           /\ text' \in [Callers -> Contents \cup {Unread}]
           /\ answered' \subseteq Job
<1> USE DEF TypeOK, CallerPc, localVars, sourceVars, Goto
<1>1. CASE Call(c)
  BY <1>1 DEF Call
<1>2. CASE Claim(c)
  BY <1>2, AtWork DEF Claim
<1>3. CASE \/ ResolveUnbound(c) \/ WritePlan(c) \/ WriteInitialRecord(c) \/ Launch(c)
           \/ SelectArtifact(c) \/ WriteHandoff(c)
  BY <1>3 DEF ResolveUnbound, WritePlan, WriteInitialRecord, Launch, SelectArtifact,
              WriteHandoff
<1>4. CASE Bind(c)
  BY <1>4, AtWork DEF Bind
<1>5. CASE ReadText(c)
  BY <1>5 DEF ReadText
<1>6. ASSUME Leave(c), answered' \in {answered, answered \cup {job[c]}}, pc[c] # "idle"
      PROVE  /\ lock' \in [Key -> SUBSET Callers]
             /\ pc' \in [Callers -> CallerPc]
             /\ job' \in [Callers -> Job \cup {NoJob}]
             /\ nested' \in [Callers -> BOOLEAN]
             /\ digest' \in [Callers -> Contents \cup {Unread}]
             /\ text' \in [Callers -> Contents \cup {Unread}]
             /\ answered' \subseteq Job
  BY <1>6, AtWork DEF Leave, Released
<1>7. ASSUME ReturnToHandoff(c, "record"), pc[c] # "idle"
      PROVE  /\ lock' \in [Key -> SUBSET Callers]
             /\ pc' \in [Callers -> CallerPc]
             /\ nested' \in [Callers -> BOOLEAN]
             /\ UNCHANGED <<job, digest, text, answered>>
  BY <1>7, AtWork DEF ReturnToHandoff
<1>8. CASE ClaimTimesOut(c) \/ ResolveConflict(c) \/ PlanRefused(c) \/ SourceRefused(c)
          \/ Crash(c)
            \/ BindHandoff(c)
  BY <1>6, <1>8 DEF ClaimTimesOut, ResolveConflict, PlanRefused, SourceRefused, Crash,
            BindHandoff, Raise,
                    ReturnRun
<1>9. CASE ResolveReplay(c) \/ Finish(c)
  BY <1>6, <1>7, <1>9 DEF ResolveReplay, Finish, ReturnRun
<1> QED
  BY <1>1, <1>2, <1>3, <1>4, <1>5, <1>8, <1>9 DEF Step

\* Every variable keeps its shape: the two lemmas above, put together.
LEMMA TypeStep ==
    ASSUME TypeOK, JobInv, [Next]_vars
    PROVE  TypeOK'
<1>1. CASE SourceWrites \/ SourceConcludes \/ UNCHANGED vars
  BY <1>1 DEF SourceWrites, SourceConcludes, vars, fileVars, sourceVars, localVars, TypeOK
<1>2. ASSUME NEW c \in Callers, Call(c) \/ Step(c) \/ Crash(c)
      PROVE  TypeOK'
  <2>1. UNCHANGED sourceVars
    BY <1>2 DEF Call, Step, Crash, Claim, ClaimTimesOut, ResolveUnbound, ResolveConflict,
                ResolveReplay, PlanRefused, SourceRefused, WritePlan, WriteInitialRecord,
                          Bind, Launch,
                Finish, SelectArtifact, ReadText, WriteHandoff, BindHandoff
  <2> QED
    BY <1>2, <2>1, FilesTyped, CallersTyped DEF TypeOK, sourceVars
<1> QED
  BY <1>1, <1>2 DEF Next

\* The place of a caller, its job and what it has read stay together.
LEMMA JobStep ==
    ASSUME TypeOK, JobInv, [Next]_vars
    PROVE  JobInv'
<1> USE DEF TypeOK, Key, Scopes, Request, Operation, Job, CallerPc, CurrentKey,
          CurrentRequest, TargetKey, TargetBody, None, NoJob, JobInv, InPlace,
          HandoffOnly, RunPlaces, HandoffPlaces, fileVars, sourceVars, localVars
<1>1. CASE SourceWrites
  BY <1>1 DEF SourceWrites
<1>2. CASE SourceConcludes
  BY <1>2 DEF SourceConcludes
<1>3. ASSUME NEW c \in Callers, Call(c) PROVE JobInv'
  BY <1>3 DEF Call, Goto
<1>4. ASSUME NEW c \in Callers, Claim(c) PROVE JobInv'
  BY <1>4 DEF Claim, Goto
<1>5. ASSUME NEW c \in Callers, ClaimTimesOut(c) PROVE JobInv'
  BY <1>5 DEF ClaimTimesOut, Raise, Leave, Released, Goto
<1>6. ASSUME NEW c \in Callers, ResolveUnbound(c) PROVE JobInv'
  BY <1>6 DEF ResolveUnbound, Goto
<1>7. ASSUME NEW c \in Callers, ResolveConflict(c) PROVE JobInv'
  BY <1>7 DEF ResolveConflict, Raise, Leave, Released, Goto
<1>8. ASSUME NEW c \in Callers, ResolveReplay(c) PROVE JobInv'
  BY <1>8 DEF ResolveReplay, ReturnRun, ReturnToHandoff, Leave, Released, Goto
<1>9. ASSUME NEW c \in Callers, PlanRefused(c) \/ SourceRefused(c) PROVE JobInv'
  BY <1>9 DEF PlanRefused, SourceRefused, Raise, Leave, Released, Goto
<1>10. ASSUME NEW c \in Callers, WritePlan(c) PROVE JobInv'
  BY <1>10 DEF WritePlan, Goto
<1>11. ASSUME NEW c \in Callers, WriteInitialRecord(c) PROVE JobInv'
  BY <1>11 DEF WriteInitialRecord, Goto
<1>12. ASSUME NEW c \in Callers, Bind(c) PROVE JobInv'
  BY <1>12 DEF Bind, Goto
<1>13. ASSUME NEW c \in Callers, Launch(c) PROVE JobInv'
  BY <1>13 DEF Launch, Goto
<1>14. ASSUME NEW c \in Callers, Finish(c) PROVE JobInv'
  BY <1>14 DEF Finish, ReturnRun, ReturnToHandoff, Leave, Released, Goto
<1>15. ASSUME NEW c \in Callers, SelectArtifact(c) PROVE JobInv'
  BY <1>15 DEF SelectArtifact, Goto
<1>16. ASSUME NEW c \in Callers, ReadText(c) PROVE JobInv'
  BY <1>16 DEF ReadText, Goto
<1>17. ASSUME NEW c \in Callers, WriteHandoff(c) PROVE JobInv'
  BY <1>17 DEF WriteHandoff, Goto
<1>18. ASSUME NEW c \in Callers, BindHandoff(c) PROVE JobInv'
  BY <1>18 DEF BindHandoff, ReturnRun, Leave, Released, Goto
<1>19. ASSUME NEW c \in Callers, Crash(c) PROVE JobInv'
  BY <1>19 DEF Crash, Raise, Leave, Released, Goto
<1>20. CASE UNCHANGED vars
  BY <1>20 DEF vars
<1> QED
  BY <1>1, <1>2, <1>3, <1>4, <1>5, <1>6, <1>7, <1>8, <1>9, <1>10, <1>11, <1>12, <1>13,
     <1>14, <1>15, <1>16, <1>17, <1>18, <1>19, <1>20 DEF Next, Step

\* A lock is held by the caller whose place says so, and by nobody else.
LEMMA LockStep ==
    ASSUME TypeOK, JobInv, LockInv, [Next]_vars
    PROVE  LockInv'
<1>1. CASE SourceWrites \/ SourceConcludes \/ UNCHANGED vars
  BY <1>1 DEF SourceWrites, SourceConcludes, vars, fileVars, sourceVars, localVars,
              LockInv, Holds, CurrentKey
<1>2. ASSUME NEW c \in Callers, Call(c) \/ Step(c) \/ Crash(c)
      PROVE  LockInv'
  <2>1. ASSUME NEW d \in Callers, d # c, NEW k \in Key
        PROVE  pc'[d] = pc[d] /\ (Holds(d, k)' <=> Holds(d, k))
    BY <1>2, <2>1, OthersKeep DEF Holds
  <2>2. ASSUME \A k \in Key : lock'[k] \ {c} = lock[k] \ {c},
               \A k \in Key : c \in lock'[k] <=> pc'[c] # "idle" /\ Holds(c, k)',
               \A k \in Key : c \in lock'[k] => lock[k] \subseteq {c}
        PROVE  LockInv'
    <3>1. ASSUME NEW k \in Key, NEW d \in lock'[k], d # c
          PROVE  d \in lock[k]
      BY <2>2, <3>1
    <3>2. ASSUME NEW k \in Key, NEW d \in lock'[k]
          PROVE  d \in Callers /\ pc'[d] # "idle"
      BY <1>2, <2>1, <2>2, <3>1, <3>2 DEF LockInv, TypeOK
    <3>3. ASSUME NEW k \in Key, NEW d \in Callers, pc'[d] # "idle"
          PROVE  d \in lock'[k] <=> Holds(d, k)'
      <4>1. CASE d = c
        BY <2>2, <3>3, <4>1
      <4>2. CASE d # c
        BY <2>1, <2>2, <3>3, <4>2 DEF LockInv
      <4> QED
        BY <4>1, <4>2
    <3>4. ASSUME NEW k \in Key, NEW d \in lock'[k], NEW e \in lock'[k]
          PROVE  d = e
      <4>1. CASE d # c /\ e # c
        BY <3>1, <3>4, <4>1 DEF LockInv
      <4>2. CASE d = c \/ e = c
        BY <2>2, <3>1, <3>4, <4>2
      <4> QED
        BY <4>1, <4>2
    <3> QED
      BY <3>2, <3>3, <3>4 DEF LockInv
  <2>3. pc[c] # "idle" => /\ CurrentKey(c) \in Key /\ job[c].key \in Key
                          /\ \A k \in Key : c \in lock[k] <=> Holds(c, k)
    BY AtWork DEF LockInv
  <2>4. pc[c] = "idle" => \A k \in Key : c \notin lock[k]
    BY DEF LockInv
  <2>5. \A k \in Key : c \in lock[k] => lock[k] \subseteq {c}
    BY DEF LockInv, TypeOK
  <2>6. CASE Leave(c)
    <3>1. \A k \in Key : lock'[k] = lock[k] \ {c}
      BY <2>6 DEF Leave, Released
    <3>2. pc'[c] = "idle"
      BY <2>6 DEF Leave, Goto, TypeOK
    <3> QED
      BY <2>2, <3>1, <3>2
  <2>7. CASE nested[c] /\ ReturnToHandoff(c, "record") /\ pc[c] # "idle"
    <3>1. /\ nested'[c] = FALSE /\ job'[c] = job[c] /\ pc'[c] = "record"
          /\ CurrentKey(c)' = job[c].key
      BY <2>7 DEF ReturnToHandoff, Goto, TypeOK, CurrentKey
    <3>2. \A k \in Key : lock'[k] = IF k = CurrentKey(c) THEN lock[k] \ {c} ELSE lock[k]
      BY <2>3, <2>7 DEF ReturnToHandoff, TypeOK
    <3>3. CurrentKey(c) # job[c].key
      BY <2>7, TargetDiffers
    <3>4. \A k \in Key : Holds(c, k)' <=> k = job[c].key
      BY <3>1 DEF Holds, HandoffOnly
    <3>5. c \in lock[job[c].key]
      BY <2>3, <2>7 DEF Holds
    <3>6. \A k \in Key : c \in lock[k] => k \in {job[c].key, CurrentKey(c)}
      BY <2>3, <2>7 DEF Holds
    <3> QED
      BY <2>2, <2>5, <2>7, <3>1, <3>2, <3>3, <3>4, <3>5, <3>6
  <2>8. CASE Claim(c)
    <3>1. /\ pc'[c] = "resolve" /\ pc[c] = "claim" /\ UNCHANGED <<job, nested>>
          /\ lock[CurrentKey(c)] = {}
      BY <2>8 DEF Claim, Goto, TypeOK
    <3>2. \A k \in Key : lock'[k] = IF k = CurrentKey(c) THEN {c} ELSE lock[k]
      BY <2>3, <2>8 DEF Claim, TypeOK
    <3>3. CurrentKey(c)' = CurrentKey(c)
      BY <3>1 DEF CurrentKey
    <3>4. \A k \in Key : Holds(c, k)' <=> k = CurrentKey(c) \/ Holds(c, k)
      BY <3>1, <3>3 DEF Holds, Critical, Planning, HandoffOnly
    <3> QED
      BY <2>2, <2>3, <2>5, <3>1, <3>2, <3>4
  <2>9. CASE Bind(c)
    <3>1. pc'[c] = "launch" /\ pc[c] = "bind" /\ UNCHANGED <<job, nested>>
      BY <2>9 DEF Bind, Goto, TypeOK
    <3>2. CurrentKey(c)' = CurrentKey(c)
      BY <3>1 DEF CurrentKey
    <3>3. lock[CurrentKey(c)] = {c}
      BY <2>3, <2>5, <3>1 DEF Holds, Critical, Planning
    <3>4. \A k \in Key : lock'[k] = IF k = CurrentKey(c) THEN {} ELSE lock[k]
      BY <2>3, <2>9 DEF Bind, TypeOK
    <3>5. nested[c] => job[c].key # CurrentKey(c)
      BY <3>1, TargetDiffers
    <3>6. \A k \in Key : Holds(c, k)' <=> Holds(c, k) /\ k # CurrentKey(c)
      BY <3>1, <3>2, <3>5 DEF Holds, Critical, Planning, HandoffOnly
    <3> QED
      BY <2>2, <2>3, <2>5, <3>1, <3>3, <3>4, <3>6
  <2>10. ASSUME UNCHANGED lock, pc'[c] # "idle",
                \A k \in Key : Holds(c, k)' <=> pc[c] # "idle" /\ Holds(c, k)
         PROVE  LockInv'
    BY <2>2, <2>3, <2>4, <2>5, <2>10
  <2>11. CASE Call(c)
    BY <2>10, <2>11 DEF Call, Goto, Holds, CurrentKey, Critical, Planning, HandoffOnly,
                        JobInv, InPlace, RunPlaces, TypeOK
  <2>12. CASE \/ ResolveUnbound(c) \/ WritePlan(c) \/ WriteInitialRecord(c) \/ Launch(c)
              \/ SelectArtifact(c) \/ WriteHandoff(c)
    <3>1. UNCHANGED <<lock, job, nested>>
      BY <2>12 DEF ResolveUnbound, WritePlan, WriteInitialRecord, Launch, SelectArtifact,
                   WriteHandoff
    <3>2. CurrentKey(c)' = CurrentKey(c)
      BY <3>1 DEF CurrentKey
    <3>3. /\ pc[c] # "idle" /\ pc'[c] # "idle"
          /\ pc[c] \in Critical \cup HandoffOnly <=> pc'[c] \in Critical \cup HandoffOnly
      BY <2>12 DEF ResolveUnbound, WritePlan, WriteInitialRecord, Launch, SelectArtifact,
                   WriteHandoff, Goto, Critical, Planning, HandoffOnly, TypeOK
    <3> QED
      BY <2>10, <3>1, <3>2, <3>3 DEF Holds
  <2>13. CASE ReadText(c)
    <3>1. /\ pc[c] = "read" /\ pc'[c] = "claim" /\ nested'[c] = TRUE
          /\ UNCHANGED <<lock, job>>
      BY <2>13 DEF ReadText, Goto, TypeOK
    <3>2. CurrentKey(c) = job[c].key /\ Holds(c, job[c].key)
      BY <3>1, HandoffHolds DEF HandoffOnly, JobInv, InPlace, RunPlaces
    <3>3. ~nested[c]
      BY <3>1 DEF JobInv, InPlace, RunPlaces
    <3> QED
      BY <2>10, <3>1, <3>2, <3>3 DEF Holds, Critical, Planning, HandoffOnly
  <2>14. CASE ClaimTimesOut(c) \/ ResolveConflict(c) \/ PlanRefused(c) \/ SourceRefused(c)
            \/ Crash(c)
              \/ BindHandoff(c)
    BY <2>6, <2>14 DEF ClaimTimesOut, ResolveConflict, PlanRefused, SourceRefused, Crash,
              BindHandoff,
                       Raise, ReturnRun
  <2>15. CASE ResolveReplay(c) \/ Finish(c)
    BY <2>6, <2>7, <2>15 DEF ResolveReplay, Finish, ReturnRun
  <2> QED
    BY <1>2, <2>8, <2>9, <2>11, <2>12, <2>13, <2>14, <2>15 DEF Step
<1> QED
  BY <1>1, <1>2 DEF Next

\* What one caller knows stays true while another one takes a step.
LEMMA OthersKnow ==
    ASSUME TypeOK, JobInv, LockInv, CallerInv, LaunchInv,
           NEW c \in Callers, Call(c) \/ Step(c) \/ Crash(c),
           NEW d \in Callers, d # c
    PROVE  Knows(d)'
<1> DEFINE k == CurrentKey(c)
<1>1. /\ pc'[d] = pc[d] /\ job'[d] = job[d] /\ nested'[d] = nested[d]
      /\ CurrentKey(d)' = CurrentKey(d)
      /\ CurrentRequest(d)' = CurrentRequest(d)
      /\ BuiltRequest(d)' = BuiltRequest(d)
      /\ digest'[d] = digest[d]
  BY OthersKeep
<1>2. pc[d] # "idle" => CurrentKey(d) \in Key /\ job[d].key \in Key
                        /\ CurrentRequest(d) # None
  BY AtWork
<1>3. pc[c] # "idle" => k \in Key
  BY AtWork
<1>4. ASSUME pc[c] \in Critical \cup HandoffOnly, NEW l \in Key, Holds(d, l), pc[d] # "idle"
      PROVE  k # l
  BY <1>3, <1>4, Exclusive, WorkerHolds
<1>5. BuiltRequest(d) # None
  BY DEF BuiltRequest, None
<1> HIDE DEF k
<1>6. pc'[d] \in Planning => bindings'[CurrentKey(d)'] = None
  BY <1>1, <1>2, <1>3, <1>4, FileEffects DEF k, CallerInv, Knows, Holds, TypeOK, Critical,
     Planning, HandoffOnly
<1>7. pc'[d] \in {"initial", "bind"} => plans'[CurrentKey(d)'] = CurrentRequest(d)'
  BY <1>1, <1>2, <1>3, <1>4, FileEffects DEF k, CallerInv, Knows, Holds, TypeOK, Critical,
     Planning, HandoffOnly
<1>8. pc'[d] = "bind" => status'[CurrentKey(d)'] # "absent"
  <2>1. pc[d] = "bind" => status[CurrentKey(d)] # "absent" /\ CurrentKey(d) \in Key
    BY <1>2 DEF CallerInv, Knows
  <2>2. ASSUME CurrentKey(d) \in Key, status[CurrentKey(d)] # "absent"
        PROVE  status'[CurrentKey(d)] # "absent"
    <3>1. CASE status' = status
      BY <2>2, <3>1
    <3>2. ASSUME NEW s \in {"planned", "running", "ended"},
                 status' = [status EXCEPT ![CurrentKey(c)] = s]
          PROVE  status'[CurrentKey(d)] # "absent"
      BY <2>2, <3>2 DEF TypeOK
    <3> QED
      BY <3>1, <3>2, FileEffects
  <2> QED
    BY <1>1, <2>1, <2>2
<1>9. pc'[d] \in {"launch", "running"} => bindings'[CurrentKey(d)'] = CurrentRequest(d)'
  BY <1>1, <1>2, BindingsGrow DEF CallerInv, Knows
<1>10. pc'[d] = "launch" => launches'[CurrentKey(d)'] = 0
  <2>1. pc[c] = "launch" /\ pc[d] = "launch" => k # CurrentKey(d)
    BY DEF k, LaunchInv
  <2>2. pc[d] = "launch" => launches[CurrentKey(d)] = 0 /\ CurrentKey(d) \in Key
    BY <1>2 DEF CallerInv, Knows
  <2>3. pc[d] = "launch" => launches'[CurrentKey(d)] = launches[CurrentKey(d)]
    <3>1. CASE launches' = launches
      BY <3>1
    <3>2. CASE pc[c] = "launch" /\ launches' = [launches EXCEPT ![CurrentKey(c)] = @ + 1]
      BY <2>1, <2>2, <3>2 DEF k, TypeOK
    <3> QED
      BY <3>1, <3>2, FileEffects
  <2> QED
    BY <1>1, <2>2, <2>3
<1>11. pc'[d] \in HandoffOnly \/ nested'[d] => bindings'[job'[d].key] = None
  BY <1>1, <1>2, <1>3, <1>4, HandoffHolds, FileEffects
     DEF k, CallerInv, Knows, TypeOK, Critical, Planning, HandoffOnly
<1>12. pc'[d] \in {"record", "bindHandoff"}
          => bindings'[TargetKey(job'[d].key.token)] = BuiltRequest(d)'
  <2>1. pc[d] \in {"record", "bindHandoff"} => TargetKey(job[d].key.token) \in Key
    BY <1>2 DEF TargetKey, Key, Scopes
  <2> QED
    BY <1>1, <1>5, <2>1, BindingsGrow DEF CallerInv, Knows
<1>13. pc'[d] = "bindHandoff" => handoffs'[job'[d].key.token] = {digest'[d]}
  <2>1. CASE pc[d] = "bindHandoff" /\ pc[c] = "record"
    <3>1. Holds(d, job[d].key) /\ Holds(c, job[c].key) /\ job[c].key \in Key
      BY <2>1, HandoffHolds, AtWork DEF HandoffOnly
    <3>2. job[c].key # job[d].key
      BY <1>2, <2>1, <3>1, Exclusive
    <3>3. /\ job[c].key = [scope |-> "handoff", token |-> job[c].key.token]
          /\ job[d].key = [scope |-> "handoff", token |-> job[d].key.token]
      BY <2>1, AtWork, HandoffHolds DEF HandoffOnly
    <3>4. job[c].key.token # job[d].key.token
      BY <3>2, <3>3
    <3>5. job[d].key.token \in Tokens
      BY <1>2, <2>1 DEF Key
    <3> QED
      BY <1>1, <2>1, <3>4, <3>5, FileEffects DEF CallerInv, Knows, TypeOK
  <2>2. CASE pc[c] # "record"
    BY <1>1, <2>2, FileEffects DEF CallerInv, Knows
  <2> QED
    BY <1>1, <2>1, <2>2
<1> QED
  BY <1>6, <1>7, <1>8, <1>9, <1>10, <1>11, <1>12, <1>13 DEF Knows

\* A caller knows what its own step has just established.
LEMMA SelfKnows ==
    ASSUME TypeOK, JobInv, LockInv, CallerInv, BindingInv,
           NEW c \in Callers, Call(c) \/ Step(c) \/ Crash(c)
    PROVE  Knows(c)'
<1>1. Knows(c) /\ InPlace(c)
  BY DEF CallerInv, JobInv
<1>2. pc[c] # "idle" =>
         /\ CurrentKey(c) \in Key /\ job[c].key \in Key
         /\ nested[c] => /\ job[c].key # CurrentKey(c)
                         /\ CurrentRequest(c) = BuiltRequest(c)
                         /\ CurrentKey(c) = TargetKey(job[c].key.token)
         /\ ~nested[c] => CurrentKey(c) = job[c].key
         /\ CurrentRequest(c).op = "handoff" => ~nested[c] /\ job[c].op = "handoff"
  <2> SUFFICES ASSUME pc[c] # "idle"
               PROVE  /\ CurrentKey(c) \in Key /\ job[c].key \in Key
                      /\ nested[c] => /\ job[c].key # CurrentKey(c)
                                      /\ CurrentRequest(c) = BuiltRequest(c)
                                      /\ CurrentKey(c) = TargetKey(job[c].key.token)
                      /\ ~nested[c] => CurrentKey(c) = job[c].key
                      /\ CurrentRequest(c).op = "handoff"
                            => ~nested[c] /\ job[c].op = "handoff"
    OBVIOUS
  <2>1. CASE nested[c]
    <3>1. CurrentRequest(c) = BuiltRequest(c)
      BY <2>1, AtWork
    <3>2. CurrentRequest(c).op = "run"
      BY <3>1 DEF BuiltRequest
    <3> QED
      BY <2>1, <3>1, <3>2, AtWork, TargetDiffers
  <2>2. CASE ~nested[c]
    <3>1. CurrentRequest(c) = [op |-> job[c].op, body |-> job[c].body]
      BY <2>2, AtWork
    <3>2. CurrentRequest(c).op = job[c].op
      BY <3>1
    <3> QED
      BY <2>2, <3>2, AtWork
  <2> QED
    BY <2>1, <2>2 DEF TypeOK
<1>3. ASSUME UNCHANGED <<job, nested, digest, text>>
      PROVE  /\ CurrentKey(c)' = CurrentKey(c)
             /\ CurrentRequest(c)' = CurrentRequest(c)
             /\ BuiltRequest(c)' = BuiltRequest(c)
  BY <1>3 DEF CurrentKey, CurrentRequest, BuiltRequest
<1> USE DEF Planning, HandoffOnly, RunPlaces, HandoffPlaces, localVars, fileVars, Goto
<1>4. CASE Leave(c)
  BY <1>4 DEF Leave, Knows, TypeOK
<1>5. ASSUME nested[c], ReturnToHandoff(c, "record"), pc[c] # "idle", UNCHANGED bindings,
             bindings[CurrentKey(c)] = CurrentRequest(c)
      PROVE  Knows(c)'
  <2>1. pc'[c] = "record" /\ nested'[c] = FALSE /\ job'[c] = job[c]
        /\ BuiltRequest(c)' = BuiltRequest(c)
    BY <1>5 DEF ReturnToHandoff, TypeOK, BuiltRequest
  <2> QED
    BY <1>1, <1>2, <1>5, <2>1 DEF Knows
<1>6. CASE Call(c)
  BY <1>1, <1>6 DEF Call, Knows, InPlace, TypeOK
<1>7. CASE Claim(c)
  BY <1>1, <1>2, <1>3, <1>7 DEF Claim, Knows, InPlace, TypeOK
<1>8. CASE ResolveUnbound(c)
  <2>1. pc'[c] \in {"select",
            "plan"} /\ (pc'[c] = "select" => ~nested[c] /\ job[c].op = "handoff")
        /\ UNCHANGED <<job, nested, digest, text, bindings>>
    BY <1>2, <1>8 DEF ResolveUnbound, TypeOK
  <2> QED
    BY <1>1, <1>2, <1>3, <1>8, <2>1 DEF ResolveUnbound, Knows, InPlace, TypeOK
<1>9. CASE ResolveReplay(c)
  BY <1>4, <1>5, <1>9 DEF ResolveReplay, ReturnRun
<1>10. CASE ClaimTimesOut(c) \/ ResolveConflict(c) \/ PlanRefused(c) \/ SourceRefused(c)
          \/ Crash(c) \/ BindHandoff(c)
  BY <1>4, <1>10 DEF ClaimTimesOut, ResolveConflict, PlanRefused, SourceRefused, Crash,
            BindHandoff, Raise,
                     ReturnRun
<1>11. CASE WritePlan(c)
  BY <1>1, <1>2, <1>3, <1>11 DEF WritePlan, Knows, InPlace, TypeOK
<1>12. CASE WriteInitialRecord(c)
  BY <1>1, <1>2, <1>3, <1>12 DEF WriteInitialRecord, Knows, InPlace, TypeOK
<1>13. CASE Bind(c)
  BY <1>1, <1>2, <1>3, <1>13 DEF Bind, Knows, InPlace, BindingInv, TypeOK
<1>14. CASE Launch(c)
  BY <1>1, <1>2, <1>3, <1>14 DEF Launch, Knows, InPlace, TypeOK
<1>15. CASE Finish(c)
  <2>1. UNCHANGED bindings /\ bindings[CurrentKey(c)] = CurrentRequest(c) /\ pc[c] # "idle"
    BY <1>1, <1>15 DEF Finish, Knows
  <2> QED
    BY <1>4, <1>5, <1>15, <2>1 DEF Finish, ReturnRun
<1>16. CASE SelectArtifact(c)
  <2>1. /\ pc[c] = "select" /\ pc'[c] = "read" /\ ~nested[c]
        /\ UNCHANGED <<bindings, job, nested>>
    BY <1>1, <1>16 DEF SelectArtifact, InPlace, TypeOK
  <2> QED
    BY <1>1, <2>1 DEF Knows
<1>17. CASE ReadText(c)
  <2>1. pc[c] = "read" /\ pc'[c] = "claim" /\ UNCHANGED <<bindings, job>>
    BY <1>17 DEF ReadText, TypeOK
  <2> QED
    BY <1>1, <2>1 DEF Knows
<1>18. CASE WriteHandoff(c)
  <2>1. /\ pc[c] = "record" /\ pc'[c] = "bindHandoff"
        /\ UNCHANGED <<bindings, job, nested, digest, text>>
    BY <1>18 DEF WriteHandoff, TypeOK
  <2>2. job[c].key.token \in Tokens
    BY <1>2, <2>1 DEF Key
  <2>3. handoffs'[job[c].key.token] = {digest[c]}
    BY <1>18, <2>2 DEF WriteHandoff, TypeOK
  <2> QED
    BY <1>1, <1>3, <2>1, <2>3 DEF Knows
<1> QED
  BY <1>6, <1>7, <1>8, <1>9, <1>10, <1>11, <1>12, <1>13, <1>14, <1>15, <1>16, <1>17, <1>18
     DEF Step

\* Every caller goes on knowing what it knew, or knows what it has just established.
LEMMA CallerStep ==
    ASSUME TypeOK, JobInv, LockInv, CallerInv, LaunchInv, BindingInv, [Next]_vars
    PROVE  CallerInv'
<1>1. CASE SourceWrites \/ SourceConcludes \/ UNCHANGED vars
  BY <1>1 DEF SourceWrites, SourceConcludes, vars, fileVars, sourceVars, localVars,
              CallerInv, Knows, CurrentKey, CurrentRequest, BuiltRequest
<1>2. ASSUME NEW c \in Callers, Call(c) \/ Step(c) \/ Crash(c)
      PROVE  CallerInv'
  BY <1>2, OthersKnow, SelfKnows DEF CallerInv
<1> QED
  BY <1>1, <1>2 DEF Next


\* Between its planning and its launch a call works for run or resume; a handoff's own
\* request is what it works on in the places of a handoff only.
LEMMA RequestKind ==
    ASSUME TypeOK, JobInv, NEW c \in Callers
    PROVE  /\ pc[c] \in {"plan", "initial", "bind", "launch", "running"}
                 => CurrentRequest(c).op # "handoff"
           /\ pc[c] \in HandoffOnly
                 => /\ CurrentRequest(c) = [op |-> "handoff", body |-> job[c].body]
                    /\ ~nested[c]
<1>1. CASE nested[c] /\ pc[c] # "idle"
  <2>1. CurrentRequest(c) = BuiltRequest(c)
    BY <1>1, AtWork
  <2>2. CurrentRequest(c).op = "run"
    BY <2>1 DEF BuiltRequest
  <2> QED
    BY <1>1, <2>2 DEF JobInv, InPlace, HandoffOnly, RunPlaces
<1>2. CASE ~nested[c] /\ pc[c] # "idle"
  <2>1. CurrentRequest(c) = [op |-> job[c].op, body |-> job[c].body]
    BY <1>2, AtWork
  <2>2. CurrentRequest(c).op = job[c].op
    BY <2>1
  <2>3. pc[c] \in HandoffOnly => job[c].op = "handoff"
    BY HandoffHolds
  <2>4. job[c].op = "handoff" => pc[c] \in HandoffPlaces
    BY <1>2 DEF JobInv, InPlace
  <2> QED
    BY <1>2, <2>1, <2>2, <2>3, <2>4 DEF HandoffPlaces, HandoffOnly
<1> QED
  BY <1>1, <1>2 DEF HandoffOnly, TypeOK

\* A call gets the right to launch by binding its key, and nobody has that right on a
\* key that is still unbound.
LEMMA LaunchStep ==
    ASSUME TypeOK, JobInv, LockInv, CallerInv, LaunchInv, [Next]_vars
    PROVE  LaunchInv'
<1>1. CASE SourceWrites \/ SourceConcludes \/ UNCHANGED vars
  BY <1>1 DEF SourceWrites, SourceConcludes, vars, LaunchInv, CurrentKey
<1>2. ASSUME NEW c \in Callers, Call(c) \/ Step(c) \/ Crash(c)
      PROVE  LaunchInv'
  <2>1. pc'[c] = "launch" => Bind(c)
    BY <1>2 DEF TypeOK, Goto, Leave, Raise, ReturnRun, ReturnToHandoff, Call, Claim,
                ResolveUnbound, WritePlan, WriteInitialRecord, Launch, SelectArtifact,
                ReadText, WriteHandoff, ClaimTimesOut, ResolveConflict, PlanRefused,
                          SourceRefused, Crash,
                BindHandoff, ResolveReplay, Finish, Step
  <2>2. Bind(c) => /\ CurrentKey(c)' = CurrentKey(c)
                   /\ bindings[CurrentKey(c)] = None
    BY DEF Bind, CurrentKey, CallerInv, Knows, Planning
  <2>3. ASSUME NEW d \in Callers, d # c, pc'[d] = "launch"
        PROVE  /\ pc[d] = "launch" /\ CurrentKey(d)' = CurrentKey(d)
               /\ bindings[CurrentKey(d)] # None
    <3>1. pc[d] = "launch" /\ CurrentKey(d)' = CurrentKey(d)
      BY <1>2, <2>3, OthersKeep
    <3>2. bindings[CurrentKey(d)] = CurrentRequest(d)
      BY <3>1 DEF CallerInv, Knows
    <3> QED
      BY <3>1, <3>2, AtWork
  <2> SUFFICES ASSUME NEW d \in Callers, NEW e \in Callers,
                      pc'[d] = "launch", pc'[e] = "launch",
                      CurrentKey(d)' = CurrentKey(e)'
               PROVE  d = e
    BY DEF LaunchInv
  <2>4. CASE d # c /\ e # c
    BY <2>3, <2>4 DEF LaunchInv
  <2>5. CASE d = c /\ e # c
    BY <2>1, <2>2, <2>3, <2>5
  <2>6. CASE e = c /\ d # c
    BY <2>1, <2>2, <2>3, <2>6
  <2> QED
    BY <2>4, <2>5, <2>6
<1> QED
  BY <1>1, <1>2 DEF Next

\* Where a plan is written there is no binding yet, and where a Run is launched there
\* is one, of a call of run or resume.
LEMMA PlansAndLaunches ==
    ASSUME TypeOK, JobInv, CallerInv, NEW c \in Callers, Call(c) \/ Step(c) \/ Crash(c),
           NEW k \in Key
    PROVE  /\ bindings[k] # None => plans'[k] = plans[k]
           /\ bindings[k] = None \/ bindings[k].op = "handoff" => launches'[k] = launches[k]
           /\ status[k] # "absent" => status'[k] # "absent"
<1>1. bindings[k] # None => plans'[k] = plans[k]
  BY FileEffects DEF CallerInv, Knows, Planning, TypeOK
<1>2. ASSUME bindings[k] = None \/ bindings[k].op = "handoff"
      PROVE  launches'[k] = launches[k]
  <2>1. CASE pc[c] = "launch"
    <3>1. bindings[CurrentKey(c)] = CurrentRequest(c)
      BY <2>1 DEF CallerInv, Knows
    <3>2. CurrentRequest(c) # None /\ CurrentRequest(c).op # "handoff"
      BY <2>1, AtWork, RequestKind
    <3>3. k # CurrentKey(c)
      BY <1>2, <3>1, <3>2
    <3> QED
      BY <3>3, FileEffects DEF TypeOK
  <2> QED
    BY <2>1, FileEffects
<1>3. ASSUME status[k] # "absent"
      PROVE  status'[k] # "absent"
  <2>1. ASSUME NEW s \in {"planned", "running", "ended"},
               status' = [status EXCEPT ![CurrentKey(c)] = s]
        PROVE  status'[k] # "absent"
    BY <1>3, <2>1 DEF TypeOK
  <2> QED
    BY <1>3, <2>1, FileEffects
<1> QED
  BY <1>1, <1>2, <1>3

\* A binding is written after the files it stands for, and none of them goes away.
LEMMA BindingStep ==
    ASSUME TypeOK, JobInv, CallerInv, BindingInv, [Next]_vars
    PROVE  BindingInv'
<1>1. CASE SourceWrites \/ SourceConcludes \/ UNCHANGED vars
  BY <1>1 DEF SourceWrites, SourceConcludes, vars, fileVars, BindingInv
<1>2. ASSUME NEW c \in Callers, Call(c) \/ Step(c) \/ Crash(c), NEW k \in Key
      PROVE  /\ bindings'[k] = None => launches'[k] = 0
             /\ bindings'[k] # None /\ bindings'[k].op # "handoff"
                   => plans'[k] = bindings'[k] /\ status'[k] # "absent"
             /\ bindings'[k].op = "handoff" =>
                   /\ k.scope = "handoff" /\ launches'[k] = 0
                   /\ handoffs'[k.token] # {}
                   /\ bindings'[TargetKey(k.token)].op = "run"
                   /\ bindings'[TargetKey(k.token)].body \in TargetBody
                   /\ bindings'[TargetKey(k.token)].body.objective = bindings'[k].body
  <2>1. k.token \in Tokens /\ TargetKey(k.token) \in Key
    BY DEF Key, TargetKey, Scopes
  <2>2. None.op = "none"
    BY DEF None
  <2>3. bindings[TargetKey(k.token)].op = "run"
          => bindings'[TargetKey(k.token)] = bindings[TargetKey(k.token)]
    BY <1>2, <2>1, <2>2, BindingsGrow
  <2>4. CASE bindings[k] # None
    <3>1. bindings'[k] = bindings[k]
      BY <1>2, <2>4, BindingsGrow
    <3>2. bindings[k].op # "handoff" => plans'[k] = bindings'[k] /\ status'[k] # "absent"
      BY <1>2, <2>4, <3>1, PlansAndLaunches DEF BindingInv
    <3>3. ASSUME bindings[k].op = "handoff"
          PROVE  handoffs'[k.token] # {} /\ launches'[k] = 0
      <4>1. launches'[k] = 0
        BY <1>2, <3>3, PlansAndLaunches DEF BindingInv
      <4>2. handoffs'[k.token] # {}
        <5>1. handoffs[k.token] # {}
          BY <3>3 DEF BindingInv
        <5>2. CASE handoffs' = [handoffs EXCEPT ![job[c].key.token] = {digest[c]}]
          BY <2>1, <5>1, <5>2 DEF TypeOK
        <5> QED
          BY <1>2, <5>1, <5>2, FileEffects
      <4> QED
        BY <4>1, <4>2
    <3>4. bindings[k].op = "handoff"
            => /\ k.scope = "handoff"
               /\ bindings'[TargetKey(k.token)].op = "run"
               /\ bindings'[TargetKey(k.token)].body \in TargetBody
               /\ bindings'[TargetKey(k.token)].body.objective = bindings'[k].body
      BY <2>3, <3>1 DEF BindingInv
    <3> QED
      BY <2>4, <3>1, <3>2, <3>3, <3>4
  <2>5. CASE bindings[k] = None /\ bindings'[k] = None
    <3>1. launches'[k] = 0
      BY <1>2, <2>5, PlansAndLaunches DEF BindingInv
    <3> QED
      BY <2>2, <2>5, <3>1
  <2>6. CASE bindings[k] = None /\ bindings'[k] # None
    <3>1. /\ pc[c] \in {"bind", "bindHandoff"} /\ k = CurrentKey(c)
          /\ bindings'[k] = CurrentRequest(c)
      BY <1>2, <2>6, FileEffects DEF TypeOK
    <3>2. CASE pc[c] = "bind"
      <4>1. bindings'[k].op # "handoff"
        BY <3>1, <3>2, RequestKind
      <4>2. plans[k] = CurrentRequest(c) /\ status[k] # "absent"
        BY <3>1, <3>2 DEF CallerInv, Knows
      <4>3. plans' = plans
        BY <1>2, <3>2, FileEffects
      <4>4. status'[k] # "absent"
        BY <1>2, <4>2, PlansAndLaunches
      <4> QED
        BY <2>6, <3>1, <4>1, <4>2, <4>3, <4>4
    <3>3. CASE pc[c] = "bindHandoff"
      <4>1. CurrentRequest(c) = [op |-> "handoff", body |-> job[c].body] /\ ~nested[c]
        BY <3>3, RequestKind DEF HandoffOnly
      <4>2. bindings'[k].op = "handoff" /\ bindings'[k].body = job[c].body
        BY <3>1, <4>1
      <4>3. k = job[c].key /\ k.scope = "handoff"
        <5>1. k = job[c].key /\ job[c].op = "handoff" /\ pc[c] # "idle"
          BY <3>1, <3>3, HandoffHolds, <4>1 DEF HandoffOnly
        <5>2. job[c].key = [scope |-> "handoff", token |-> job[c].key.token]
          BY <5>1, AtWork
        <5> QED
          BY <5>1, <5>2
      <4>4. launches'[k] = 0
        BY <1>2, <2>6, PlansAndLaunches DEF BindingInv
      <4>5. handoffs'[k.token] # {}
        <5>1. handoffs[k.token] = {digest[c]}
          BY <3>3, <4>3 DEF CallerInv, Knows
        <5>2. handoffs' = handoffs
          BY <1>2, <3>3, FileEffects
        <5> QED
          BY <5>1, <5>2
      <4>6. bindings[TargetKey(k.token)] = BuiltRequest(c)
        BY <3>3, <4>3 DEF CallerInv, Knows
      <4>7. /\ BuiltRequest(c).op = "run" /\ BuiltRequest(c).body \in TargetBody
            /\ BuiltRequest(c).body.objective = job[c].body
        <5>1. job[c].body \in Bodies
          BY <3>3, AtWork
        <5>2. digest[c] \in Contents /\ text[c] \in Contents
          BY <3>3 DEF JobInv, InPlace
        <5> QED
          BY <5>1, <5>2 DEF BuiltRequest, TargetBody
      <4> QED
        BY <2>3, <2>6, <4>2, <4>3, <4>4, <4>5, <4>6, <4>7
    <3> QED
      BY <3>1, <3>2, <3>3
  <2> QED
    BY <2>4, <2>5, <2>6
<1>3. ASSUME NEW c \in Callers, Call(c) \/ Step(c) \/ Crash(c)
      PROVE  BindingInv'
  BY <1>2, <1>3 DEF BindingInv, TargetKey
<1> QED
  BY <1>1, <1>3 DEF Next

\* A handoff record is written for the target that is bound, and neither the binding
\* nor the plan of a bound target changes.
LEMMA ProvenanceStep ==
    ASSUME TypeOK, JobInv, CallerInv, BindingInv, ProvenanceMatches, [Next]_vars
    PROVE  ProvenanceMatches'
<1>1. CASE SourceWrites \/ SourceConcludes \/ UNCHANGED vars
  BY <1>1 DEF SourceWrites, SourceConcludes, vars, fileVars, ProvenanceMatches
<1>2. ASSUME NEW c \in Callers, Call(c) \/ Step(c) \/ Crash(c),
             NEW t \in Tokens, NEW d \in handoffs'[t]
      PROVE  /\ bindings'[TargetKey(t)] \in [op : {"run"}, body : TargetBody]
             /\ bindings'[TargetKey(t)].body.digest = d
             /\ plans'[TargetKey(t)] = bindings'[TargetKey(t)]
  <2>1. TargetKey(t) \in Key
    BY DEF Key, TargetKey, Scopes
  <2>2. /\ bindings[TargetKey(t)] \in [op : {"run"}, body : TargetBody]
        /\ bindings[TargetKey(t)].body.digest = d
        /\ plans[TargetKey(t)] = bindings[TargetKey(t)]
    <3>1. CASE d \in handoffs[t]
      BY <3>1 DEF ProvenanceMatches
    <3>2. CASE d \notin handoffs[t]
      <4>1. pc[c] = "record" /\ t = job[c].key.token /\ d = digest[c]
        BY <1>2, <3>2, FileEffects DEF TypeOK
      <4>2. bindings[TargetKey(t)] = BuiltRequest(c)
        BY <4>1 DEF CallerInv, Knows
      <4>3. job[c].body \in Bodies /\ digest[c] \in Contents /\ text[c] \in Contents
        BY <4>1, AtWork DEF JobInv, InPlace
      <4>4. /\ BuiltRequest(c) \in [op : {"run"}, body : TargetBody]
            /\ BuiltRequest(c).body.digest = digest[c]
            /\ BuiltRequest(c).op = "run"
        BY <4>3 DEF BuiltRequest, TargetBody
      <4>5. plans[TargetKey(t)] = bindings[TargetKey(t)]
        BY <2>1, <4>2, <4>4 DEF BindingInv, None
      <4> QED
        BY <4>1, <4>2, <4>4, <4>5
    <3> QED
      BY <3>1, <3>2
  <2>3. bindings[TargetKey(t)] # None
    BY <2>2 DEF None
  <2> QED
    BY <1>2, <2>1, <2>2, <2>3, BindingsGrow, PlansAndLaunches
<1>3. ASSUME NEW c \in Callers, Call(c) \/ Step(c) \/ Crash(c)
      PROVE  ProvenanceMatches'
  BY <1>2, <1>3 DEF ProvenanceMatches, TargetKey
<1> QED
  BY <1>1, <1>3 DEF Next

\* A call returns a Run when it finds its key bound to its request, or has bound it.
LEMMA AnswerStep ==
    ASSUME TypeOK, JobInv, CallerInv, AnswerInv, [Next]_vars
    PROVE  AnswerInv'
<1>1. CASE SourceWrites \/ SourceConcludes \/ UNCHANGED vars
  BY <1>1 DEF SourceWrites, SourceConcludes, vars, fileVars, AnswerInv
<1>2. ASSUME NEW c \in Callers, Call(c) \/ Step(c) \/ Crash(c), NEW j \in answered'
      PROVE  bindings'[j.key] = [op |-> j.op, body |-> j.body]
  <2>1. CASE j \in answered
    <3>1. j.key \in Key
      BY <2>1, ScopeAssumption DEF TypeOK, Job, Key, Scopes
    <3>2. bindings[j.key] = [op |-> j.op, body |-> j.body]
      BY <2>1 DEF AnswerInv
    <3>3. j.op \in Operation
      BY <2>1 DEF TypeOK, Job, Operation
    <3>4. bindings[j.key] # None
      BY <3>2, <3>3 DEF None, Operation
    <3> QED
      BY <1>2, <3>1, <3>2, <3>4, BindingsGrow
  <2>2. CASE j \notin answered
    <3>1. ReturnRun(c) /\ j = job[c]
          /\ (BindHandoff(c) \/ (~nested[c] /\ (ResolveReplay(c) \/ Finish(c))))
      <4>1. CASE Call(c) \/ Claim(c) \/ ResolveUnbound(c) \/ WritePlan(c)
                  \/ WriteInitialRecord(c) \/ Launch(c) \/ SelectArtifact(c) \/ ReadText(c)
                  \/ WriteHandoff(c) \/ Bind(c)
        BY <1>2, <2>2, <4>1 DEF Call, Claim, ResolveUnbound, WritePlan, WriteInitialRecord,
                  Launch, SelectArtifact, ReadText, WriteHandoff, Bind
      <4>2. CASE ClaimTimesOut(c) \/ ResolveConflict(c) \/ PlanRefused(c)
                \/ SourceRefused(c) \/ Crash(c)
        BY <1>2, <2>2, <4>2 DEF ClaimTimesOut, ResolveConflict, PlanRefused, SourceRefused,
                  Crash, Raise
      <4>3. CASE BindHandoff(c)
        <5>1. ReturnRun(c)
          BY <4>3 DEF BindHandoff
        <5>2. j = job[c]
          BY <1>2, <2>2, <5>1 DEF ReturnRun
        <5> QED
          BY <4>3, <5>1, <5>2
      <4>4. CASE ResolveReplay(c) \/ Finish(c)
        <5>1. ~nested[c] /\ ReturnRun(c)
          <6>1. CASE ResolveReplay(c)
            BY <1>2, <2>2, <6>1 DEF ResolveReplay, ReturnToHandoff
          <6>2. CASE Finish(c)
            BY <1>2, <2>2, <6>2 DEF Finish, ReturnToHandoff
          <6> QED
            BY <4>4, <6>1, <6>2
        <5>2. j = job[c]
          BY <1>2, <2>2, <5>1 DEF ReturnRun
        <5> QED
          BY <4>4, <5>1, <5>2
      <4> QED
        BY <1>2, <4>1, <4>2, <4>3, <4>4 DEF Step
    <3>2. pc[c] # "idle" /\ ~nested[c]
      BY <3>1, RequestKind DEF BindHandoff, ResolveReplay, Finish, HandoffOnly
    <3>3. /\ CurrentKey(c) = j.key /\ j.key \in Key
          /\ CurrentRequest(c) = [op |-> j.op, body |-> j.body] /\ CurrentRequest(c) # None
      BY <3>1, <3>2, AtWork
    <3>4. CASE BindHandoff(c)
      BY <3>3, <3>4 DEF BindHandoff, TypeOK
    <3>5. CASE ResolveReplay(c) \/ Finish(c)
      <4>1. bindings[j.key] = CurrentRequest(c)
        BY <3>3, <3>5 DEF ResolveReplay, Finish, CallerInv, Knows
      <4> QED
        BY <1>2, <3>3, <4>1, BindingsGrow
    <3> QED
      BY <3>1, <3>4, <3>5
  <2> QED
    BY <2>1, <2>2
<1>3. ASSUME NEW c \in Callers, Call(c) \/ Step(c) \/ Crash(c)
      PROVE  AnswerInv'
  BY <1>2, <1>3 DEF AnswerInv
<1> QED
  BY <1>1, <1>3 DEF Next

-----------------------------------------------------------------------------
(***************************************************************************)
(* Init and Next.                                                          *)
(***************************************************************************)
\* An empty workspace: nobody is at work and no key is bound.
LEMMA InitInvariant == Init => IInv
<1> SUFFICES ASSUME Init
             PROVE  IInv
  OBVIOUS
<1>1. TypeOK
  BY DEF Init, TypeOK, CallerPc
<1>2. JobInv
  BY DEF Init, JobInv, InPlace, NoJob, RunPlaces, HandoffPlaces
<1>3. LockInv
  BY DEF Init, LockInv
<1>4. CallerInv
  BY DEF Init, CallerInv, Knows, Planning, HandoffOnly
<1>5. LaunchInv
  BY DEF Init, LaunchInv
<1>6. BindingInv
  BY DEF Init, BindingInv, None
<1>7. ProvenanceMatches
  BY DEF Init, ProvenanceMatches
<1>8. AnswerInv
  BY DEF Init, AnswerInv
<1> QED
  BY <1>1, <1>2, <1>3, <1>4, <1>5, <1>6, <1>7, <1>8 DEF IInv

\* Every step keeps every part.
LEMMA NextInvariant == IInv /\ [Next]_vars => IInv'
  BY TypeStep, JobStep, LockStep, CallerStep, LaunchStep, BindingStep, ProvenanceStep,
     AnswerStep DEF IInv

-----------------------------------------------------------------------------
(***************************************************************************)
(* The theorems.                                                           *)
(***************************************************************************)
\* The inductive invariant holds in every reachable state: of any number of callers, at
\* most one is between the claim of a key and its binding, and it knows what its files say.
THEOREM Invariance == Spec => []IInv
<1>1. Init => IInv
  BY InitInvariant
<1>2. IInv /\ [Next]_vars => IInv'
  BY NextInvariant
<1> QED
  BY <1>1, <1>2, PTL DEF Spec

\* Every variable keeps its shape, whatever the callers do.
THEOREM TypeCorrect == Spec => []TypeOK
<1>1. IInv => TypeOK
  BY DEF IInv
<1> QED
  BY <1>1, Invariance, PTL

\* What is launched is what its key is bound to, and no retry replaces that plan
\* (HarnessService.run, resume and handoff).
THEOREM LaunchesArePlanned == Spec => []LaunchedAsPlanned
<1>1. IInv => LaunchedAsPlanned
  <2> SUFFICES ASSUME IInv, NEW k \in Key, launches[k] > 0
               PROVE  plans[k] = bindings[k] /\ plans[k] # None
    BY DEF LaunchedAsPlanned
  <2>1. bindings[k] # None /\ bindings[k].op # "handoff"
    BY DEF IInv, BindingInv
  <2> QED
    BY <2>1 DEF IInv, BindingInv
<1> QED
  BY <1>1, Invariance, PTL

\* A token that was answered stands for the request it was first used with: a call is
\* given the Run that was planned for it, and no other (resolve_idempotent_record).
THEOREM ReplaysAreFaithful == Spec => []ReplayIsFaithful
<1>1. IInv => ReplayIsFaithful
  <2> SUFFICES ASSUME IInv, NEW j \in answered
               PROVE  IF j.op = "handoff"
                      THEN /\ plans[ReturnedRun(j)] \in [op : {"run"}, body : TargetBody]
                           /\ plans[ReturnedRun(j)].body.objective = j.body
                      ELSE plans[ReturnedRun(j)] = [op |-> j.op, body |-> j.body]
    BY DEF ReplayIsFaithful
  <2>1. j \in Job /\ j.key \in Key /\ j.key.token \in Tokens /\ j.op \in Operation
    BY ScopeAssumption DEF IInv, TypeOK, Job, Key, Scopes, Operation
  <2>2. bindings[j.key] = [op |-> j.op, body |-> j.body]
    BY DEF IInv, AnswerInv
  <2>3. bindings[j.key].op = j.op /\ bindings[j.key].body = j.body
    BY <2>2
  <2>4. CASE j.op = "handoff"
    <3> DEFINE k == TargetKey(j.key.token)
    <3>1. k \in Key
      BY <2>1 DEF Key, TargetKey, Scopes
    <3>2. /\ bindings[k].op = "run" /\ bindings[k].body \in TargetBody
          /\ bindings[k].body.objective = j.body
      BY <2>1, <2>3, <2>4 DEF IInv, BindingInv
    <3>3. bindings[k] \in Request
      BY <3>1, <3>2 DEF IInv, TypeOK, None
    <3>4. bindings[k] \in [op : {"run"}, body : TargetBody]
      BY <3>2, <3>3 DEF Request
    <3>5. plans[k] = bindings[k]
      BY <3>1, <3>2 DEF IInv, BindingInv, None
    <3> QED
      BY <2>4, <3>2, <3>4, <3>5 DEF ReturnedRun
  <2>5. CASE j.op # "handoff"
    <3>1. plans[j.key] = bindings[j.key]
      BY <2>1, <2>3, <2>5 DEF IInv, BindingInv, None, Operation
    <3> QED
      BY <2>2, <2>5, <3>1 DEF ReturnedRun
  <2> QED
    BY <2>4, <2>5
<1> QED
  BY <1>1, Invariance, PTL

\* The provenance a handoff records is that of the target Run it launched.
THEOREM ProvenanceIsTrue == Spec => []ProvenanceMatches
<1>1. IInv => ProvenanceMatches
  BY DEF IInv
<1> QED
  BY <1>1, Invariance, PTL

\* A binding is never found without the files a replay reads.
THEOREM ReplaysFindFiles == Spec => []ReplayFindsItsFiles
<1>1. IInv => ReplayFindsItsFiles
  <2> SUFFICES ASSUME IInv, NEW k \in Key, bindings[k] # None
               PROVE  IF bindings[k].op = "handoff"
                      THEN handoffs[k.token] # {} /\ status[TargetKey(k.token)] # "absent"
                      ELSE status[k] # "absent"
    BY DEF ReplayFindsItsFiles
  <2>1. CASE bindings[k].op = "handoff"
    <3>1. TargetKey(k.token) \in Key
      BY DEF Key, TargetKey, Scopes
    <3>2. handoffs[k.token] # {} /\ bindings[TargetKey(k.token)].op = "run"
      BY <2>1 DEF IInv, BindingInv
    <3> QED
      BY <2>1, <3>1, <3>2 DEF IInv, BindingInv, None
  <2>2. CASE bindings[k].op # "handoff"
    BY <2>2 DEF IInv, BindingInv
  <2> QED
    BY <2>1, <2>2
<1> QED
  BY <1>1, Invariance, PTL

\* A handoff record is never rewritten to another digest, by whichever retry writes it.
THEOREM ProvenanceIsKept == Spec => ProvenanceIsStable
<1>1. IInv /\ [Next]_vars
        => [ \A t \in Tokens : handoffs[t] # {} => handoffs'[t] = handoffs[t] ]_vars
  <2> SUFFICES ASSUME IInv, [Next]_vars, NEW t \in Tokens, handoffs[t] # {}
               PROVE  handoffs'[t] = handoffs[t]
    OBVIOUS
  <2>1. CASE SourceWrites \/ SourceConcludes \/ UNCHANGED vars
    BY <2>1 DEF SourceWrites, SourceConcludes, vars, fileVars
  <2>2. ASSUME NEW c \in Callers, Call(c) \/ Step(c) \/ Crash(c)
        PROVE  handoffs'[t] = handoffs[t]
    <3>1. CASE pc[c] = "record" /\ job[c].key.token = t
      <4>1. bindings[TargetKey(t)] = BuiltRequest(c)
        BY <3>1 DEF IInv, CallerInv, Knows
      <4>2. \A d \in handoffs[t] : d = digest[c]
        BY <4>1 DEF IInv, ProvenanceMatches, BuiltRequest
      <4>3. handoffs[t] = {digest[c]}
        BY <4>2
      <4> QED
        BY <2>2, <3>1, <4>3, FileEffects DEF IInv, TypeOK
    <3>2. CASE ~(pc[c] = "record" /\ job[c].key.token = t)
      BY <2>2, <3>2, FileEffects DEF IInv, TypeOK
    <3> QED
      BY <3>1, <3>2
  <2> QED
    BY <2>1, <2>2 DEF Next
<1> QED
  BY <1>1, Invariance, PTL DEF Spec, ProvenanceIsStable

\* A retry token does what OnceContract promises: it stands for at most one request,
\* and at most one native process is ever started for it.
THEOREM OnceHolds == Spec => ImplementsOnce
<1>1. Init => Once!Init
  BY DEF Init, Once!Init
<1>2. IInv /\ [Next]_vars => [Once!Next]_(Once!onceVars)
  <2> SUFFICES ASSUME IInv, [Next]_vars
               PROVE  Once!Next \/ UNCHANGED <<bindings, launches>>
    BY DEF Once!onceVars
  <2>1. CASE SourceWrites \/ SourceConcludes \/ UNCHANGED vars
    BY <2>1 DEF SourceWrites, SourceConcludes, vars, fileVars
  <2>2. ASSUME NEW c \in Callers, Call(c) \/ Step(c) \/ Crash(c)
        PROVE  Once!Next \/ UNCHANGED <<bindings, launches>>
    <3> DEFINE k == CurrentKey(c)
    <3>1. CASE pc[c] \in {"bind", "bindHandoff"}
                  /\ bindings' = [bindings EXCEPT ![k] = CurrentRequest(c)]
      <4>1. pc[c] # "idle" /\ k \in Key /\ CurrentRequest(c) \in Request
        BY <3>1, AtWork DEF IInv
      <4>2. bindings[k] = None
        BY <3>1, HandoffHolds, RequestKind DEF IInv, CallerInv, Knows, Planning, HandoffOnly
      <4>3. launches' = launches
        BY <2>2, <3>1, FileEffects
      <4>4. bindings'[k] = CurrentRequest(c)
        BY <3>1, <4>1 DEF IInv, TypeOK
      <4> HIDE DEF k
      <4>5. Once!Decide(k)
        BY <3>1, <4>1, <4>2, <4>3, <4>4 DEF Once!Decide
      <4> QED
        BY <4>1, <4>5 DEF Once!Next
    <3>2. CASE pc[c] = "launch" /\ launches' = [launches EXCEPT ![k] = @ + 1]
      <4>1. k \in Key /\ CurrentRequest(c) # None
        BY <3>2, AtWork DEF IInv
      <4>2. bindings[k] # None /\ launches[k] = 0
        BY <3>2, <4>1 DEF IInv, CallerInv, Knows
      <4>3. bindings' = bindings
        BY <2>2, <3>2, FileEffects
      <4>4. launches' = [launches EXCEPT ![k] = 1]
        BY <3>2, <4>2
      <4> HIDE DEF k
      <4>5. Once!Launch(k)
        BY <4>1, <4>2, <4>3, <4>4 DEF Once!Launch
      <4> QED
        BY <4>1, <4>5 DEF Once!Next
    <3>3. CASE UNCHANGED <<bindings, launches>>
      BY <3>3
    <3> QED
      BY <2>2, <3>1, <3>2, <3>3, FileEffects
  <2> QED
    BY <2>1, <2>2 DEF Next
<1> QED
  BY <1>1, <1>2, Invariance, PTL DEF Spec, ImplementsOnce, Once!Spec

================================================================================
