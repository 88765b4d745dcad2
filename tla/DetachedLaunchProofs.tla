-------------------------- MODULE DetachedLaunchProofs --------------------------
(***************************************************************************)
(* DetachedLaunch for any number of calls, definitions and crashes.  The   *)
(* argument is that the creation of the stream files elects one call, the  *)
(* owner: while there is none the envelope says at most queued, an owner   *)
(* finds it queued until it publishes, and every later envelope comes from *)
(* the owner, from its worker, or is a queued one of a call that lost.     *)
(***************************************************************************)
EXTENDS DetachedLaunch, TLAPS

\* Call s has created the stream files and still acts, or it has a worker.
Owner(s) == spc[s] \in {"popen", "publish", "fail"} \/ wpc[s] # "none"

OwnerInv ==
    /\ \A s, t \in Starters : Owner(s) /\ Owner(t) => s = t
    /\ \A s \in Starters : Owner(s) => streams
    /\ \A s \in Starters : spc[s] \in {"popen", "fail"} => wpc[s] = "none"
    /\ \A s \in Starters : spc[s] = "publish" => wpc[s] # "none"

\* What a call between its check and its publication knows of the envelope.
QueueInv ==
    /\ launch.status = "none" => launch = NoEnvelope
    /\ ~streams => launch \in {NoEnvelope, Queued}
    /\ \A s \in Starters : spc[s] = "touch" => launch.status # "none"
    /\ \A s \in Starters : spc[s] \in {"request", "queue"} => answer[s] = NoEnvelope
    /\ \A s \in Starters : spc[s] \in {"popen", "publish", "fail"} =>
        launch = Queued /\ wpc[s] \in {"none", "begun", "waiting", "gaveUp", "crashed"}

\* Where the envelopes behind queued come from.
EnvelopeInv ==
    /\ launch.pid # {} => \E s \in Starters : launch.pid = {s} /\ wpc[s] # "none"
    /\ launch.status = "running" => launch.pid # {}
    /\ launch.status = "failed" =>
        \/ \E s \in Starters : wpc[s] = "done"
        \/ streams /\ \A s \in Starters : ~Owner(s)
    /\ \A s \in Starters : wpc[s] = "succeed" => result = wanted[s]

Inv == TypeOK /\ OwnerInv /\ QueueInv /\ EnvelopeInv /\ WorkIsRecorded /\ VerdictHasResult

-----------------------------------------------------------------------------
LEMMA Envelopes ==
    /\ NoEnvelope \in Envelope /\ Queued \in Envelope
    /\ \A s \in Starters : [status |-> "running", pid |-> {s}] \in Envelope
    /\ [status |-> "failed", pid |-> {}] \in Envelope
    /\ \A e \in Envelope :
        /\ [status |-> "succeeded", pid |-> e.pid] \in Envelope
        /\ [status |-> "failed", pid |-> e.pid] \in Envelope
        /\ e.status \in Status /\ e.pid \in SUBSET Starters
BY DEF NoEnvelope, Queued, Envelope, Status

LEMMA Initially == Init => Inv
<1> SUFFICES ASSUME Init PROVE Inv
  OBVIOUS
<1>1. TypeOK
  BY Envelopes DEF Init, TypeOK, DefinitionOrNone, StarterPc, WorkerPc
<1>2. OwnerInv /\ QueueInv
  BY DEF Init, OwnerInv, QueueInv, Owner, NoEnvelope
<1>3. EnvelopeInv /\ WorkIsRecorded /\ VerdictHasResult
  BY DEF Init, EnvelopeInv, WorkIsRecorded, VerdictHasResult, Owner, NoEnvelope
<1> QED  BY <1>1, <1>2, <1>3 DEF Inv

\* Every step keeps the variables in their types.
LEMMA TypeStep == TypeOK /\ [Next]_vars => TypeOK'
<1> SUFFICES ASSUME TypeOK, [Next]_vars PROVE TypeOK'
  OBVIOUS
<1> USE Envelopes DEF TypeOK, DefinitionOrNone, StarterPc, WorkerPc, Goto, WGoto
<1>1. CASE UNCHANGED vars
  BY <1>1 DEF vars
<1>2. ASSUME NEW s \in Starters, NEW d \in Definitions, Check(s, d) PROVE TypeOK'
  BY <1>2 DEF Check, workerVars
<1>3. ASSUME NEW s \in Starters, Start(s) PROVE TypeOK'
  <2>1. CASE Compare(s)
    BY <2>1 DEF Compare, workerVars
  <2>2. CASE WriteRequest(s)
    BY <2>2 DEF WriteRequest, workerVars
  <2>3. CASE WriteQueued(s)
    BY <2>3 DEF WriteQueued, workerVars
  <2>4. CASE Touch(s)
    BY <2>4 DEF Touch, workerVars
  <2>5. CASE Popen(s)
    BY <2>5 DEF Popen, workerVars
  <2>6. CASE PopenFails(s)
    BY <2>6 DEF PopenFails, workerVars
  <2>7. CASE WriteRunning(s)
    BY <2>7 DEF WriteRunning, Publish, workerVars
  <2>8. CASE WriteFailed(s)
    BY <2>8 DEF WriteFailed, Publish, workerVars
  <2> QED  BY <1>3, <2>1, <2>2, <2>3, <2>4, <2>5, <2>6, <2>7, <2>8 DEF Start
<1>4. ASSUME NEW s \in Starters, StarterCrashes(s) PROVE TypeOK'
  BY <1>4 DEF StarterCrashes, workerVars
<1>5. ASSUME NEW s \in Starters, WorkerCrashes(s) PROVE TypeOK'
  BY <1>5 DEF WorkerCrashes, starterVars
<1>6. ASSUME NEW s \in Starters, Work(s) PROVE TypeOK'
  <2>1. CASE ReadRequest(s)
    BY <2>1 DEF ReadRequest, starterVars
  <2>2. CASE SeeEnvelope(s)
    BY <2>2 DEF SeeEnvelope, starterVars
  <2>3. CASE DeadlineExpires(s)
    BY <2>3 DEF DeadlineExpires, starterVars
  <2>4. CASE WorkEnds(s)
    BY <2>4 DEF WorkEnds, starterVars
  <2>5. CASE WriteResult(s)
    BY <2>5 DEF WriteResult, starterVars
  <2>6. CASE WriteVerdict(s)
    BY <2>6 DEF WriteVerdict, starterVars
  <2> QED  BY <1>6, <2>1, <2>2, <2>3, <2>4, <2>5, <2>6 DEF Work
<1> QED  BY <1>1, <1>2, <1>3, <1>4, <1>5, <1>6 DEF Next

\* The invariant behind the type: each step of a call.
LEMMA StarterStep ==
    ASSUME Inv, TypeOK', NEW s \in Starters,
           (\E d \in Definitions : Check(s, d)) \/ Start(s) \/ StarterCrashes(s)
    PROVE  Inv'
<1> USE DEF Inv, TypeOK, OwnerInv, QueueInv, EnvelopeInv, WorkIsRecorded, VerdictHasResult,
        Owner, Goto, workerVars
<1>1. ASSUME NEW d \in Definitions, Check(s, d) PROVE Inv'
  BY <1>1 DEF Check
<1>2. CASE Compare(s)
  BY <1>2 DEF Compare
<1>3. CASE WriteRequest(s)
  BY <1>3 DEF WriteRequest
<1>4. CASE WriteQueued(s)
  BY <1>4 DEF WriteQueued, Queued
<1>5. CASE Touch(s)
  BY <1>5 DEF Touch, NoEnvelope, Queued
<1>6. CASE Popen(s)
  BY <1>6 DEF Popen, Queued
<1>7. CASE PopenFails(s)
  BY <1>7 DEF PopenFails
<1>8. CASE WriteRunning(s)
  BY <1>8 DEF WriteRunning, Publish
<1>9. CASE WriteFailed(s)
  BY <1>9 DEF WriteFailed, Publish
<1>10. CASE StarterCrashes(s)
  BY <1>10 DEF StarterCrashes
<1> QED  BY <1>1, <1>2, <1>3, <1>4, <1>5, <1>6, <1>7, <1>8, <1>9, <1>10 DEF Start

\* And each step of a worker.
LEMMA WorkerStep ==
    ASSUME Inv, TypeOK', NEW s \in Starters, Work(s) \/ WorkerCrashes(s)
    PROVE  Inv'
<1> USE DEF Inv, TypeOK, OwnerInv, QueueInv, EnvelopeInv, WorkIsRecorded, VerdictHasResult,
        Owner, WGoto, starterVars
<1>1. CASE ReadRequest(s)
  BY <1>1 DEF ReadRequest
<1>2. CASE SeeEnvelope(s)
  BY <1>2 DEF SeeEnvelope, Queued
<1>3. CASE DeadlineExpires(s)
  BY <1>3 DEF DeadlineExpires
<1>4. CASE WorkEnds(s)
  BY <1>4 DEF WorkEnds
<1>5. CASE WriteResult(s)
  BY <1>5 DEF WriteResult
<1>6. CASE WriteVerdict(s)
  BY <1>6 DEF WriteVerdict, Envelope
<1>7. CASE WorkerCrashes(s)
  BY <1>7 DEF WorkerCrashes
<1> QED  BY <1>1, <1>2, <1>3, <1>4, <1>5, <1>6, <1>7 DEF Work

LEMMA NextStep == Inv /\ [Next]_vars => Inv'
<1> SUFFICES ASSUME Inv, [Next]_vars PROVE Inv'
  OBVIOUS
<1>1. TypeOK'
  BY TypeStep DEF Inv
<1>2. CASE UNCHANGED vars
  BY <1>2 DEF vars, Inv, TypeOK, OwnerInv, QueueInv, EnvelopeInv, WorkIsRecorded,
      VerdictHasResult, Owner
<1>3. ASSUME NEW s \in Starters,
             (\E d \in Definitions : Check(s, d)) \/ Start(s) \/ StarterCrashes(s)
      PROVE  Inv'
  BY <1>1, <1>3, StarterStep
<1>4. ASSUME NEW s \in Starters, Work(s) \/ WorkerCrashes(s) PROVE Inv'
  BY <1>1, <1>4, WorkerStep
<1> QED  BY <1>2, <1>3, <1>4 DEF Next

-----------------------------------------------------------------------------
\* The invariant the theorems below are read from: there is at most one owner, and the
\* envelope is what the owner, its worker, or a call that lost has written.
THEOREM Invariance == Spec => []Inv
<1> QED  BY Initially, NextStep, PTL DEF Spec

\* The files and the processes of a launch keep to their types.
THEOREM TypeCorrect == Spec => []TypeOK
<1>1. Inv => TypeOK
  BY DEF Inv
<1> QED  BY <1>1, Invariance, PTL

\* start, called by any number of processes for one strategy_id, starts one worker.
THEOREM OneWorkerHolds == Spec => []OneWorker
<1>1. Inv => OneWorker
  BY DEF Inv, OwnerInv, Owner, OneWorker
<1> QED  BY <1>1, Invariance, PTL

\* A worker executes only after _wait_for_launch_record has seen its own pid.
THEOREM WorkIsRecordedHolds == Spec => []WorkIsRecorded
<1>1. Inv => WorkIsRecorded
  BY DEF Inv
<1> QED  BY <1>1, Invariance, PTL

\* An envelope that says succeeded stands beside the result it speaks of.
THEOREM VerdictHasResultHolds == Spec => []VerdictHasResult
<1>1. Inv => VerdictHasResult
  BY DEF Inv
<1> QED  BY <1>1, Invariance, PTL

\* What may follow an envelope that says running or carries a verdict.
THEOREM EnvelopeGoesOnHolds == Spec => EnvelopeGoesOn
<1> DEFINE Later ==
        launch.status \in {"running", "succeeded", "failed"} /\ launch' # launch =>
            \/ /\ launch.status = "running" /\ launch'.status \in {"succeeded", "failed"}
               /\ launch'.pid = launch.pid
            \/ /\ launch' = Queued
               /\ \E s \in Starters : spc[s] = "queue" /\ answer[s] = NoEnvelope
<1>1. Inv /\ [Next]_vars => [Later]_vars
  <2> SUFFICES ASSUME Inv, Next, launch.status \in {"running", "succeeded", "failed"},
                      launch' # launch
               PROVE  \/ /\ launch.status = "running"
                         /\ launch'.status \in {"succeeded", "failed"}
                         /\ launch'.pid = launch.pid
                      \/ /\ launch' = Queued
                         /\ \E s \in Starters : spc[s] = "queue" /\ answer[s] = NoEnvelope
    OBVIOUS
  <2>1. PICK s \in Starters :
            WriteQueued(s) \/ WriteRunning(s) \/ WriteFailed(s) \/ WriteVerdict(s)
    BY DEF Next, Start, Work, Check, Compare, WriteRequest, Touch, Popen, PopenFails,
        StarterCrashes, ReadRequest, SeeEnvelope, DeadlineExpires, WorkEnds, WriteResult,
        WorkerCrashes
  <2>2. CASE WriteQueued(s)
    BY <2>2 DEF WriteQueued, Inv, QueueInv
  <2>3. CASE WriteRunning(s) \/ WriteFailed(s)
    <3>1. launch = Queued
      BY <2>3 DEF WriteRunning, WriteFailed, Inv, QueueInv
    <3> QED  BY <3>1 DEF Queued
  <2>4. CASE WriteVerdict(s)
    <3>1. wpc[s] \in {"succeed", "fail"} /\ seen[s].pid = {s} /\ Owner(s)
      BY <2>4 DEF WriteVerdict, Inv, WorkIsRecorded, Owner
    <3>2. \A t \in Starters : wpc[t] # "none" => t = s
      BY <3>1 DEF Inv, OwnerInv, Owner
    <3>3. launch.status = "running" /\ launch.pid = {s}
      BY <3>1, <3>2 DEF Inv, EnvelopeInv, VerdictHasResult
    <3> QED  BY <2>4, <3>1, <3>3 DEF WriteVerdict
  <2> QED  BY <2>1, <2>2, <2>3, <2>4
<1> QED  BY <1>1, Invariance, PTL DEF Spec, EnvelopeGoesOn

-----------------------------------------------------------------------------
(***************************************************************************)
(* The refinement of LaunchContract.                                       *)
(***************************************************************************)
Before == {"idle", "request", "queue", "touch", "popen", "publish", "fail"}

\* What is known of the definitions that are passed on through request.json.
WantedInv ==
    /\ \A s \in Starters : spc[s] = "request" => asked[s] \in Definitions
    /\ \A s \in Starters : spc[s] \in {"queue", "touch"} \/ streams => request \in Definitions
    /\ \A s \in Starters : wpc[s] = "waiting" \/ s \in Begun => wanted[s] \in Definitions

\* Who has begun: the worker of a call that has published its pid.
BegunInv ==
    \A s \in Starters :
        /\ wpc[s] \in {"none", "begun", "waiting", "gaveUp"} => seen[s] = NoEnvelope
        /\ wpc[s] \in {"working", "result", "succeed", "fail", "done"} => seen[s] # NoEnvelope
        /\ spc[s] \in {"popen", "publish", "fail"} => seen[s] = NoEnvelope

\* After the verdict nobody is at work or may begin.
OverInv ==
    /\ \A s \in Starters : spc[s] \in Before => answer[s] = NoEnvelope
    /\ launch.status \in {"succeeded", "failed"} => Over
    /\ launch.status \in {"none", "queued"} => launch.pid = {}
    /\ Over =>
        /\ streams
        /\ \A s \in Starters : /\ wpc[s] \in {"none", "done"}
                               /\ spc[s] \notin {"popen", "publish", "fail"}

RefInv == WantedInv /\ BegunInv /\ OverInv

LEMMA RefInitially == Init => RefInv
BY DEF Init, RefInv, WantedInv, BegunInv, OverInv, Over, Begun, NoEnvelope

LEMMA StarterKeepsRef ==
    ASSUME Inv, TypeOK', RefInv, NEW s \in Starters,
           (\E d \in Definitions : Check(s, d)) \/ Start(s) \/ StarterCrashes(s)
    PROVE  RefInv'
<1> USE DEF TypeOK, Goto, workerVars
<1>1. WantedInv'
  <2> USE DEF RefInv, WantedInv, Begun
  <2>1. ASSUME NEW d \in Definitions, Check(s, d) PROVE WantedInv'
    BY <2>1 DEF Check, Inv
  <2>2. CASE Compare(s) \/ WriteRequest(s) \/ WriteQueued(s) \/ StarterCrashes(s)
    BY <2>2 DEF Compare, WriteRequest, WriteQueued, StarterCrashes, Inv
  <2>3. CASE Touch(s)
    BY <2>3 DEF Touch, Inv
  <2>4. CASE Popen(s) \/ PopenFails(s)
    BY <2>4 DEF Popen, PopenFails, Inv
  <2>5. CASE WriteRunning(s) \/ WriteFailed(s)
    BY <2>5 DEF WriteRunning, WriteFailed, Publish, Inv
  <2> QED  BY <2>1, <2>2, <2>3, <2>4, <2>5 DEF Start
<1>2. BegunInv'
  <2> USE DEF RefInv, BegunInv
  <2>1. ASSUME NEW d \in Definitions, Check(s, d) PROVE BegunInv'
    BY <2>1 DEF Check, Inv
  <2>2. CASE Compare(s) \/ WriteRequest(s) \/ WriteQueued(s) \/ StarterCrashes(s)
    BY <2>2 DEF Compare, WriteRequest, WriteQueued, StarterCrashes, Inv
  <2>3. CASE Touch(s)
    BY <2>3 DEF Touch, Inv, OwnerInv, Owner
  <2>4. CASE Popen(s) \/ PopenFails(s)
    BY <2>4 DEF Popen, PopenFails, Inv
  <2>5. CASE WriteRunning(s) \/ WriteFailed(s)
    BY <2>5 DEF WriteRunning, WriteFailed, Publish, Inv
  <2> QED  BY <2>1, <2>2, <2>3, <2>4, <2>5 DEF Start
<1>3. OverInv'
  <2> USE DEF RefInv, OverInv, Over, Before
  <2>1. ASSUME NEW d \in Definitions, Check(s, d) PROVE OverInv'
    <3>1. answer[s] = NoEnvelope /\ UNCHANGED <<launch, streams, workerVars>>
      BY <2>1 DEF Check
    <3>2. /\ answer' = [answer EXCEPT ![s] = launch]
          /\ spc' = [spc EXCEPT ![s] = IF launch.status = "none" THEN "request" ELSE "compare"]
      BY <2>1 DEF Check
    <3>3. launch.status \in {"succeeded", "failed"} => Over
      OBVIOUS
    <3>4. Over' = Over
      BY <3>1, <3>2, <3>3 DEF workerVars, Inv, NoEnvelope
    <3>5. \A t \in Starters : spc'[t] \in Before => answer'[t] = NoEnvelope
      <4>1. CASE launch.status = "none"
        <5>1. launch = NoEnvelope
          BY <4>1 DEF Inv, NoEnvelope, Envelope
        <5>2. answer' = answer
          BY <3>1, <3>2, <5>1 DEF Inv
        <5> QED  BY <3>1, <3>2, <5>2 DEF Inv
      <4>2. CASE launch.status # "none"
        BY <3>2, <4>2 DEF Inv
      <4> QED  BY <4>1, <4>2
    <3>6. Over' => /\ streams'
                   /\ \A t \in Starters : /\ wpc'[t] \in {"none", "done"}
                                          /\ spc'[t] \notin {"popen", "publish", "fail"}
      BY <3>1, <3>2, <3>4 DEF workerVars, Inv
    <3> QED  BY <3>1, <3>3, <3>4, <3>5, <3>6
  <2>2. CASE Compare(s) \/ WriteRequest(s) \/ StarterCrashes(s)
    BY <2>2 DEF Compare, WriteRequest, StarterCrashes, Inv
  <2>3. CASE WriteQueued(s)
    BY <2>3 DEF WriteQueued, Inv, Queued
  <2>4. CASE Touch(s)
    BY <2>4 DEF Touch, Inv
  <2>5. CASE Popen(s) \/ PopenFails(s)
    BY <2>5 DEF Popen, PopenFails, Inv
  <2>6. CASE WriteRunning(s)
    BY <2>6 DEF WriteRunning, Publish, Inv
  <2>7. CASE WriteFailed(s)
    BY <2>7 DEF WriteFailed, Publish, Inv, OwnerInv, Owner
  <2> QED  BY <2>1, <2>2, <2>3, <2>4, <2>5, <2>6, <2>7 DEF Start
<1> QED  BY <1>1, <1>2, <1>3 DEF RefInv

LEMMA WorkerKeepsRef ==
    ASSUME Inv, TypeOK', RefInv, NEW s \in Starters, Work(s) \/ WorkerCrashes(s)
    PROVE  RefInv'
<1> USE DEF TypeOK, WGoto, starterVars
<1>1. WantedInv'
  <2> USE DEF RefInv, WantedInv, Begun
  <2>1. CASE ReadRequest(s)
    BY <2>1 DEF ReadRequest, Inv, OwnerInv, Owner
  <2>2. CASE SeeEnvelope(s)
    BY <2>2 DEF SeeEnvelope, Inv
  <2>3. CASE DeadlineExpires(s) \/ WorkEnds(s) \/ WriteResult(s) \/ WorkerCrashes(s)
    BY <2>3 DEF DeadlineExpires, WorkEnds, WriteResult, WorkerCrashes, Inv
  <2>4. CASE WriteVerdict(s)
    BY <2>4 DEF WriteVerdict, Inv
  <2> QED  BY <2>1, <2>2, <2>3, <2>4 DEF Work
<1>2. BegunInv'
  <2> USE DEF RefInv, BegunInv
  <2>1. CASE ReadRequest(s)
    BY <2>1 DEF ReadRequest, Inv
  <2>2. CASE SeeEnvelope(s)
    BY <2>2 DEF SeeEnvelope, Inv, OwnerInv, QueueInv, Queued, NoEnvelope
  <2>3. CASE DeadlineExpires(s) \/ WorkEnds(s) \/ WriteResult(s) \/ WorkerCrashes(s)
    BY <2>3 DEF DeadlineExpires, WorkEnds, WriteResult, WorkerCrashes, Inv
  <2>4. CASE WriteVerdict(s)
    BY <2>4 DEF WriteVerdict, Inv
  <2> QED  BY <2>1, <2>2, <2>3, <2>4 DEF Work
<1>3. OverInv'
  <2> USE DEF RefInv, OverInv, Over, Before
  <2>1. CASE ReadRequest(s)
    BY <2>1 DEF ReadRequest, Inv
  <2>2. CASE SeeEnvelope(s)
    BY <2>2 DEF SeeEnvelope, Inv
  <2>3. CASE DeadlineExpires(s) \/ WorkEnds(s) \/ WriteResult(s)
    BY <2>3 DEF DeadlineExpires, WorkEnds, WriteResult, Inv
  <2>4. CASE WriteVerdict(s)
    BY <2>4 DEF WriteVerdict, Inv, OwnerInv, Owner, QueueInv
  <2>5. CASE WorkerCrashes(s)
    BY <2>5 DEF WorkerCrashes, Inv
  <2> QED  BY <2>1, <2>2, <2>3, <2>4, <2>5 DEF Work
<1> QED  BY <1>1, <1>2, <1>3 DEF RefInv

LEMMA RefStep == Inv /\ RefInv /\ [Next]_vars => RefInv'
<1> SUFFICES ASSUME Inv, RefInv, [Next]_vars PROVE RefInv'
  OBVIOUS
<1>1. TypeOK'
  BY TypeStep DEF Inv
<1>2. CASE UNCHANGED vars
  BY <1>2 DEF vars, RefInv, WantedInv, BegunInv, OverInv, Over, Begun
<1> QED  BY <1>1, <1>2, StarterKeepsRef, WorkerKeepsRef DEF Next

Executed == {wanted[s] : s \in Begun}

\* What LaunchContract sees stays as it is.
Unseen == UNCHANGED <<launch, result, Executed, Over>>

LEMMA UnseenStutters == Unseen => UNCHANGED Contract!contractVars
BY DEF Unseen, Executed, Contract!contractVars

\* A worker that has begun is the only one that has.
LEMMA Worked ==
    ASSUME Inv, RefInv, NEW s \in Starters,
           wpc[s] \in {"working", "result", "succeed", "fail", "done"}
    PROVE  Begun = {s} /\ Executed = {wanted[s]}
<1>1. s \in Begun
  BY DEF RefInv, BegunInv, Begun
<1>2. ASSUME NEW t \in Begun PROVE t = s
  <2>1. t \in Starters /\ wpc[t] # "none"
    BY DEF RefInv, BegunInv, Begun, Inv, TypeOK
  <2> QED  BY <2>1 DEF Inv, OwnerInv, Owner
<1> QED  BY <1>1, <1>2 DEF Executed

LEMMA StarterRefines ==
    ASSUME Inv, RefInv, RefInv', NEW s \in Starters,
           (\E d \in Definitions : Check(s, d)) \/ Start(s) \/ StarterCrashes(s)
    PROVE  Contract!Next \/ Unseen
<1> USE DEF Inv, TypeOK, Goto, workerVars, Unseen
<1>1. ASSUME UNCHANGED <<wanted, seen>> PROVE Executed' = Executed
  BY <1>1 DEF Executed, Begun
<1>2. ASSUME UNCHANGED wpc, UNCHANGED answer PROVE Over' = Over
  BY <1>2 DEF Over
<1>3. ASSUME NEW d \in Definitions, Check(s, d) PROVE Unseen
  <2>1. answer[s] = NoEnvelope /\ answer' = [answer EXCEPT ![s] = launch] /\ UNCHANGED wpc
    BY <1>3 DEF Check, RefInv, OverInv, Before
  <2>2. Over' = Over
    BY <2>1 DEF Over, RefInv, OverInv, NoEnvelope
  <2> QED  BY <1>1, <1>3, <2>2 DEF Check
<1>4. CASE Compare(s) \/ WriteRequest(s) \/ Touch(s) \/ PopenFails(s) \/ StarterCrashes(s)
  BY <1>1, <1>2, <1>4 DEF Compare, WriteRequest, Touch, PopenFails, StarterCrashes
<1>5. CASE Popen(s)
  <2>1. Over' = Over
    BY <1>5 DEF Popen, Over, OwnerInv
  <2> QED  BY <1>1, <1>5, <2>1 DEF Popen
<1>6. CASE WriteQueued(s)
  <2>1. launch'.status = "queued" /\ UNCHANGED <<result, Executed, Over>>
    BY <1>1, <1>2, <1>6 DEF WriteQueued, Queued
  <2> QED  BY <2>1 DEF Contract!Next, Contract!Queue, Executed
<1>7. CASE WriteRunning(s) \/ WriteFailed(s)
  <2>1. launch = Queued /\ ~Over /\ Begun = {}
    <3>1. launch = Queued /\ ~Over /\ Owner(s) /\ seen[s] = NoEnvelope
      BY <1>7 DEF WriteRunning, WriteFailed, QueueInv, RefInv, OverInv, BegunInv, Owner
    <3>2. \A t \in Starters : t # s => wpc[t] = "none"
      BY <3>1 DEF OwnerInv, Owner
    <3> QED  BY <3>1, <3>2 DEF Begun, RefInv, BegunInv
  <2>2. Executed = {} /\ Executed' = Executed /\ launch.status = "queued"
    BY <1>1, <1>7, <2>1 DEF WriteRunning, WriteFailed, Publish, Executed, Queued
  <2>3. CASE WriteRunning(s)
    <3>1. launch'.status = "running" /\ answer'[s].status = "running"
      BY <2>3 DEF WriteRunning, Publish
    <3>2. Over' = Over
      BY <2>1, <2>3, <3>1 DEF WriteRunning, Publish, Over
    <3> QED  BY <2>1, <2>2, <2>3, <3>1, <3>2
             DEF WriteRunning, Publish, Contract!Next, Contract!Report, Executed
  <2>4. CASE WriteFailed(s)
    <3>1. launch'.status = "failed" /\ answer'[s].status = "failed"
      BY <2>4 DEF WriteFailed, Publish
    <3>2. Over' = TRUE
      BY <3>1 DEF Over
    <3> QED  BY <2>1, <2>2, <2>4, <3>1, <3>2
             DEF WriteFailed, Publish, Contract!Next, Contract!Fail, Executed
  <2> QED  BY <1>7, <2>3, <2>4
<1> QED  BY <1>3, <1>4, <1>5, <1>6, <1>7 DEF Start

LEMMA WorkerRefines ==
    ASSUME Inv, RefInv, RefInv', NEW s \in Starters, Work(s) \/ WorkerCrashes(s)
    PROVE  Contract!Next \/ Unseen
<1> USE DEF Inv, TypeOK, WGoto, starterVars, Unseen
<1>1. ASSUME UNCHANGED <<wanted, seen>> PROVE Executed' = Executed
  BY <1>1 DEF Executed, Begun
<1>2. CASE ReadRequest(s)
  <2>1. s \notin Begun /\ Begun' = Begun
    BY <1>2 DEF ReadRequest, Begun, RefInv, BegunInv
  <2>2. \A t \in Begun : wanted'[t] = wanted[t]
    BY <1>2, <2>1 DEF ReadRequest, Begun
  <2>3. Executed' = Executed
    BY <2>1, <2>2 DEF Executed
  <2>4. Over' = Over
    BY <1>2 DEF ReadRequest, Over
  <2> QED  BY <1>2, <2>3, <2>4 DEF ReadRequest
<1>3. CASE SeeEnvelope(s)
  <2>1. /\ ~Over /\ launch.status = "running" /\ launch \in Envelope
        /\ seen[s] = NoEnvelope /\ wanted[s] \in Definitions
    BY <1>3, Envelopes DEF SeeEnvelope, RefInv, OverInv, BegunInv, WantedInv, Status
  <2>2. \A t \in Starters : t # s => wpc[t] = "none"
    BY <1>3 DEF SeeEnvelope, OwnerInv, Owner
  <2>3. Begun = {}
    BY <2>1, <2>2 DEF Begun, RefInv, BegunInv
  <2>4. Begun' = {s} /\ wanted' = wanted
    BY <1>3, <2>1, <2>2, <2>3 DEF SeeEnvelope, Begun, NoEnvelope
  <2>5. Executed = {} /\ Executed' = {wanted[s]}
    BY <2>3, <2>4 DEF Executed
  <2>6. Over' = Over
    BY <1>3, <2>1 DEF SeeEnvelope, Over
  <2>7. Contract!Execute(wanted[s])
    BY <1>3, <2>1, <2>5, <2>6 DEF SeeEnvelope, Contract!Execute, Executed
  <2>8. PICK d \in Definitions : d = wanted[s]
    BY <2>1
  <2>9. Contract!Execute(d)
    BY <2>7, <2>8 DEF Contract!Execute
  <2> QED  BY <2>9 DEF Contract!Next
<1>4. CASE DeadlineExpires(s) \/ WorkEnds(s) \/ WorkerCrashes(s)
  <2>1. Over' = Over
    BY <1>4 DEF DeadlineExpires, WorkEnds, WorkerCrashes, Over
  <2> QED  BY <1>1, <1>4, <2>1 DEF DeadlineExpires, WorkEnds, WorkerCrashes
<1>5. CASE WriteResult(s)
  <2>1. Executed = {wanted[s]} /\ ~Over
    BY <1>5, Worked DEF WriteResult, RefInv, OverInv
  <2>2. Over' = Over /\ Executed' = Executed
    BY <1>1, <1>5, <2>1 DEF WriteResult, Over
  <2> QED  BY <1>5, <2>1, <2>2 DEF WriteResult, Contract!Next, Contract!Produce, Executed
<1>6. CASE WriteVerdict(s)
  <2>1. Executed = {wanted[s]} /\ ~Over
    BY <1>6, Worked DEF WriteVerdict, RefInv, OverInv
  <2>2. Over' = TRUE /\ Executed' = Executed
    BY <1>1, <1>6 DEF WriteVerdict, Over
  <2>3. CASE wpc[s] = "succeed"
    <3>1. launch'.status = "succeeded" /\ result = wanted[s] /\ result' = result
      BY <1>6, <2>3 DEF WriteVerdict, EnvelopeInv
    <3> QED  BY <2>1, <2>2, <3>1 DEF Contract!Next, Contract!Succeed, Executed
  <2>4. CASE wpc[s] = "fail"
    <3>1. launch'.status = "failed" /\ result' = result
      BY <1>6, <2>4 DEF WriteVerdict
    <3> QED  BY <2>1, <2>2, <3>1 DEF Contract!Next, Contract!Fail, Executed
  <2> QED  BY <1>6, <2>3, <2>4 DEF WriteVerdict
<1> QED  BY <1>2, <1>3, <1>4, <1>5, <1>6 DEF Work

\* However many calls of start race, with workers and calls that die at any step, what
\* the launch envelope and the result show of it is what LaunchContract allows.
THEOREM LaunchHolds == Spec => ImplementsContract
<1>1. Init => Contract!Init
  BY DEF Init, Contract!Init, NoEnvelope, Begun, Over
<1>2. Inv /\ RefInv /\ [Next]_vars => RefInv'
  BY RefStep
<1>3. Inv /\ RefInv /\ RefInv' /\ [Next]_vars => [Contract!Next]_(Contract!contractVars)
  <2> SUFFICES ASSUME Inv, RefInv, RefInv', [Next]_vars
               PROVE  Contract!Next \/ UNCHANGED Contract!contractVars
    OBVIOUS
  <2>1. CASE UNCHANGED vars
    BY <2>1, UnseenStutters DEF vars, Unseen, Executed, Begun, Over
  <2>2. ASSUME Next PROVE Contract!Next \/ Unseen
    BY <2>2, StarterRefines, WorkerRefines DEF Next
  <2> QED  BY <2>1, <2>2, UnseenStutters
<1> QED
  BY <1>1, <1>2, <1>3, RefInitially, Invariance, PTL
     DEF Spec, ImplementsContract, Contract!Spec

================================================================================
