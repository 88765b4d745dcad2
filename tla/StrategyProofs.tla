----------------------------- MODULE StrategyProofs -----------------------------
(***************************************************************************)
(* Proofs about Strategies: what a Mission compiles to is valid; whoever   *)
(* executes a Strategy, and however many do at once, a success is earned   *)
(* and no Run is started twice; and with one caller at a time the Runs are *)
(* justified, the log follows the record, and the record implements        *)
(* StrategyContract.                                                       *)
(***************************************************************************)
EXTENDS StrategyRuntime, MissionCompiler, TLAPS

\* MissionCompiler.compile builds StrategyStage and StrategyDefinition objects, whose
\* validators raise: for no request, whatever it requires and however it is verified,
\* does a profile compile to a definition that they refuse.
THEOREM CompiledIsValid ==
    ASSUME NEW Objectives, NEW Paths, NEW request \in MissionRequest(Objectives, Paths)
    PROVE  ValidSequence(Compile(request))
<1>1. ValidSequence(DirectStrategy(request))
  <2> DEFINE d == DirectStrategy(request)
  <2>1. Len(d) = 2
    BY DEF DirectStrategy
  <2>2. /\ d[1].node = "native_run" /\ d[1].dependencies = {} /\ d[1].source = 0
        /\ d[1].validator = "none" /\ d[1].condition = "all_dependencies_succeeded"
        /\ d[1].action \in Actions /\ d[1].attempts = 1 /\ d[1].reads = {}
    BY DEF DirectStrategy, Verified, Stage, Actions
  <2>3. /\ d[2].node = "finish" /\ d[2].dependencies = {1} /\ d[2].source = 0
        /\ d[2].validator = "none" /\ d[2].condition = "all_dependencies_succeeded"
        /\ d[2].action \in Actions /\ d[2].attempts = 1 /\ d[2].reads = {}
    BY DEF DirectStrategy, Verified, Stage, Actions
  <2> HIDE DEF d
  <2>4. \A i \in 1..2 : ValidFields(d[i]) /\ ValidNode(d[i])
    <3>1. ValidFields(d[1]) /\ ValidNode(d[1])
      BY <2>2 DEF ValidFields, ValidNode, Nodes, Conditions, Validators, MaxAttempts
    <3>2. ValidFields(d[2]) /\ ValidNode(d[2])
      BY <2>3 DEF ValidFields, ValidNode, Nodes, Conditions, Validators, MaxAttempts
    <3> QED  BY <3>1, <3>2
  <2>5. \A i \in 1..2 : /\ d[i].dependencies \subseteq 1..(i - 1)
                        /\ d[i].source # 0 => d[i].source \in d[i].dependencies
                        /\ d[i].node = "finish" <=> i = 2
    BY <2>2, <2>3
  <2> QED  BY <2>1, <2>4, <2>5 DEF ValidSequence, MaxStages, d
<1>2. ValidSequence(ReviewStrategy(request))
  <2> DEFINE d == ReviewStrategy(request)
  <2>1. Len(d) = 5
    BY DEF ReviewStrategy
  <2>2. /\ d[1].node = "native_run" /\ d[1].dependencies = {} /\ d[1].source = 0
        /\ d[1].validator = "none" /\ d[1].condition = "all_dependencies_succeeded"
        /\ d[1].action \in Actions /\ d[1].attempts = 1 /\ d[1].reads = {}
    BY DEF ReviewStrategy, Verified, Stage, Actions
  <2>3. /\ d[2].node = "handoff" /\ d[2].dependencies = {1} /\ d[2].source = 1
        /\ d[2].validator = "none" /\ d[2].condition = "all_dependencies_succeeded"
        /\ d[2].action \in Actions /\ d[2].attempts = 1 /\ d[2].reads = {ResultKind}
    BY DEF ReviewStrategy, Verified, Stage, Actions
  <2>4. /\ d[3].node = "validator" /\ d[3].dependencies = {2} /\ d[3].source = 2
        /\ d[3].validator = "blocker_count" /\ d[3].condition = "all_dependencies_succeeded"
        /\ d[3].action \in Actions /\ d[3].attempts = 1 /\ d[3].reads = {BlockerPath}
    BY DEF ReviewStrategy, Verified, Stage, Actions
  <2>5. /\ d[4].node = "native_resume" /\ d[4].dependencies = {1, 3} /\ d[4].source = 1
        /\ d[4].validator = "none" /\ d[4].condition = "any_dependency_failed"
        /\ d[4].action \in Actions /\ d[4].attempts = 1 /\ d[4].reads = {}
    BY DEF ReviewStrategy, Verified, Stage, Actions
  <2>6. /\ d[5].node = "finish" /\ d[5].dependencies = {3, 4} /\ d[5].source = 0
        /\ d[5].validator = "none" /\ d[5].condition = "any_dependency_succeeded"
        /\ d[5].action \in Actions /\ d[5].attempts = 1 /\ d[5].reads = {}
    BY DEF ReviewStrategy, Verified, Stage, Actions
  <2> HIDE DEF d
  <2>7. \A i \in 1..5 : ValidFields(d[i]) /\ ValidNode(d[i])
    <3>1. ValidFields(d[1]) /\ ValidNode(d[1])
      BY <2>2 DEF ValidFields, ValidNode, Nodes, Conditions, Validators, MaxAttempts
    <3>2. ValidFields(d[2]) /\ ValidNode(d[2])
      BY <2>3 DEF ValidFields, ValidNode, Nodes, Conditions, Validators, MaxAttempts
    <3>3. ValidFields(d[3]) /\ ValidNode(d[3])
      BY <2>4 DEF ValidFields, ValidNode, Nodes, Conditions, Validators, MaxAttempts
    <3>4. ValidFields(d[4]) /\ ValidNode(d[4])
      BY <2>5 DEF ValidFields, ValidNode, Nodes, Conditions, Validators, MaxAttempts
    <3>5. ValidFields(d[5]) /\ ValidNode(d[5])
      BY <2>6 DEF ValidFields, ValidNode, Nodes, Conditions, Validators, MaxAttempts
    <3> QED  BY <3>1, <3>2, <3>3, <3>4, <3>5
  <2>8. \A i \in 1..5 : /\ d[i].dependencies \subseteq 1..(i - 1)
                        /\ d[i].source # 0 => d[i].source \in d[i].dependencies
                        /\ d[i].node = "finish" <=> i = 5
    BY <2>2, <2>3, <2>4, <2>5, <2>6
  <2> QED  BY <2>1, <2>7, <2>8 DEF ValidSequence, MaxStages, d
<1> QED  BY <1>1, <1>2 DEF Compile

-----------------------------------------------------------------------------
(* Types. *)

StageRecordSet == [status : StageStatus, attempts : 0..MaxAttempts, run : BoundKeys \cup {NoKey}]

RecordsOf(d) ==
    [definition : {d}, status : StrategyStatus \ {"none"},
     stages : [1..Len(d) -> StageRecordSet], current : 0..Len(d)]

Records == UNION {RecordsOf(d) : d \in Catalogue}

\* A record on disk says that its Run ended with code zero only if the executor concluded
\* it: whoever overwrites a verdict knows no exit code.
RunOK(run) ==
    /\ run = [state |-> run.state, verdict |-> run.verdict, task |-> run.task,
              expects |-> run.expects]
    /\ run.state \in RunState /\ run.verdict \in EndedRun \cup {"none"}
    /\ run.state \in {"none", "planned"} => run.verdict = "none"
    /\ run.state \in {"succeeded", "blocked"} => run.verdict = run.state

\* A caller that has got past the start works on a Stage.
Early == {"create", "logCreated", "start", "logStarted"}

Working == CallerPc \ (Away \cup Early)

\* A caller that is inside a tool, or holds its answer, works on a Stage of a provider.
InTool == {"launch", "inside", "evidence"}

Shared ==
    /\ record \in Records \cup {NoRecord}
    /\ \A ev \in log : ev.stage \in 0..MaxStages
    /\ runs = [k \in BoundKeys |-> runs[k]]
    /\ \A k \in BoundKeys : RunOK(runs[k])
    /\ report \in Reports

Results == [run : BoundKeys \cup {NoKey}, passed : BOOLEAN]

Own ==
    /\ pc \in [Callers -> CallerPc]
    /\ copy \in [Callers -> Records \cup {NoRecord}]
    /\ at \in [Callers -> 0..MaxStages]
    /\ attempt \in [Callers -> 0..MaxAttempts]
    /\ result \in [Callers -> Results]

\* What a place in execute asks of the record in memory, the Stage and the attempt.
TypedAt(place, r, i, n) ==
    /\ place \notin Away => r \in Records
    /\ place \in Working \/ n > 0 => i \in 1..Len(r.definition)
    /\ n > 0 => n <= r.definition[i].attempts
    /\ place = "begin" => n < r.definition[i].attempts
    /\ place \in Early \cup {"stage"} => n = 0
    /\ place \in InTool => r.definition[i].node \in ProviderNodes

TInv == Shared /\ Own /\ \A c \in Callers : TypedAt(pc[c], copy[c], at[c], attempt[c])

\* A step of caller c, and what it leaves the caller with.
Moves(c, place, r, i, n, res) ==
    /\ pc' = [pc EXCEPT ![c] = place]
    /\ copy' = [copy EXCEPT ![c] = r]
    /\ at' = [at EXCEPT ![c] = i]
    /\ attempt' = [attempt EXCEPT ![c] = n]
    /\ result' = [result EXCEPT ![c] = res]

NextAttempt(c) == attempt[c] + 1

StageVerdict(res) == IF res.passed THEN "succeeded" ELSE "failed"

PlaceAfterEvidence(c) ==
    IF result[c].passed \/ attempt[c] = Current(c).attempts THEN "logStage" ELSE "begin"

\* A step of the caller that only takes it to another place.
Goes(c, place) == Moves(c, place, copy[c], at[c], attempt[c], result[c])

-----------------------------------------------------------------------------
LEMMA DefinitionIsValid ==
    ASSUME NEW r \in Records
    PROVE  /\ r.definition \in Catalogue
           /\ Len(r.definition) \in 1..MaxStages
           /\ r \in RecordsOf(r.definition)
           /\ \A i \in 1..Len(r.definition) :
                 /\ ValidFields(r.definition[i]) /\ ValidNode(r.definition[i])
                 /\ r.definition[i].attempts \in 1..MaxAttempts
                 /\ r.definition[i].dependencies \subseteq 1..(i - 1)
                 /\ r.definition[i].source # 0
                       => r.definition[i].source \in r.definition[i].dependencies
<1>1. r.definition \in Catalogue /\ r \in RecordsOf(r.definition)
    BY DEF Records, RecordsOf
<1>2. ValidSequence(r.definition)
    BY <1>1, CatalogueAssumption
<1> QED
    BY <1>1, <1>2 DEF ValidSequence, ValidNode

LEMMA NoRecordIsNone == NoRecord \notin Records
BY DEF NoRecord, Records, RecordsOf

\* A record of an aggregate is its four fields.
RecordWith(d, status, stages, current) ==
    [definition |-> d, status |-> status, current |-> current, stages |-> stages]

LEMMA RecordIsFields ==
    ASSUME NEW r \in Records
    PROVE  /\ r = RecordWith(r.definition, r.status, r.stages, r.current)
           /\ r.status \in StrategyStatus \ {"none"}
           /\ r.stages \in [1..Len(r.definition) -> StageRecordSet]
           /\ r.current \in 0..Len(r.definition)
<1>1. PICK d \in Catalogue : r \in RecordsOf(d)
    BY DEF Records
<1>2. r.definition = d
    BY <1>1 DEF RecordsOf
<1>3. r = RecordWith(r.definition, r.status, r.stages, r.current)
    BY <1>1 DEF RecordsOf, RecordWith
<1> QED
    BY <1>1, <1>2, <1>3 DEF RecordsOf

LEMMA FieldsAreRecord ==
    ASSUME NEW d \in Catalogue, NEW status \in StrategyStatus \ {"none"},
           NEW stages \in [1..Len(d) -> StageRecordSet], NEW current \in 0..Len(d)
    PROVE  RecordWith(d, status, stages, current) \in Records
BY DEF RecordWith, Records, RecordsOf

LEMMA ReplaceIsTyped ==
    ASSUME NEW r \in Records, NEW i \in 1..Len(r.definition), NEW s \in StageRecordSet,
           NEW current \in 0..Len(r.definition)
    PROVE  /\ ReplaceStage(r, i, s, current) \in Records
           /\ ReplaceStage(r, i, s, current).definition = r.definition
<1> DEFINE t == [r.stages EXCEPT ![i] = s]
<1>1. ReplaceStage(r, i, s, current) = RecordWith(r.definition, r.status, t, current)
    BY DEF ReplaceStage, RecordWith
<1>2. t \in [1..Len(r.definition) -> StageRecordSet]
    BY RecordIsFields
<1>3. RecordWith(r.definition, r.status, t, current) \in Records
    BY <1>2, RecordIsFields, DefinitionIsValid, FieldsAreRecord
<1> QED
    BY <1>1, <1>3 DEF RecordWith

\* The same for the Stage a caller works on.
LEMMA StageIsWritten ==
    ASSUME NEW c \in Callers, copy[c] \in Records, at[c] \in 1..Len(copy[c].definition),
           NEW s \in StageRecordSet, NEW current \in 0..Len(copy[c].definition)
    PROVE  /\ ReplaceStage(copy[c], at[c], s, current) \in Records
           /\ ReplaceStage(copy[c], at[c], s, current).definition = copy[c].definition
BY ReplaceIsTyped

LEMMA StatusIsTyped ==
    ASSUME NEW r \in Records, NEW s \in StrategyStatus \ {"none"}
    PROVE  /\ UpdateStrategy(r, s) \in Records
           /\ UpdateStrategy(r, s).definition = r.definition
           /\ UpdateStrategy(r, s).status = s
           /\ UpdateStrategy(r, s).stages = r.stages
<1>1. UpdateStrategy(r, s) = RecordWith(r.definition, s, r.stages, 0)
    BY DEF UpdateStrategy, RecordWith
<1>2. 0 \in 0..Len(r.definition)
    BY DefinitionIsValid DEF MaxStages
<1>3. RecordWith(r.definition, s, r.stages, 0) \in Records
    BY <1>2, RecordIsFields, DefinitionIsValid, FieldsAreRecord
<1> QED
    BY <1>1, <1>3 DEF RecordWith

LEMMA NewRecordIsTyped ==
    ASSUME NEW d \in Catalogue
    PROVE  NewRecord(d) \in Records
<1>1. Len(d) \in 1..MaxStages
    BY CatalogueAssumption DEF ValidSequence
<1>2. StageRecord("pending", 0, NoKey) \in StageRecordSet
    BY DEF StageRecord, StageRecordSet, StageStatus, MaxAttempts
<1> QED
    BY <1>1, <1>2 DEF NewRecord, Records, RecordsOf, StrategyStatus, MaxStages

\* The key of a Stage of a provider is one that Runs are bound to.
LEMMA KeyIsBound ==
    ASSUME NEW c \in Callers, copy[c] \in Records, at[c] \in 1..Len(copy[c].definition),
           Current(c).node \in ProviderNodes
    PROVE  /\ KeyOf(c) \in BoundKeys
           /\ KeyOf(c).stage = at[c] /\ KeyOf(c).node = Current(c).node
           /\ KeyOf(c) # NoKey
<1>1. copy[c].definition \in Catalogue
    BY DefinitionIsValid
<1>2. KeyOf(c) \in Keys(copy[c].definition)
    BY DEF KeyOf, Keys, Current
<1>3. Len(copy[c].definition) \in 1..MaxStages
    BY DefinitionIsValid
<1> QED
    BY <1>1, <1>2, <1>3 DEF BoundKeys, KeyOf, NoKey, MaxStages

LEMMA TypeInit == Init => TInv
<1> SUFFICES ASSUME Init PROVE TInv
    OBVIOUS
<1>1. Shared
  <2>1. /\ record \in Records \cup {NoRecord} /\ report \in Reports
        /\ \A ev \in log : ev.stage \in 0..MaxStages
      BY DEF Init, Reports
  <2>2. runs = [k \in BoundKeys |-> runs[k]] /\ \A k \in BoundKeys : RunOK(runs[k])
      BY DEF Init, RunOK, NoRun, RunState, EndedRun
  <2> QED
      BY <2>1, <2>2 DEF Shared
<1>2. Own
    BY DEF Init, Own, Results, CallerPc, NoResult, MaxStages, MaxAttempts
<1>3. \A c \in Callers : TypedAt(pc[c], copy[c], at[c], attempt[c])
    BY DEF Init, TypedAt, Away, Early, InTool, Working
<1> QED
    BY <1>1, <1>2, <1>3 DEF TInv

LEMMA MovesAreTyped ==
    ASSUME TInv, NEW c \in Callers, NEW place \in CallerPc,
           NEW r \in Records \cup {NoRecord}, NEW i \in 0..MaxStages,
           NEW n \in 0..MaxAttempts, NEW res \in Results,
           Moves(c, place, r, i, n, res), TypedAt(place, r, i, n), Shared'
    PROVE  TInv'
<1>1. Own'
    BY DEF TInv, Own, Moves
<1>2. ASSUME NEW o \in Callers
      PROVE  TypedAt(pc'[o], copy'[o], at'[o], attempt'[o])
  <2>1. CASE o = c
    <3>1. pc'[o] = place /\ copy'[o] = r /\ at'[o] = i /\ attempt'[o] = n
        BY <2>1 DEF TInv, Own, Moves
    <3> QED  BY <3>1
  <2>2. CASE o # c
    <3>1. /\ pc'[o] = pc[o] /\ copy'[o] = copy[o] /\ at'[o] = at[o]
          /\ attempt'[o] = attempt[o]
        BY <2>2 DEF TInv, Own, Moves
    <3> QED  BY <3>1 DEF TInv
  <2> QED  BY <2>1, <2>2
<1> QED
    BY <1>1, <1>2 DEF TInv

LEMMA OwnStays ==
    ASSUME TInv, NEW c \in Callers
    PROVE  /\ copy = [copy EXCEPT ![c] = copy[c]] /\ at = [at EXCEPT ![c] = at[c]]
           /\ attempt = [attempt EXCEPT ![c] = attempt[c]]
           /\ result = [result EXCEPT ![c] = result[c]]
           /\ result[c] = [run |-> result[c].run, passed |-> result[c].passed]
           /\ pc[c] \in CallerPc /\ copy[c] \in Records \cup {NoRecord}
           /\ at[c] \in 0..MaxStages /\ attempt[c] \in 0..MaxAttempts
           /\ result[c] \in Results
BY DEF TInv, Own, Results

\* Where each step takes its caller.
LEMMA StepsMove ==
    ASSUME TInv, NEW c \in Callers
    PROVE  /\ \A d : CallFirst(c, d) => Moves(c, "create", NewRecord(d), 0, 0, NoResult)
           /\ CallAgain(c) => Moves(c, "returned", NoRecord, 0, 0, NoResult)
           /\ CallOther(c) => Moves(c, "raised", NoRecord, 0, 0, NoResult)
           /\ Create(c) => Goes(c, "logCreated")
           /\ LogCreated(c) => Goes(c, "start")
           /\ Start(c) => Moves(c, "logStarted", UpdateStrategy(copy[c], "running"), at[c],
                                attempt[c], result[c])
           /\ LogStarted(c) => Moves(c, "stage", copy[c], 1, attempt[c], result[c])
           /\ NextStage(c) =>
                IF Halts(c) \/ at[c] = Len(copy[c].definition)
                THEN Moves(c, "close", copy[c], at[c], 0, NoResult)
                ELSE Moves(c, "stage", copy[c], at[c] + 1, 0, NoResult)
           /\ Close(c) => Moves(c, "logClosed", UpdateStrategy(copy[c], Verdict(c)), at[c],
                                attempt[c], result[c])
           /\ LogClosed(c) => Goes(c, "returned")
<1> USE DEF Moves, Goes, Goto, Keep
<1>1. /\ \A d : CallFirst(c, d) => Moves(c, "create", NewRecord(d), 0, 0, NoResult)
      /\ CallAgain(c) => Moves(c, "returned", NoRecord, 0, 0, NoResult)
      /\ CallOther(c) => Moves(c, "raised", NoRecord, 0, 0, NoResult)
    BY OwnStays DEF CallFirst, CallAgain, CallOther, Enter
<1>2. Create(c) => Goes(c, "logCreated")
    BY OwnStays DEF Create, Save
<1>3. LogCreated(c) => Goes(c, "start")
    BY OwnStays DEF LogCreated
<1>4. Start(c) => Moves(c, "logStarted", UpdateStrategy(copy[c], "running"), at[c],
                                attempt[c], result[c])
    BY OwnStays DEF Start, Save
<1>5. LogStarted(c) => Moves(c, "stage", copy[c], 1, attempt[c], result[c])
    BY OwnStays DEF LogStarted
<1>6. NextStage(c) =>
                IF Halts(c) \/ at[c] = Len(copy[c].definition)
                THEN Moves(c, "close", copy[c], at[c], 0, NoResult)
                ELSE Moves(c, "stage", copy[c], at[c] + 1, 0, NoResult)
    BY OwnStays DEF NextStage
<1>7. Close(c) => Moves(c, "logClosed", UpdateStrategy(copy[c], Verdict(c)), at[c],
                                attempt[c], result[c])
    BY OwnStays DEF Close, Save
<1>8. LogClosed(c) => Goes(c, "returned")
    BY OwnStays DEF LogClosed
<1> HIDE DEF Moves, Goes, Goto, Keep
<1> QED
    BY <1>1, <1>2, <1>3, <1>4, <1>5, <1>6, <1>7, <1>8

LEMMA StageLogsMove ==
    ASSUME TInv, NEW c \in Callers
    PROVE  /\ LogSkipped(c) => Goes(c, "next")
           /\ LogBegun(c) => Goes(c, "call")
           /\ LogEvidence(c) => Goes(c, PlaceAfterEvidence(c))
           /\ LogStage(c) => Goes(c, "next")
BY OwnStays DEF LogSkipped, LogBegun, LogEvidence, LogStage, PlaceAfterEvidence,
                Moves, Goes, Goto

\* The records that the steps of a Stage write.
Skipped(c) == ReplaceStage(copy[c], at[c], StageRecord("skipped", 0, NoKey), 0)

Begun(c) ==
    ReplaceStage(copy[c], at[c], StageRecord("running", NextAttempt(c), NoKey), at[c])

Completed(c) ==
    ReplaceStage(copy[c], at[c],
                 StageRecord(StageVerdict(result[c]), attempt[c], result[c].run), 0)

LEMMA SkipMoves ==
    ASSUME TInv, NEW c \in Callers, Skip(c)
    PROVE  /\ Moves(c, "logSkipped", Skipped(c), at[c], attempt[c], result[c])
           /\ Save(c, Skipped(c)) /\ UNCHANGED <<log, runs, report>>
BY OwnStays DEF Skip, Save, Skipped, Moves, Goto, Keep

LEMMA BeginMoves ==
    ASSUME TInv, NEW c \in Callers, Begin(c)
    PROVE  /\ Moves(c, "logBegun", Begun(c), at[c], NextAttempt(c), NoResult)
           /\ Save(c, Begun(c)) /\ UNCHANGED <<log, runs, report>>
BY OwnStays DEF Begin, Save, Begun, NextAttempt, Moves, Goto, Keep

LEMMA CompleteMoves ==
    ASSUME TInv, NEW c \in Callers, Complete(c)
    PROVE  /\ Moves(c, "logEvidence", Completed(c), at[c], attempt[c], result[c])
           /\ Save(c, Completed(c)) /\ UNCHANGED <<log, runs, report>>
BY OwnStays DEF Complete, Save, Completed, StageVerdict, Moves, Goto, Keep

LEMMA RunIsAnswered ==
    ASSUME NEW res \in Results, NEW k
    PROVE  [res EXCEPT !.run = k] = [run |-> k, passed |-> res.passed]
BY DEF Results

LEMMA ToolStepsMove ==
    ASSUME TInv, NEW c \in Callers
    PROVE  /\ Fails(c) => Moves(c, "complete", copy[c], at[c], attempt[c], NoResult)
           /\ Escapes(c) => Goes(c, "raised")
           /\ Bind(c) => Goes(c, "launch")
           /\ Replay(c) \/ Return(c) =>
                 Moves(c, "evidence", copy[c], at[c], attempt[c],
                       [run |-> KeyOf(c), passed |-> result[c].passed])
           /\ Launch(c) => Goes(c, "inside")
           /\ \A passed : Judge(c, passed) =>
                 Moves(c, "complete", copy[c], at[c], attempt[c],
                       [run |-> result[c].run, passed |-> passed])
           /\ Crash(c) => Goes(c, "crashed")
<1> USE DEF Moves, Goes, Goto, Keep
<1>1. /\ Fails(c) => Moves(c, "complete", copy[c], at[c], attempt[c], NoResult)
      /\ Escapes(c) => Goes(c, "raised")
      /\ Bind(c) => Goes(c, "launch")
      /\ Launch(c) => Goes(c, "inside")
      /\ Crash(c) => Goes(c, "crashed")
    BY OwnStays DEF Fails, Escapes, Bind, Launch, Crash
<1>2. Replay(c) \/ Return(c) =>
                 Moves(c, "evidence", copy[c], at[c], attempt[c],
                       [run |-> KeyOf(c), passed |-> result[c].passed])
  <2>1. [result[c] EXCEPT !.run = KeyOf(c)] = [run |-> KeyOf(c), passed |-> result[c].passed]
      BY OwnStays, RunIsAnswered
  <2>2. CASE Replay(c)
      BY <2>1, <2>2, OwnStays DEF Replay
  <2>3. CASE Return(c)
      BY <2>1, <2>3, OwnStays DEF Return
  <2> QED
      BY <2>2, <2>3
<1>3. \A passed : Judge(c, passed) =>
                 Moves(c, "complete", copy[c], at[c], attempt[c],
                       [run |-> result[c].run, passed |-> passed])
    BY OwnStays DEF Judge
<1> HIDE DEF Moves, Goes, Goto, Keep
<1> QED
    BY <1>1, <1>2, <1>3

\* A record in memory and a Stage of it: what is needed of them again and again.
LEMMA AtStage ==
    ASSUME TInv, NEW c \in Callers, pc[c] \in Working
    PROVE  /\ copy[c] \in Records /\ at[c] \in 1..Len(copy[c].definition)
           /\ Len(copy[c].definition) \in 1..MaxStages
           /\ attempt[c] \in 0..MaxAttempts
           /\ Current(c) = copy[c].definition[at[c]]
           /\ Current(c).attempts \in 1..MaxAttempts
<1>1. copy[c] \in Records /\ at[c] \in 1..Len(copy[c].definition)
    BY DEF TInv, TypedAt, Working
<1> QED
    BY <1>1, OwnStays, DefinitionIsValid DEF Current

LEMMA Numbers ==
    /\ 0 \in 0..MaxStages /\ 1 \in 0..MaxStages /\ 0 \in 0..MaxAttempts
    /\ \A n \in 1..MaxStages : 1 \in 1..n /\ 0 \in 0..n
BY DEF MaxStages, MaxAttempts

\* An attempt begins only while the retry policy of the Stage grants one.
LEMMA BeginCounts ==
    ASSUME TInv, NEW c \in Callers, Begin(c), pc[c] \in Working
    PROVE  NextAttempt(c) \in 1..MaxAttempts
<1>1. attempt[c] \in 0..MaxAttempts /\ Current(c).attempts \in 1..MaxAttempts
    BY OwnStays, AtStage
<1>2. TypedAt(pc[c], copy[c], at[c], attempt[c])
    BY DEF TInv
<1>3. CASE pc[c] = "stage"
  <2>1. attempt[c] = 0
      BY <1>2, <1>3 DEF TypedAt
  <2> QED
      BY <2>1 DEF NextAttempt, MaxAttempts
<1>4. CASE pc[c] = "begin"
  <2>1. attempt[c] < Current(c).attempts
      BY <1>2, <1>4 DEF TypedAt, Current
  <2> QED
      BY <1>1, <2>1 DEF NextAttempt, MaxAttempts
<1> QED
    BY <1>3, <1>4 DEF Begin

LEMMA StageNumbers ==
    ASSUME NEW n \in 1..MaxStages, NEW i \in 1..n
    PROVE  /\ i \in 0..MaxStages /\ i \in 1..MaxStages /\ i \in 0..n
           /\ i # n => i + 1 \in 1..n /\ i + 1 \in 0..MaxStages
BY DEF MaxStages

\* A log entry names a Stage or none.
LEMMA LogIsTyped ==
    ASSUME Shared, NEW message, NEW i \in 0..MaxStages, AppendEvent(message, i),
           UNCHANGED <<record, runs, report>>
    PROVE  Shared'
BY DEF Shared, AppendEvent, RunOK

LEMMA SharedStays ==
    ASSUME Shared, UNCHANGED <<record, log, runs, report>>
    PROVE  Shared'
BY DEF Shared, RunOK

LEMMA SaveIsTyped ==
    ASSUME Shared, NEW c \in Callers, NEW r \in Records, Save(c, r),
           UNCHANGED <<log, runs, report>>
    PROVE  Shared'
BY DEF Shared, RunOK, Save

LEMMA TypeOfCalls ==
    ASSUME TInv, NEW c \in Callers, NEW d \in Catalogue,
           CallFirst(c, d) \/ CallAgain(c) \/ CallOther(c)
    PROVE  TInv'
<1>1. Shared'
    BY SharedStays DEF CallFirst, CallAgain, CallOther, Enter, TInv
<1>2. NoResult \in Results /\ 0 \in 0..MaxStages /\ 0 \in 0..MaxAttempts
    BY DEF NoResult, Results, MaxStages, MaxAttempts
<1>3. CASE CallFirst(c, d)
  <2>1. Moves(c, "create", NewRecord(d), 0, 0, NoResult)
      BY <1>3, StepsMove
  <2>2. TypedAt("create", NewRecord(d), 0, 0)
      BY NewRecordIsTyped DEF TypedAt, Away, Early, Working, InTool
  <2>3. "create" \in CallerPc /\ NewRecord(d) \in Records
      BY NewRecordIsTyped DEF CallerPc
  <2> QED
      BY <1>1, <1>2, <2>1, <2>2, <2>3, MovesAreTyped
<1>4. CASE CallAgain(c) \/ CallOther(c)
  <2>1. PICK place \in {"returned", "raised"} : Moves(c, place, NoRecord, 0, 0, NoResult)
      BY <1>4, StepsMove
  <2>2. TypedAt(place, NoRecord, 0, 0) /\ place \in CallerPc
      BY DEF TypedAt, Away, Early, Working, InTool, CallerPc
  <2> QED
      BY <1>1, <1>2, <2>1, <2>2, MovesAreTyped
<1> QED
    BY <1>3, <1>4

LEMMA TypeOfStart ==
    ASSUME TInv, NEW c \in Callers,
           Create(c) \/ LogCreated(c) \/ Start(c) \/ LogStarted(c)
    PROVE  TInv'
<1> USE OwnStays
<1>1. /\ copy[c] \in Records /\ attempt[c] = 0 /\ attempt[c] \in 0..MaxAttempts
      /\ Len(copy[c].definition) \in 1..MaxStages
  <2>1. pc[c] \in Early
      BY DEF Create, LogCreated, Start, LogStarted, Early
  <2>2. copy[c] \in Records /\ attempt[c] = 0
      BY <2>1 DEF TInv, TypedAt, Early, Away
  <2> QED
      BY <2>2, DefinitionIsValid
<1>2. /\ "running" \in StrategyStatus \ {"none"}
      /\ {"logCreated", "start", "logStarted", "stage"} \subseteq CallerPc
    BY DEF StrategyStatus, CallerPc
<1>3. CASE Create(c)
  <2>1. Shared'
      BY <1>1, <1>3, SaveIsTyped DEF Create, TInv
  <2>2. TypedAt("logCreated", copy[c], at[c], attempt[c])
      BY <1>1 DEF TypedAt, Early, Away, Working, InTool
  <2> QED
      BY <1>2, <1>3, <2>1, <2>2, StepsMove, MovesAreTyped DEF Goes
<1>4. CASE LogCreated(c)
  <2>1. Shared'
      BY <1>4, LogIsTyped DEF LogCreated, TInv, MaxStages
  <2>2. TypedAt("start", copy[c], at[c], attempt[c])
      BY <1>1 DEF TypedAt, Early, Away, Working, InTool
  <2> QED
      BY <1>2, <1>4, <2>1, <2>2, StepsMove, MovesAreTyped DEF Goes
<1>5. CASE Start(c)
  <2>1. UpdateStrategy(copy[c], "running") \in Records
      BY <1>1, <1>2, StatusIsTyped
  <2>2. Shared'
      BY <1>5, <2>1, SaveIsTyped DEF Start, TInv
  <2>3. TypedAt("logStarted", UpdateStrategy(copy[c], "running"), at[c], attempt[c])
      BY <1>1, <2>1 DEF TypedAt, Early, Away, Working, InTool
  <2> QED
      BY <1>2, <1>5, <2>1, <2>2, <2>3, StepsMove, MovesAreTyped
<1>6. CASE LogStarted(c)
  <2>1. Shared'
      BY <1>6, LogIsTyped DEF LogStarted, TInv, MaxStages
  <2>2. TypedAt("stage", copy[c], 1, attempt[c]) /\ 1 \in 0..MaxStages
      BY <1>1, Numbers DEF TypedAt, Early, Away, Working, InTool
  <2> QED
      BY <1>1, <1>2, <1>6, <2>1, <2>2, StepsMove, MovesAreTyped
<1> QED
    BY <1>3, <1>4, <1>5, <1>6

LEMMA TypeOfTurns ==
    ASSUME TInv, NEW c \in Callers,
           \/ NextStage(c) \/ Close(c) \/ LogClosed(c)
           \/ LogSkipped(c) \/ LogBegun(c) \/ LogEvidence(c) \/ LogStage(c)
    PROVE  TInv'
<1> USE OwnStays
<1>1. /\ copy[c] \in Records /\ at[c] \in 1..Len(copy[c].definition)
      /\ attempt[c] \in 0..MaxAttempts /\ Len(copy[c].definition) \in 1..MaxStages
      /\ Current(c) = copy[c].definition[at[c]] /\ Current(c).attempts \in 1..MaxAttempts
      /\ at[c] \in 0..MaxStages /\ 0 \in 0..MaxAttempts /\ 0 \in 0..MaxStages
  <2>1. pc[c] \in Working
      BY DEF NextStage, Close, LogClosed, LogSkipped, LogBegun, LogEvidence, LogStage, Working,
             Away, Early, CallerPc
  <2> QED
      BY <2>1, AtStage, StageNumbers, Numbers
<1>2. attempt[c] > 0 => attempt[c] <= Current(c).attempts
    BY <1>1 DEF TInv, TypedAt
<1>3. /\ {"close", "stage", "logClosed", "returned", "next", "call", "logStage", "begin"}
             \subseteq CallerPc
      /\ NoResult \in Results
    BY DEF CallerPc, NoResult, Results
<1>4. CASE NextStage(c)
  <2>1. Shared'
      BY <1>4, SharedStays DEF NextStage, TInv
  <2>2. CASE Halts(c) \/ at[c] = Len(copy[c].definition)
    <3>1. TypedAt("close", copy[c], at[c], 0)
        BY <1>1 DEF TypedAt, Early, Away, Working, InTool
    <3> QED
        BY <1>1, <1>3, <1>4, <2>1, <2>2, <3>1, StepsMove, MovesAreTyped
  <2>3. CASE ~(Halts(c) \/ at[c] = Len(copy[c].definition))
    <3>1. at[c] + 1 \in 1..Len(copy[c].definition) /\ at[c] + 1 \in 0..MaxStages
        BY <1>1, <2>3, StageNumbers
    <3>2. TypedAt("stage", copy[c], at[c] + 1, 0)
        BY <1>1, <3>1 DEF TypedAt, Early, Away, Working, InTool
    <3> QED
        BY <1>1, <1>3, <1>4, <2>1, <2>3, <3>1, <3>2, StepsMove, MovesAreTyped
  <2> QED
      BY <2>2, <2>3
<1>5. CASE Close(c)
  <2>1. Verdict(c) \in StrategyStatus \ {"none"}
      BY DEF Verdict, StrategyStatus
  <2>2. /\ UpdateStrategy(copy[c], Verdict(c)) \in Records
        /\ UpdateStrategy(copy[c], Verdict(c)).definition = copy[c].definition
      BY <1>1, <2>1, StatusIsTyped
  <2>3. Shared'
      BY <1>5, <2>2, SaveIsTyped DEF Close, TInv
  <2>4. TypedAt("logClosed", UpdateStrategy(copy[c], Verdict(c)), at[c], attempt[c])
      BY <1>1, <1>2, <2>2 DEF TypedAt, Early, Away, Working, InTool
  <2> QED
      BY <1>1, <1>3, <1>5, <2>2, <2>3, <2>4, StepsMove, MovesAreTyped
<1>6. CASE LogClosed(c) \/ LogSkipped(c) \/ LogBegun(c) \/ LogEvidence(c) \/ LogStage(c)
  <2>1. Shared'
      BY <1>1, <1>6, LogIsTyped DEF LogClosed, LogSkipped, LogBegun, LogEvidence, LogStage, TInv
  <2>2. PICK place \in {"returned", "next", "call", "logStage", "begin"} :
           /\ Goes(c, place)
           /\ place = "begin" => attempt[c] # Current(c).attempts
      BY <1>6, StepsMove, StageLogsMove DEF PlaceAfterEvidence
  <2>3. TypedAt(place, copy[c], at[c], attempt[c])
      BY <1>1, <1>2, <2>2 DEF TypedAt, Early, Away, Working, InTool
  <2> QED
      BY <1>1, <1>3, <2>1, <2>2, <2>3, MovesAreTyped DEF Goes
<1> QED
    BY <1>4, <1>5, <1>6

\* What a place among the Stages asks, for a record with the definition of the copy.
LEMMA TypedInStage ==
    ASSUME NEW r \in Records, NEW i \in 1..Len(r.definition), NEW n \in 0..MaxAttempts,
           n <= r.definition[i].attempts, NEW place \in Working \ (InTool \cup {"stage", "begin"})
    PROVE  TypedAt(place, r, i, n)
BY DEF TypedAt, Working

LEMMA TypeOfStage ==
    ASSUME TInv, NEW c \in Callers, Skip(c) \/ Begin(c) \/ Complete(c)
    PROVE  TInv'
<1> USE OwnStays
<1>1. /\ copy[c] \in Records /\ at[c] \in 1..Len(copy[c].definition)
      /\ attempt[c] \in 0..MaxAttempts /\ Len(copy[c].definition) \in 1..MaxStages
      /\ copy[c].definition[at[c]].attempts \in 1..MaxAttempts
      /\ at[c] \in 0..MaxStages /\ at[c] \in 0..Len(copy[c].definition)
      /\ 0 \in 0..MaxAttempts /\ 0 \in 0..Len(copy[c].definition)
  <2>1. pc[c] \in Working
      BY DEF Skip, Begin, Complete, Working, Away, Early, CallerPc
  <2> QED
      BY <2>1, AtStage, StageNumbers, Numbers
<1>2. attempt[c] <= copy[c].definition[at[c]].attempts
    BY <1>1 DEF TInv, TypedAt, MaxAttempts
<1>3. {"logSkipped", "logBegun", "logEvidence"} \subseteq Working \ (InTool \cup {"stage", "begin"})
    BY DEF Working, CallerPc, Away, Early, InTool
<1>4. /\ {"logSkipped", "logBegun", "logEvidence"} \subseteq CallerPc
      /\ NoResult \in Results /\ NoKey \in BoundKeys \cup {NoKey}
    BY DEF CallerPc, NoResult, Results
<1>5. CASE Skip(c)
  <2>1. StageRecord("skipped", 0, NoKey) \in StageRecordSet
      BY <1>1, <1>4 DEF StageRecord, StageRecordSet, StageStatus
  <2>2. Skipped(c) \in Records /\ Skipped(c).definition = copy[c].definition
    <3> DEFINE s == StageRecord("skipped", 0, NoKey)
    <3> HIDE DEF s
    <3>1. s \in StageRecordSet
        BY <2>1 DEF s
    <3>2. /\ ReplaceStage(copy[c], at[c], s, 0) \in Records
          /\ ReplaceStage(copy[c], at[c], s, 0).definition = copy[c].definition
        BY <1>1, <3>1, StageIsWritten
    <3> QED
        BY <3>2 DEF s, Skipped
  <2>3. TypedAt("logSkipped", Skipped(c), at[c], attempt[c])
      BY <1>1, <1>2, <1>3, <2>2, TypedInStage
  <2>4. Shared'
      BY <1>5, <2>2, SkipMoves, SaveIsTyped DEF TInv
  <2> QED
      BY <1>1, <1>4, <1>5, <2>2, <2>3, <2>4, SkipMoves, MovesAreTyped
<1>6. CASE Begin(c)
  <2>1. /\ NextAttempt(c) \in 1..MaxAttempts
        /\ NextAttempt(c) <= copy[c].definition[at[c]].attempts
    <3>1. attempt[c] < copy[c].definition[at[c]].attempts
        BY <1>1, <1>6 DEF Begin, TInv, TypedAt, MaxAttempts
    <3> QED
        BY <1>1, <3>1 DEF NextAttempt, MaxAttempts
  <2>2. StageRecord("running", NextAttempt(c), NoKey) \in StageRecordSet
      BY <1>4, <2>1 DEF StageRecord, StageRecordSet, StageStatus, MaxAttempts
  <2>3. Begun(c) \in Records /\ Begun(c).definition = copy[c].definition
    <3> DEFINE s == StageRecord("running", NextAttempt(c), NoKey)
    <3> HIDE DEF s
    <3>1. s \in StageRecordSet
        BY <2>2 DEF s
    <3>2. /\ ReplaceStage(copy[c], at[c], s, at[c]) \in Records
          /\ ReplaceStage(copy[c], at[c], s, at[c]).definition = copy[c].definition
        BY <1>1, <3>1, StageIsWritten
    <3> QED
        BY <3>2 DEF s, Begun
  <2>4. NextAttempt(c) \in 0..MaxAttempts
      BY <2>1 DEF MaxAttempts
  <2>5. TypedAt("logBegun", Begun(c), at[c], NextAttempt(c))
      BY <1>1, <1>3, <2>1, <2>3, <2>4, TypedInStage
  <2>6. Shared'
      BY <1>6, <2>3, BeginMoves, SaveIsTyped DEF TInv
  <2> QED
      BY <1>1, <1>4, <1>6, <2>3, <2>4, <2>5, <2>6, BeginMoves, MovesAreTyped
<1>7. CASE Complete(c)
  <2>1. StageVerdict(result[c]) \in StageStatus
      BY DEF StageVerdict, StageStatus
  <2>2. StageRecord(StageVerdict(result[c]), attempt[c], result[c].run) \in StageRecordSet
      BY <1>1, <2>1 DEF StageRecord, StageRecordSet, Results
  <2>3. Completed(c) \in Records /\ Completed(c).definition = copy[c].definition
    <3> DEFINE s == StageRecord(StageVerdict(result[c]), attempt[c], result[c].run)
    <3> HIDE DEF s
    <3>1. s \in StageRecordSet
        BY <2>2 DEF s
    <3>2. /\ ReplaceStage(copy[c], at[c], s, 0) \in Records
          /\ ReplaceStage(copy[c], at[c], s, 0).definition = copy[c].definition
        BY <1>1, <3>1, StageIsWritten
    <3> QED
        BY <3>2 DEF s, Completed
  <2>4. TypedAt("logEvidence", Completed(c), at[c], attempt[c])
      BY <1>1, <1>2, <1>3, <2>3, TypedInStage
  <2>5. Shared'
      BY <1>7, <2>3, CompleteMoves, SaveIsTyped DEF TInv
  <2> QED
      BY <1>1, <1>4, <1>7, <2>3, <2>4, <2>5, CompleteMoves, MovesAreTyped
<1> QED
    BY <1>5, <1>6, <1>7

-----------------------------------------------------------------------------
\* The Runs keep their shape when one of them is set.
LEMMA RunSetIsTyped ==
    ASSUME Shared, NEW k \in BoundKeys, NEW run, RunOK(run), SetRun(k, run),
           UNCHANGED <<record, log>>, report' \in Reports
    PROVE  Shared'
<1>1. runs' = [j \in BoundKeys |-> IF j = k THEN run ELSE runs[j]]
    BY DEF Shared, SetRun
<1>2. \A j \in BoundKeys : RunOK(runs'[j])
  <2> TAKE j \in BoundKeys
  <2>1. CASE j = k
      BY <1>1, <2>1
  <2>2. CASE j # k
    <3>1. runs'[j] = runs[j] /\ RunOK(runs[j])
        BY <1>1, <2>2 DEF Shared
    <3> QED  BY <3>1
  <2> QED  BY <2>1, <2>2
<1>3. runs' = [j \in BoundKeys |-> runs'[j]]
    BY <1>1
<1> QED
    BY <1>2, <1>3 DEF Shared

\* Another state for a Run that there is.
LEMMA StateIsTyped ==
    ASSUME Shared, NEW k \in BoundKeys, NEW state \in {"running", "failed"}
    PROVE  /\ [runs[k] EXCEPT !.state = state]
                = [state |-> state, verdict |-> runs[k].verdict, task |-> runs[k].task,
                   expects |-> runs[k].expects]
           /\ RunOK([runs[k] EXCEPT !.state = state])
<1>1. /\ runs[k] = [state |-> runs[k].state, verdict |-> runs[k].verdict,
                    task |-> runs[k].task, expects |-> runs[k].expects]
      /\ runs[k].verdict \in EndedRun \cup {"none"}
    BY DEF Shared, RunOK
<1>2. [runs[k] EXCEPT !.state = state]
         = [state |-> state, verdict |-> runs[k].verdict, task |-> runs[k].task,
            expects |-> runs[k].expects]
    BY <1>1
<1> QED
    BY <1>1, <1>2 DEF RunOK, RunState

\* The verdict of the executor.
LEMMA VerdictIsTyped ==
    ASSUME NEW run, NEW v \in EndedRun
    PROVE  RunOK(EndedAs(run, v))
BY DEF RunOK, EndedAs, RunState, EndedRun

\* The verdict of the executor, or a write over it: what becomes of the Run.
LEMMA RunIsSet ==
    ASSUME Shared, NEW k \in BoundKeys, RunEnds(k) \/ RunOverwritten(k)
    PROVE  \E run : /\ SetRun(k, run) /\ RunOK(run)
                    /\ run.state \in EndedRun
                    /\ run.task = runs[k].task /\ run.expects = runs[k].expects
                    /\ runs[k].verdict # "none" => run.verdict = runs[k].verdict
<1>1. CASE RunEnds(k)
  <2>1. PICK v \in EndedRun : SetRun(k, EndedAs(runs[k], v))
      BY <1>1 DEF RunEnds
  <2>2. RunOK(EndedAs(runs[k], v))
      BY VerdictIsTyped
  <2> QED
      BY <1>1, <2>1, <2>2 DEF RunEnds, EndedAs
<1>2. CASE RunOverwritten(k)
  <2> DEFINE run == [runs[k] EXCEPT !.state = "failed"]
  <2>1. /\ run = [state |-> "failed", verdict |-> runs[k].verdict, task |-> runs[k].task,
                  expects |-> runs[k].expects]
        /\ RunOK(run)
      BY StateIsTyped
  <2>2. SetRun(k, run)
      BY <1>2 DEF RunOverwritten
  <2> HIDE DEF run
  <2> QED
      BY <2>1, <2>2 DEF EndedRun
<1> QED
    BY <1>1, <1>2

LEMMA TypeOfRuns ==
    ASSUME TInv, NEW k \in BoundKeys, RunEnds(k) \/ RunOverwritten(k)
    PROVE  TInv'
<1>1. PICK run : SetRun(k, run) /\ RunOK(run)
    BY RunIsSet DEF TInv
<1>2. report' \in Reports
    BY DEF RunEnds, RunOverwritten, TInv, Shared
<1>3. UNCHANGED <<record, log, callerVars>>
    BY DEF RunEnds, RunOverwritten
<1>4. Shared'
    BY <1>1, <1>2, <1>3, RunSetIsTyped DEF TInv
<1>5. UNCHANGED <<pc, copy, at, attempt, result>>
    BY <1>3 DEF callerVars
<1>6. Own' /\ \A c \in Callers : TypedAt(pc'[c], copy'[c], at'[c], attempt'[c])
    BY <1>5 DEF TInv, Own
<1> QED
    BY <1>4, <1>6 DEF TInv

\* A step from a Stage to another place, or out of execute.
LEMMA TypedOnward ==
    ASSUME TInv, NEW c \in Callers, pc[c] \in Working,
           NEW place \in {"complete", "evidence", "raised", "launch", "inside", "crashed"},
           place \in InTool => Current(c).node \in ProviderNodes
    PROVE  TypedAt(place, copy[c], at[c], attempt[c]) /\ place \in CallerPc
<1>1. copy[c] \in Records /\ at[c] \in 1..Len(copy[c].definition)
    BY AtStage
<1> QED
    BY <1>1 DEF TInv, TypedAt, Working, Away, Early, InTool, Current, CallerPc

LEMMA TypeOfAnswers ==
    ASSUME TInv, NEW c \in Callers, Fails(c) \/ Replay(c) \/ Return(c)
    PROVE  TInv'
<1> USE OwnStays
<1>1. pc[c] \in Working
    BY DEF Fails, Replay, Return, Calls, Working, CallerPc, Away, Early
<1>2. Shared'
    BY SharedStays DEF Fails, Replay, Return, TInv
<1>3. CASE Fails(c)
  <2>1. TypedAt("complete", copy[c], at[c], attempt[c]) /\ "complete" \in CallerPc
      BY <1>1, TypedOnward DEF InTool
  <2>2. NoResult \in Results
      BY DEF NoResult, Results
  <2> QED
      BY <1>2, <1>3, <2>1, <2>2, ToolStepsMove, MovesAreTyped
<1>4. CASE Replay(c) \/ Return(c)
  <2>1. Current(c).node \in ProviderNodes
      BY <1>4 DEF Replay, Return, Calls, TInv, TypedAt, InTool, Current
  <2>2. TypedAt("evidence", copy[c], at[c], attempt[c]) /\ "evidence" \in CallerPc
      BY <1>1, <2>1, TypedOnward
  <2>3. KeyOf(c) \in BoundKeys
      BY <1>1, <2>1, AtStage, KeyIsBound
  <2>4. [run |-> KeyOf(c), passed |-> result[c].passed] \in Results
      BY <2>3 DEF Results
  <2> DEFINE res == [run |-> KeyOf(c), passed |-> result[c].passed]
  <2>5. Moves(c, "evidence", copy[c], at[c], attempt[c], res)
      BY <1>4, ToolStepsMove
  <2>6. res \in Results
      BY <2>4
  <2> HIDE DEF res
  <2> QED
      BY <1>2, <2>2, <2>5, <2>6, MovesAreTyped
<1> QED
    BY <1>3, <1>4

LEMMA EvidenceIsBoolean ==
    /\ \A s, k : \A found \in BOOLEAN : RunEvidence(s, k, found) \in BOOLEAN
    /\ \A s, k : BlockerCount(s, k) \in BOOLEAN
    /\ \A r, s : ConditionSatisfied(r, s) \in BOOLEAN
BY DEF RunEvidence, BlockerCount, ConditionSatisfied

LEMMA TypeOfEvaluate ==
    ASSUME TInv, NEW c \in Callers, Evaluate(c)
    PROVE  TInv'
<1> USE OwnStays
<1>1. pc[c] \in Working
    BY DEF Evaluate, Working, CallerPc, Away, Early
<1>2. PICK passed \in BOOLEAN : Judge(c, passed)
  <2>1. CASE pc[c] = "evidence"
      BY <2>1, EvidenceIsBoolean DEF Evaluate
  <2>2. CASE Current(c).node = "validator" /\ pc[c] = "call"
    <3>1. copy[c] \in Records /\ at[c] \in 1..Len(copy[c].definition)
          /\ Current(c) = copy[c].definition[at[c]]
        BY <1>1, AtStage
    <3>2. Current(c).validator \in Validators \ {"none"}
        BY <2>2, <3>1, DefinitionIsValid DEF ValidFields, ValidNode
    <3>3. \A found \in BOOLEAN : ValidatorEvidence(Current(c), Source(c), found) \in BOOLEAN
        BY <3>2, EvidenceIsBoolean DEF ValidatorEvidence, Validators
    <3> QED
        BY <2>2, <3>3 DEF Evaluate
  <2>3. CASE Current(c).node # "validator" /\ pc[c] # "evidence"
      BY <2>3, EvidenceIsBoolean DEF Evaluate
  <2> QED
      BY <2>1, <2>2, <2>3 DEF Evaluate
<1>3. Shared'
    BY <1>2, SharedStays DEF Judge, TInv
<1>4. TypedAt("complete", copy[c], at[c], attempt[c]) /\ "complete" \in CallerPc
    BY <1>1, TypedOnward DEF InTool
<1> DEFINE res == [run |-> result[c].run, passed |-> passed]
<1>5. res \in Results
    BY DEF Results
<1>6. Moves(c, "complete", copy[c], at[c], attempt[c], res)
    BY <1>2, ToolStepsMove
<1> HIDE DEF res
<1>7. /\ copy[c] \in Records \cup {NoRecord} /\ at[c] \in 0..MaxStages
      /\ attempt[c] \in 0..MaxAttempts
    OBVIOUS
<1> QED
    BY <1>3, <1>4, <1>5, <1>6, <1>7, MovesAreTyped

LEMMA TypeOfTools ==
    ASSUME TInv, NEW c \in Callers,
           Bind(c) \/ Launch(c) \/ Crash(c) \/ (Calls(c) /\ Escapes(c))
    PROVE  TInv'
<1> USE OwnStays
<1>1. CASE Bind(c) \/ Launch(c)
  <2>1. pc[c] \in Working /\ Current(c).node \in ProviderNodes
      BY <1>1 DEF Bind, Launch, Calls, Working, CallerPc, Away, Early, TInv, TypedAt, InTool, Current
  <2>2. KeyOf(c) \in BoundKeys
      BY <2>1, AtStage, KeyIsBound
  <2>3. PICK place, run : /\ place \in {"launch", "inside"}
                         /\ RunOK(run) /\ SetRun(KeyOf(c), run) /\ Goes(c, place)
    <3>1. CASE Bind(c)
      <4> DEFINE run == PlannedRun(Current(c).task, Declared(c))
      <4>1. RunOK(run)
          BY DEF RunOK, RunState, PlannedRun
      <4>2. SetRun(KeyOf(c), run) /\ Goes(c, "launch")
          BY <3>1, ToolStepsMove DEF Bind
      <4> HIDE DEF run
      <4> QED
          BY <4>1, <4>2
    <3>2. CASE Launch(c)
      <4> DEFINE run == [runs[KeyOf(c)] EXCEPT !.state = "running"]
      <4>1. RunOK(run)
          BY <2>2, StateIsTyped DEF TInv
      <4>2. SetRun(KeyOf(c), run) /\ Goes(c, "inside")
          BY <3>2, ToolStepsMove DEF Launch
      <4> HIDE DEF run
      <4> QED
          BY <4>1, <4>2
    <3> QED
        BY <1>1, <3>1, <3>2
  <2>4. UNCHANGED <<record, log>> /\ report' \in Reports
      BY <1>1 DEF Bind, Launch, TInv, Shared
  <2>5. Shared'
      BY <2>2, <2>3, <2>4, RunSetIsTyped DEF TInv
  <2>6. TypedAt(place, copy[c], at[c], attempt[c]) /\ place \in CallerPc
      BY <2>1, <2>3, TypedOnward
  <2> QED
      BY <2>3, <2>5, <2>6, MovesAreTyped DEF Goes
<1>2. CASE Crash(c)
  <2>1. Shared' /\ pc[c] \notin Away
      BY <1>2, SharedStays DEF Crash, TInv
  <2>2. TypedAt("crashed", copy[c], at[c], attempt[c]) /\ "crashed" \in CallerPc
      BY <2>1 DEF TInv, TypedAt, Away, Working, Early, InTool, CallerPc
  <2> QED
      BY <1>2, <2>1, <2>2, ToolStepsMove, MovesAreTyped DEF Goes
<1>3. CASE Calls(c) /\ Escapes(c)
  <2>1. Shared' /\ pc[c] \in Working
      BY <1>3, SharedStays DEF Calls, Escapes, TInv, Working, CallerPc, Away, Early
  <2>2. TypedAt("raised", copy[c], at[c], attempt[c]) /\ "raised" \in CallerPc
      BY <2>1, TypedOnward DEF InTool
  <2> QED
      BY <1>3, <2>1, <2>2, ToolStepsMove, MovesAreTyped DEF Goes
<1> QED
    BY <1>1, <1>2, <1>3

LEMMA TypeNext == TInv /\ [Next]_vars => TInv'
<1> SUFFICES ASSUME TInv, [Next]_vars PROVE TInv'
    OBVIOUS
<1>1. CASE UNCHANGED vars
  <2>1. Shared'
      BY <1>1, SharedStays DEF TInv, vars
  <2>2. Own' /\ \A c \in Callers : TypedAt(pc'[c], copy'[c], at'[c], attempt'[c])
      BY <1>1 DEF TInv, Own, vars
  <2> QED
      BY <2>1, <2>2 DEF TInv
<1>2. CASE \E k \in BoundKeys : RunEnds(k) \/ RunOverwritten(k)
    BY <1>2, TypeOfRuns
<1>3. ASSUME NEW c \in Callers, (\E d \in Catalogue : CallFirst(c, d)) \/ CallAgain(c) \/ CallOther(c)
      PROVE  TInv'
  <2>1. CASE \E d \in Catalogue : CallFirst(c, d)
      BY <2>1, TypeOfCalls
  <2>2. CASE CallAgain(c) \/ CallOther(c)
    <3>1. record \in Records
        BY <2>2 DEF CallAgain, CallOther, TInv, Shared
    <3>2. record.definition \in Catalogue
        BY <3>1, DefinitionIsValid
    <3> QED
        BY <2>2, <3>2, TypeOfCalls
  <2> QED
      BY <1>3, <2>1, <2>2
<1>4. ASSUME NEW c \in Callers, Execute(c) \/ Trouble(c)
      PROVE  TInv'
  <2>1. CASE Create(c) \/ LogCreated(c) \/ Start(c) \/ LogStarted(c)
      BY <2>1, TypeOfStart
  <2>2. CASE \/ NextStage(c) \/ Close(c) \/ LogClosed(c)
             \/ LogSkipped(c) \/ LogBegun(c) \/ LogEvidence(c) \/ LogStage(c)
      BY <2>2, TypeOfTurns
  <2>3. CASE Skip(c) \/ Begin(c) \/ Complete(c)
      BY <2>3, TypeOfStage
  <2>4. CASE SourceMissing(c) \/ ToolFails(c) \/ Replay(c) \/ Return(c)
      BY <2>4, TypeOfAnswers DEF SourceMissing, ToolFails
  <2>5. CASE Evaluate(c)
      BY <2>5, TypeOfEvaluate
  <2>6. CASE \/ Bind(c) \/ Launch(c) \/ Crash(c)
             \/ Conflict(c) \/ LockTimesOut(c) \/ ToolEscapes(c)
      BY <2>6, TypeOfTools DEF Conflict, LockTimesOut, ToolEscapes
  <2> QED
      BY <1>4, <2>1, <2>2, <2>3, <2>4, <2>5, <2>6 DEF Execute, Trouble
<1> QED
    BY <1>1, <1>2, <1>3, <1>4 DEF Next

LEMMA TypeAlways == Spec => []TInv
BY TypeInit, TypeNext, PTL DEF Spec

\* What the records of the proof are for TypeOK.
LEMMA TypeIsOK == TInv => TypeOK
<1> SUFFICES ASSUME TInv PROVE TypeOK
    OBVIOUS
<1>1. ASSUME NEW r \in Records \cup {NoRecord}
      PROVE  RecordOK(r)
  <2>1. CASE r \in Records
    <3>1. DOMAIN r = DOMAIN NoRecord
        BY <2>1, RecordIsFields DEF RecordWith, NoRecord
    <3>2. /\ r.definition \in Catalogue /\ r.status \in StrategyStatus \ {"none"}
          /\ r.stages \in [1..Len(r.definition) -> StageRecordSet]
          /\ r.current \in 0..Len(r.definition)
        BY <2>1, RecordIsFields, DefinitionIsValid
    <3>3. \A i \in DOMAIN r.stages : StageRecordOK(r.stages[i])
        BY <3>2 DEF StageRecordOK, StageRecordSet
    <3> QED
        BY <3>1, <3>2, <3>3 DEF RecordOK
  <2> QED
      BY <2>1 DEF RecordOK
<1>2. /\ RecordOK(record) /\ report \in Reports
      /\ \A ev \in log : ev.stage \in 0..MaxStages
      /\ \A k \in BoundKeys :
            runs[k].state \in RunState /\ runs[k].verdict \in EndedRun \cup {"none"}
    BY <1>1 DEF TInv, Shared, RunOK
<1>3. ASSUME NEW c \in Callers
      PROVE  /\ pc[c] \in CallerPc /\ RecordOK(copy[c])
             /\ pc[c] \notin Away \cup {"create", "logCreated", "start", "logStarted"}
                 => at[c] \in 1..Len(copy[c].definition)
             /\ attempt[c] \in 0..MaxAttempts
             /\ attempt[c] > 0 => attempt[c] <= Current(c).attempts
             /\ result[c].run \in BoundKeys \cup {NoKey} /\ result[c].passed \in BOOLEAN
    BY <1>1 DEF TInv, Own, TypedAt, Working, Early, Current, Results
<1> QED
    BY <1>2, <1>3 DEF TypeOK

\* The record of a Strategy, the copies of its callers and the Runs keep their shape,
\* and no Stage is attempted more often than its retry policy and the schema allow
\* (StrategyStageRecord.attempts), for any number of callers and any valid Strategies.
THEOREM TypeCorrect == Spec => []TypeOK
<1>1. TInv => TypeOK
    BY TypeIsOK
<1> QED
    BY <1>1, TypeAlways, PTL

-----------------------------------------------------------------------------
(***************************************************************************)
(* Runs: one launch for each key, and one verdict of its executor.         *)
(***************************************************************************)
Launching == {"launch", "inside"}

\* A step of c that leaves the Runs alone and does not take c to a launch.
Aside(c) ==
    /\ UNCHANGED runs
    /\ \E place \in CallerPc \ Launching : \E r, i, n, res : Moves(c, place, r, i, n, res)

LEMMA StepKinds ==
    ASSUME TInv, NEW c \in Callers,
           \/ \E d \in Catalogue : CallFirst(c, d)
           \/ CallAgain(c) \/ CallOther(c) \/ Execute(c) \/ Trouble(c)
    PROVE  Bind(c) \/ Launch(c) \/ Aside(c)
<1> USE DEF Aside
<1>1. /\ {"create", "returned", "raised", "logCreated", "start", "logStarted", "stage", "close",
          "logClosed", "next", "call", "logStage", "begin", "logSkipped", "logBegun",
          "logEvidence", "complete", "evidence", "crashed"} \subseteq CallerPc \ Launching
      /\ PlaceAfterEvidence(c) \in {"logStage", "begin"}
    BY DEF CallerPc, Launching, PlaceAfterEvidence
<1>2. CASE \E d \in Catalogue : CallFirst(c, d)
    BY <1>1, <1>2, StepsMove DEF CallFirst, Enter
<1>3. CASE CallAgain(c) \/ CallOther(c)
    BY <1>1, <1>3, StepsMove DEF CallAgain, CallOther, Enter
<1>4. CASE Create(c) \/ LogCreated(c) \/ Start(c) \/ LogStarted(c)
    BY <1>1, <1>4, StepsMove DEF Create, LogCreated, Start, LogStarted, Goes
<1>5. CASE NextStage(c)
    BY <1>1, <1>5, StepsMove DEF NextStage
<1>6. CASE Close(c) \/ LogClosed(c)
    BY <1>1, <1>6, StepsMove DEF Close, LogClosed, Goes
<1>7. CASE LogSkipped(c) \/ LogBegun(c) \/ LogEvidence(c) \/ LogStage(c)
    BY <1>1, <1>7, StageLogsMove DEF LogSkipped, LogBegun, LogEvidence, LogStage, Goes
<1>8. CASE Skip(c) \/ Begin(c) \/ Complete(c)
    BY <1>1, <1>8, SkipMoves, BeginMoves, CompleteMoves
<1>9. CASE Fails(c)
    BY <1>1, <1>9, ToolStepsMove DEF Fails
<1>10. CASE Replay(c) \/ Return(c)
    BY <1>1, <1>10, ToolStepsMove DEF Replay, Return
<1>11. CASE Evaluate(c)
  <2>1. PICK passed : Judge(c, passed)
      BY <1>11 DEF Evaluate
  <2> QED
      BY <1>1, <2>1, ToolStepsMove DEF Judge
<1>12. CASE Escapes(c) \/ Crash(c)
    BY <1>1, <1>12, ToolStepsMove DEF Escapes, Crash, Goes
<1> QED
    BY <1>2, <1>3, <1>4, <1>5, <1>6, <1>7, <1>8, <1>9, <1>10, <1>11, <1>12
    DEF Execute, Trouble, SourceMissing, ToolFails, Conflict, LockTimesOut, ToolEscapes

\* A launch belongs to one caller, and its Run is in the state the caller left it in.
Launched ==
    \A c \in Callers :
        /\ pc[c] = "launch" => runs[KeyOf(c)].state = "planned"
        /\ pc[c] = "inside" => runs[KeyOf(c)].state \in {"running"} \cup EndedRun
        /\ \A o \in Callers :
              pc[c] \in Launching /\ pc[o] \in Launching /\ KeyOf(c) = KeyOf(o) => c = o

LEMMA OthersStay ==
    ASSUME TInv, NEW c \in Callers, NEW place, NEW r, NEW i, NEW n, NEW res,
           Moves(c, place, r, i, n, res), NEW o \in Callers, o # c
    PROVE  /\ pc'[o] = pc[o] /\ copy'[o] = copy[o] /\ at'[o] = at[o]
           /\ attempt'[o] = attempt[o] /\ result'[o] = result[o]
           /\ KeyOf(o)' = KeyOf(o) /\ Current(o)' = Current(o)
BY DEF Moves, TInv, Own, KeyOf, Current

LEMMA MoverIs ==
    ASSUME TInv, NEW c \in Callers, NEW place, NEW r, NEW i, NEW n, NEW res,
           Moves(c, place, r, i, n, res)
    PROVE  /\ pc'[c] = place /\ copy'[c] = r /\ at'[c] = i
           /\ attempt'[c] = n /\ result'[c] = res
BY DEF Moves, TInv, Own

LEMMA GoerIs ==
    ASSUME TInv, NEW c \in Callers, NEW place, Goes(c, place)
    PROVE  pc'[c] = place /\ copy'[c] = copy[c] /\ at'[c] = at[c]
BY MoverIs DEF Goes

LEMMA GoerStays ==
    ASSUME TInv, NEW c \in Callers, NEW place, Goes(c, place)
    PROVE  KeyOf(c)' = KeyOf(c) /\ Current(c)' = Current(c) /\ pc'[c] = place
BY MoverIs DEF Goes, KeyOf, Current

LEMMA LaunchedKey ==
    ASSUME TInv, NEW c \in Callers, pc[c] \in Launching \cup {"evidence"}
    PROVE  KeyOf(c) \in BoundKeys
<1>1. pc[c] \in Working /\ Current(c).node \in ProviderNodes
    BY DEF Launching, Working, CallerPc, Away, Early, TInv, TypedAt, InTool, Current
<1> QED
    BY <1>1, AtStage, KeyIsBound

\* What a step does to one Run: nothing, or one more step of its life.
RunStep(k) ==
    \/ runs'[k] = runs[k]
    \/ runs[k].state = "none" /\ runs'[k].state = "planned"
    \/ /\ runs'[k].task = runs[k].task /\ runs'[k].expects = runs[k].expects
       /\ \/ /\ runs[k].state = "planned" /\ runs'[k].state = "running"
             /\ runs'[k].verdict = runs[k].verdict
          \/ /\ runs[k].state \in {"running"} \cup EndedRun /\ runs'[k].state \in EndedRun
             /\ runs[k].verdict # "none" => runs'[k].verdict = runs[k].verdict

LEMMA SetRunIs ==
    ASSUME TInv, NEW k \in BoundKeys, NEW run, SetRun(k, run)
    PROVE  runs'[k] = run /\ \A j \in BoundKeys : j # k => runs'[j] = runs[j]
BY DEF SetRun, TInv, Shared

LEMMA BindIs ==
    ASSUME TInv, NEW c \in Callers, Bind(c)
    PROVE  /\ KeyOf(c) \in BoundKeys /\ runs[KeyOf(c)].state = "none"
           /\ runs'[KeyOf(c)].state = "planned" /\ runs'[KeyOf(c)].task = Current(c).task
           /\ runs'[KeyOf(c)].expects = Declared(c)
           /\ \A j \in BoundKeys : j # KeyOf(c) => runs'[j] = runs[j]
<1>1. pc[c] \in Working /\ Current(c).node \in ProviderNodes
    BY DEF Bind, Calls, Working, CallerPc, Away, Early
<1>2. KeyOf(c) \in BoundKeys
    BY <1>1, AtStage, KeyIsBound
<1> QED
    BY <1>2, SetRunIs DEF Bind, PlannedRun

LEMMA LaunchIs ==
    ASSUME TInv, Launched, NEW c \in Callers, Launch(c)
    PROVE  /\ KeyOf(c) \in BoundKeys /\ runs[KeyOf(c)].state = "planned"
           /\ runs'[KeyOf(c)].state = "running"
           /\ runs'[KeyOf(c)].task = runs[KeyOf(c)].task
           /\ runs'[KeyOf(c)].expects = runs[KeyOf(c)].expects
           /\ runs'[KeyOf(c)].verdict = runs[KeyOf(c)].verdict
           /\ \A j \in BoundKeys : j # KeyOf(c) => runs'[j] = runs[j]
<1>1. KeyOf(c) \in BoundKeys /\ runs[KeyOf(c)].state = "planned"
    BY LaunchedKey DEF Launch, Launching, Launched
<1>2. [runs[KeyOf(c)] EXCEPT !.state = "running"]
         = [state |-> "running", verdict |-> runs[KeyOf(c)].verdict,
            task |-> runs[KeyOf(c)].task, expects |-> runs[KeyOf(c)].expects]
    BY <1>1, StateIsTyped DEF TInv
<1>3. SetRun(KeyOf(c), [runs[KeyOf(c)] EXCEPT !.state = "running"])
    BY DEF Launch
<1> QED
    BY <1>1, <1>2, <1>3, SetRunIs

\* What happens to a Run while no caller takes a step.
LEMMA RunsAreApart ==
    ASSUME NEW k \in BoundKeys, RunEnds(k) \/ RunOverwritten(k)
    PROVE  UNCHANGED <<record, log, pc, copy, at, attempt, result>>
BY DEF RunEnds, RunOverwritten, callerVars

LEMMA RunStops ==
    ASSUME TInv, Launched, NEW k \in BoundKeys, RunEnds(k) \/ RunOverwritten(k)
    PROVE  /\ runs[k].state \in {"running"} \cup EndedRun /\ runs'[k].state \in EndedRun
           /\ runs'[k].task = runs[k].task /\ runs'[k].expects = runs[k].expects
           /\ runs[k].verdict # "none" => runs'[k].verdict = runs[k].verdict
           /\ \A j \in BoundKeys : j # k => runs'[j] = runs[j]
           /\ UNCHANGED <<record, log, pc, copy, at, attempt, result>>
<1>1. PICK run : /\ SetRun(k, run) /\ run.state \in EndedRun
                 /\ run.task = runs[k].task /\ run.expects = runs[k].expects
                 /\ runs[k].verdict # "none" => run.verdict = runs[k].verdict
    BY RunIsSet DEF TInv
<1>2. runs[k].state \in {"running"} \cup EndedRun
  <2>1. CASE RunEnds(k)
      BY <2>1 DEF RunEnds, Attended, Launched
  <2>2. CASE RunOverwritten(k)
      BY <2>2 DEF RunOverwritten, EndedRun
  <2> QED
      BY <2>1, <2>2
<1> QED
    BY <1>1, <1>2, SetRunIs, RunsAreApart

LEMMA RunsStep ==
    ASSUME TInv, Launched, [Next]_vars, NEW k \in BoundKeys
    PROVE  RunStep(k)
<1>1. CASE UNCHANGED vars
    BY <1>1 DEF vars, RunStep
<1>2. ASSUME NEW j \in BoundKeys, RunEnds(j) \/ RunOverwritten(j)
      PROVE  RunStep(k)
    BY <1>2, RunStops DEF RunStep
<1>3. ASSUME NEW c \in Callers,
             \/ \E d \in Catalogue : CallFirst(c, d)
             \/ CallAgain(c) \/ CallOther(c) \/ Execute(c) \/ Trouble(c)
      PROVE  RunStep(k)
  <2>1. CASE Bind(c)
    <3>1. /\ KeyOf(c) \in BoundKeys /\ runs[KeyOf(c)].state = "none"
          /\ runs'[KeyOf(c)].state = "planned"
          /\ \A j \in BoundKeys : j # KeyOf(c) => runs'[j] = runs[j]
        BY <2>1, BindIs
    <3> QED
        BY <3>1 DEF RunStep
  <2>2. CASE Launch(c)
    <3>1. /\ runs[KeyOf(c)].state = "planned" /\ runs'[KeyOf(c)].state = "running"
          /\ runs'[KeyOf(c)].task = runs[KeyOf(c)].task
          /\ runs'[KeyOf(c)].expects = runs[KeyOf(c)].expects
          /\ runs'[KeyOf(c)].verdict = runs[KeyOf(c)].verdict
          /\ \A j \in BoundKeys : j # KeyOf(c) => runs'[j] = runs[j]
        BY <2>2, LaunchIs
    <3> QED
        BY <3>1 DEF RunStep
  <2>3. CASE Aside(c)
      BY <2>3 DEF Aside, RunStep
  <2> QED
      BY <1>3, <2>1, <2>2, <2>3, StepKinds
<1> QED
    BY <1>1, <1>2, <1>3 DEF Next

LEMMA LaunchedStays ==
    ASSUME TInv, Launched, [Next]_vars
    PROVE  Launched'
<1>1. CASE UNCHANGED vars
    BY <1>1 DEF vars, Launched, KeyOf, Current
<1>2. ASSUME NEW k \in BoundKeys, RunEnds(k) \/ RunOverwritten(k)
      PROVE  Launched'
  <2>1. /\ runs[k].state \in {"running"} \cup EndedRun /\ runs'[k].state \in EndedRun
        /\ \A j \in BoundKeys : j # k => runs'[j] = runs[j]
        /\ UNCHANGED <<pc, copy, at>>
      BY <1>2, RunStops
  <2>2. \A c \in Callers : KeyOf(c)' = KeyOf(c)
      BY <2>1 DEF KeyOf, Current
  <2>3. \A c \in Callers : pc[c] \in Launching => KeyOf(c) \in BoundKeys
      BY LaunchedKey
  <2> QED
      BY <2>1, <2>2, <2>3 DEF Launched, Launching, EndedRun
<1>3. ASSUME NEW c \in Callers,
             \/ \E d \in Catalogue : CallFirst(c, d)
             \/ CallAgain(c) \/ CallOther(c) \/ Execute(c) \/ Trouble(c)
      PROVE  Launched'
  <2>1. \A o \in Callers : pc[o] \in Launching => KeyOf(o) \in BoundKeys
      BY LaunchedKey
  <2>2. CASE Bind(c)
    <3>1. Goes(c, "launch")
        BY <2>2, ToolStepsMove
    <3>2. KeyOf(c)' = KeyOf(c) /\ pc'[c] = "launch"
        BY <3>1, GoerStays
    <3>3. \A o \in Callers \ {c} : pc'[o] = pc[o] /\ KeyOf(o)' = KeyOf(o)
        BY <3>1, OthersStay DEF Goes
    <3>4. /\ runs[KeyOf(c)].state = "none" /\ runs'[KeyOf(c)].state = "planned"
          /\ \A j \in BoundKeys : j # KeyOf(c) => runs'[j] = runs[j]
        BY <2>2, BindIs
    <3>5. \A o \in Callers : pc[o] \in Launching => KeyOf(o) # KeyOf(c)
        BY <3>4 DEF Launched, Launching, EndedRun
    <3> QED
        BY <2>1, <3>2, <3>3, <3>4, <3>5 DEF Launched, Launching
  <2>3. CASE Launch(c)
    <3>1. Goes(c, "inside") /\ pc[c] = "launch"
        BY <2>3, ToolStepsMove DEF Launch
    <3>2. KeyOf(c)' = KeyOf(c) /\ pc'[c] = "inside"
        BY <3>1, GoerStays
    <3>3. \A o \in Callers \ {c} : pc'[o] = pc[o] /\ KeyOf(o)' = KeyOf(o)
        BY <3>1, OthersStay DEF Goes
    <3>4. /\ runs'[KeyOf(c)].state = "running"
          /\ \A j \in BoundKeys : j # KeyOf(c) => runs'[j] = runs[j]
        BY <2>3, LaunchIs
    <3>5. \A o \in Callers \ {c} : pc[o] \in Launching => KeyOf(o) # KeyOf(c)
        BY <3>1 DEF Launched, Launching
    <3> QED
        BY <2>1, <3>1, <3>2, <3>3, <3>4, <3>5 DEF Launched, Launching
  <2>4. CASE Aside(c)
    <3>1. PICK place, r, i, n, res : place \in CallerPc \ Launching /\ Moves(c, place, r, i, n, res)
        BY <2>4 DEF Aside
    <3>2. pc'[c] \notin Launching
        BY <3>1, MoverIs
    <3>3. \A o \in Callers \ {c} : pc'[o] = pc[o] /\ KeyOf(o)' = KeyOf(o)
        BY <3>1, OthersStay
    <3> QED
        BY <2>4, <3>2, <3>3 DEF Aside, Launched, Launching
  <2> QED
      BY <1>3, <2>2, <2>3, <2>4, StepKinds
<1> QED
    BY <1>1, <1>2, <1>3 DEF Next

LEMMA LaunchedAlways == Spec => [](TInv /\ Launched)
<1>1. Init => Launched
    BY DEF Init, Launched, Launching
<1> QED
    BY <1>1, TypeInit, TypeNext, LaunchedStays, PTL DEF Spec

-----------------------------------------------------------------------------
(***************************************************************************)
(* Evidence: what stands behind a Stage that succeeded.                    *)
(***************************************************************************)
StageFinal == {"succeeded", "failed", "skipped"}

\* What stands behind the success of Stage i with a Run, when the Runs are R: the
\* parts of StageIsEarned, and that the Runs it speaks of are there to stay.
Behind(R, r, i, run) ==
    LET s == r.definition[i]
        src == r.stages[s.source].run
    IN  /\ s.node \in ProviderNodes =>
            /\ run = [stage |-> i, node |-> s.node]
            /\ R[run].state # "none" /\ R[run].task = s.task
            /\ s.semantic => R[run].verdict = "succeeded"
            /\ s.process => R[run].verdict \in {"succeeded", "blocked"}
        /\ s.validator = "blocker_count" =>
            /\ src \in BoundKeys /\ R[src].state # "none"
            /\ s.reads \subseteq R[src].expects

Earned(R, r, i) == Status(r, i) = "succeeded" => Behind(R, r, i, r.stages[i].run)

\* A Stage that is over, and was worked on only if its run condition held.
Done(r, i) ==
    /\ Status(r, i) \in StageFinal
    /\ Status(r, i) # "skipped" => ConditionSatisfied(r, r.definition[i])

\* The places at which the Stage of the caller is over.
Decided == {"logSkipped", "logEvidence", "logStage", "next", "close", "logClosed"}

\* The places at which a skipped Stage may be the current one.
AfterStage == {"logSkipped", "next", "close", "logClosed"}

Stops(r, i) == Status(r, i) = "failed" /\ r.definition[i].action = "stop"

\* How far the record of a caller is, at each place of execute.
Progress(R, place, r, i) ==
    place \notin Away =>
        /\ \A j \in 1..Len(r.definition) : Earned(R, r, j)
        /\ place # "logClosed" => r.status \in {"pending", "running"}
        /\ place \in Early => \A j \in 1..Len(r.definition) : Status(r, j) = "pending"
        /\ place \in Working =>
            /\ \A j \in 1..Len(r.definition) : j < i => Done(r, j)
            /\ \A j \in 1..Len(r.definition) : j > i => Status(r, j) = "pending"
            /\ place # "stage" => \/ ConditionSatisfied(r, r.definition[i])
                                  \/ Status(r, i) = "skipped" /\ place \in AfterStage
            /\ place \in Decided => Status(r, i) \in StageFinal
            /\ place = "close" => i = Len(r.definition) \/ Stops(r, i)

\* What a caller knows of the Run of its Stage.
Known(R, place, r, i, res) ==
    LET key == [stage |-> i, node |-> r.definition[i].node]
    IN  /\ place \in Launching \cup {"evidence"} =>
              R[key].state # "none" /\ R[key].task = r.definition[i].task
        /\ place = "evidence" => res.run = key
        /\ place = "complete" /\ res.passed => Behind(R, r, i, res.run)

\* A record that says the Strategy succeeded has nothing left undone.
Succeeds(r) ==
    r.status = "succeeded" =>
        /\ Status(r, Len(r.definition)) = "succeeded"
        /\ \A j \in 1..Len(r.definition) : Done(r, j)

Unbound == \A k \in BoundKeys : runs[k].state = "none" => runs[k].expects = {}

EInv ==
    /\ Unbound
    /\ record # NoRecord =>
          Succeeds(record) /\ \A j \in 1..Len(record.definition) : Earned(runs, record, j)
    /\ \A c \in Callers :
          /\ Progress(runs, pc[c], copy[c], at[c])
          /\ Known(runs, pc[c], copy[c], at[c], result[c])

LEMMA RunStays ==
    ASSUME TInv, Launched, [Next]_vars, NEW k \in BoundKeys
    PROVE  /\ runs[k].state # "none" =>
                 /\ runs'[k].state # "none" /\ runs'[k].task = runs[k].task
                 /\ runs'[k].expects = runs[k].expects
           /\ runs[k].verdict # "none" => runs'[k].verdict = runs[k].verdict
           /\ runs'[k].state = "none" => runs'[k] = runs[k]
<1>1. runs[k].state = "none" => runs[k].verdict = "none"
    BY DEF TInv, Shared, RunOK
<1> QED
    BY <1>1, RunsStep DEF RunStep, EndedRun

LEMMA StageKeyIsBound ==
    ASSUME NEW r \in Records, NEW i \in 1..Len(r.definition),
           r.definition[i].node \in ProviderNodes
    PROVE  [stage |-> i, node |-> r.definition[i].node] \in BoundKeys
<1>1. r.definition \in Catalogue
    BY DefinitionIsValid
<1>2. [stage |-> i, node |-> r.definition[i].node] \in Keys(r.definition)
    BY DEF Keys
<1> QED
    BY <1>1, <1>2 DEF BoundKeys

LEMMA BehindStays ==
    ASSUME TInv, Launched, [Next]_vars, NEW r \in Records, NEW i \in 1..Len(r.definition),
           NEW run, Behind(runs, r, i, run)
    PROVE  Behind(runs', r, i, run)
<1> DEFINE s == r.definition[i]
           src == r.stages[s.source].run
<1>1. ASSUME s.node \in ProviderNodes
      PROVE  /\ run = [stage |-> i, node |-> s.node]
             /\ runs'[run].state # "none" /\ runs'[run].task = s.task
             /\ s.semantic => runs'[run].verdict = "succeeded"
             /\ s.process => runs'[run].verdict \in {"succeeded", "blocked"}
  <2>1. /\ run = [stage |-> i, node |-> s.node]
        /\ runs[run].state # "none" /\ runs[run].task = s.task
        /\ s.semantic => runs[run].verdict = "succeeded"
        /\ s.process => runs[run].verdict \in {"succeeded", "blocked"}
      BY <1>1 DEF Behind
  <2>2. run \in BoundKeys
      BY <1>1, <2>1, StageKeyIsBound
  <2> QED
      BY <2>1, <2>2, RunStays
<1>2. ASSUME s.validator = "blocker_count"
      PROVE  /\ src \in BoundKeys /\ runs'[src].state # "none"
             /\ s.reads \subseteq runs'[src].expects
  <2>1. /\ src \in BoundKeys /\ runs[src].state # "none"
        /\ s.reads \subseteq runs[src].expects
      BY <1>2 DEF Behind
  <2> QED
      BY <2>1, RunStays
<1> QED
    BY <1>1, <1>2 DEF Behind

LEMMA EarnedStays ==
    ASSUME TInv, Launched, [Next]_vars, NEW r \in Records, NEW i \in 1..Len(r.definition),
           Earned(runs, r, i)
    PROVE  Earned(runs', r, i)
BY BehindStays DEF Earned

\* The Runs move on, and a caller that did not stays where it is with what it knows.
LEMMA CallerStays ==
    ASSUME TInv, Launched, [Next]_vars, NEW place \in CallerPc, NEW r \in Records \cup {NoRecord},
           NEW i \in 0..MaxStages, NEW n \in 0..MaxAttempts, NEW res \in Results,
           TypedAt(place, r, i, n), Progress(runs, place, r, i), Known(runs, place, r, i, res)
    PROVE  Progress(runs', place, r, i) /\ Known(runs', place, r, i, res)
<1>1. CASE place \in Away
    BY <1>1 DEF Progress, Known, Away, Launching
<1>2. CASE place \notin Away
  <2>1. r \in Records
      BY <1>2 DEF TypedAt
  <2>2. Progress(runs', place, r, i)
      BY <2>1, EarnedStays DEF Progress
  <2>3. Known(runs', place, r, i, res)
    <3> DEFINE key == [stage |-> i, node |-> r.definition[i].node]
    <3>1. CASE place \in Launching \cup {"evidence"}
      <4>1. i \in 1..Len(r.definition) /\ r.definition[i].node \in ProviderNodes
          BY <3>1 DEF TypedAt, InTool, Working, CallerPc, Away, Early, Launching
      <4>2. key \in BoundKeys
          BY <2>1, <4>1, StageKeyIsBound
      <4>3. runs[key].state # "none" /\ runs[key].task = r.definition[i].task
          BY <3>1 DEF Known
      <4>4. runs'[key].state # "none" /\ runs'[key].task = r.definition[i].task
          BY <4>2, <4>3, RunStays
      <4> QED
          BY <3>1, <4>4 DEF Known, Launching
    <3>2. CASE place = "complete"
      <4>1. i \in 1..Len(r.definition)
          BY <3>2 DEF TypedAt, Working, CallerPc, Away, Early
      <4>2. res.passed => Behind(runs', r, i, res.run)
          BY <2>1, <3>2, <4>1, BehindStays DEF Known
      <4> QED
          BY <3>2, <4>2 DEF Known, Launching
    <3> QED
        BY <3>1, <3>2 DEF Known, Launching
  <2> QED
      BY <2>2, <2>3
<1> QED
    BY <1>1, <1>2

\* Only the Stages before a Stage bear on its run condition and on its evidence.
LEMMA SameBelow ==
    ASSUME NEW r \in Records, NEW t \in Records, t.definition = r.definition,
           NEW j \in 1..Len(r.definition),
           \A i \in 1..Len(r.definition) : i < j => t.stages[i] = r.stages[i]
    PROVE  /\ ConditionSatisfied(t, t.definition[j]) <=> ConditionSatisfied(r, r.definition[j])
           /\ \A R, run : Behind(R, t, j, run) <=> Behind(R, r, j, run)
<1> DEFINE s == r.definition[j]
<1>1. /\ s.dependencies \subseteq 1..(j - 1)
      /\ ValidNode(s) /\ (s.source # 0 => s.source \in s.dependencies)
      /\ Len(r.definition) \in 1..MaxStages
    BY DefinitionIsValid
<1>2. \A i \in 1..(j - 1) : i \in 1..Len(r.definition) /\ i < j
    BY <1>1 DEF MaxStages
<1>3. \A i \in s.dependencies : t.stages[i] = r.stages[i]
    BY <1>1, <1>2
<1>4. ConditionSatisfied(t, s) <=> ConditionSatisfied(r, s)
    BY <1>3 DEF ConditionSatisfied, Status
<1>5. s.validator = "blocker_count" => s.source # 0
    BY <1>1 DEF ValidNode
<1>6. s.validator = "blocker_count" => t.stages[s.source].run = r.stages[s.source].run
    BY <1>1, <1>3, <1>5
<1>7. ASSUME NEW R, NEW run
      PROVE  Behind(R, t, j, run) <=> Behind(R, r, j, run)
    BY <1>6 DEF Behind
<1> QED
    BY <1>4, <1>7

LEMMA DoneBelow ==
    ASSUME NEW r \in Records, NEW t \in Records, t.definition = r.definition,
           NEW j \in 1..Len(r.definition),
           \A i \in 1..Len(r.definition) : i < j => t.stages[i] = r.stages[i],
           t.stages[j] = r.stages[j]
    PROVE  /\ Done(t, j) <=> Done(r, j)
           /\ \A R : Earned(R, t, j) <=> Earned(R, r, j)
           /\ Status(t, j) = Status(r, j)
BY SameBelow DEF Done, Earned, Status

CallerOK(R, place, r, i, res) == Progress(R, place, r, i) /\ Known(R, place, r, i, res)

\* A step of caller c keeps what the caller knows and what the file says.
Keeps(c) ==
    /\ CallerOK(runs', pc'[c], copy'[c], at'[c], result'[c])
    /\ \/ record' = record
       \/ /\ record' = copy'[c] /\ copy'[c] \in Records
          /\ Succeeds(copy'[c]) /\ \A j \in 1..Len(copy'[c].definition) : Earned(runs', copy'[c], j)

LEMMA AwayIsOK ==
    ASSUME NEW R, NEW place \in Away, NEW r, NEW i, NEW res
    PROVE  CallerOK(R, place, r, i, res)
BY DEF CallerOK, Progress, Known, Away, Launching

LEMMA LeavingKeeps ==
    ASSUME TInv, NEW c \in Callers,
           CallAgain(c) \/ CallOther(c) \/ Escapes(c) \/ Crash(c) \/ LogClosed(c)
    PROVE  Keeps(c)
<1>1. PICK place, r, i, n, res : place \in Away /\ Moves(c, place, r, i, n, res)
  <2>1. {"returned", "raised", "crashed"} \subseteq Away
      BY DEF Away
  <2> QED
      BY <2>1, StepsMove, ToolStepsMove DEF Goes
<1>2. pc'[c] \in Away
    BY <1>1, MoverIs
<1>3. record' = record
    BY DEF CallAgain, CallOther, Escapes, Crash, LogClosed, Enter
<1> QED
    BY <1>2, <1>3, AwayIsOK DEF Keeps

\* A new status of the Strategy, and nothing else.
LEMMA UpdateIs ==
    ASSUME NEW r \in Records, NEW status \in StrategyStatus \ {"none"}
    PROVE  LET t == UpdateStrategy(r, status)
           IN  /\ t \in Records /\ t.definition = r.definition /\ t.status = status
               /\ \A j \in 1..Len(r.definition) :
                     /\ Done(t, j) <=> Done(r, j)
                     /\ \A R : Earned(R, t, j) <=> Earned(R, r, j)
                     /\ Status(t, j) = Status(r, j)
                     /\ ConditionSatisfied(t, t.definition[j])
                          <=> ConditionSatisfied(r, r.definition[j])
<1> DEFINE t == UpdateStrategy(r, status)
<1>1. t \in Records /\ t.definition = r.definition /\ t.status = status /\ t.stages = r.stages
    BY StatusIsTyped
<1> HIDE DEF t
<1>2. \A i \in 1..Len(r.definition) : t.stages[i] = r.stages[i]
    BY <1>1
<1>3. ASSUME NEW j \in 1..Len(r.definition)
      PROVE  /\ Done(t, j) <=> Done(r, j)
             /\ \A R : Earned(R, t, j) <=> Earned(R, r, j)
             /\ Status(t, j) = Status(r, j)
             /\ ConditionSatisfied(t, t.definition[j])
                  <=> ConditionSatisfied(r, r.definition[j])
    BY <1>1, <1>2, DoneBelow, SameBelow
<1> QED
    BY <1>1, <1>3 DEF t

LEMMA EarlyKeeps ==
    ASSUME TInv, EInv, NEW c \in Callers,
           \/ \E d \in Catalogue : CallFirst(c, d)
           \/ Create(c) \/ LogCreated(c) \/ Start(c) \/ LogStarted(c)
    PROVE  Keeps(c)
<1> USE OwnStays
<1>1. CASE \E d \in Catalogue : CallFirst(c, d)
  <2>1. PICK d \in Catalogue : CallFirst(c, d)
      BY <1>1
  <2> DEFINE r == NewRecord(d)
  <2>2. r \in Records /\ r.definition = d /\ r.status = "pending"
        /\ \A j \in 1..Len(d) : Status(r, j) = "pending"
    <3>1. \A j \in 1..Len(d) : r.stages[j] = StageRecord("pending", 0, NoKey)
        BY DEF NewRecord
    <3> QED
        BY <3>1, NewRecordIsTyped DEF NewRecord, Status, StageRecord
  <2> HIDE DEF r
  <2>3. CallerOK(runs, "create", r, 0, NoResult)
      BY <2>2 DEF CallerOK, Progress, Known, Early, Working, Away, Launching, Earned
  <2>4. Moves(c, "create", r, 0, 0, NoResult)
      BY <2>1, StepsMove DEF r
  <2>5. record' = record /\ runs' = runs
      BY <2>1 DEF CallFirst, Enter
  <2> QED
      BY <2>3, <2>4, <2>5, MoverIs DEF Keeps
<1>2. CASE Create(c) \/ LogCreated(c) \/ Start(c) \/ LogStarted(c)
  <2>1. pc[c] \in Early /\ runs' = runs
      BY <1>2 DEF Create, LogCreated, Start, LogStarted, Early
  <2>2. /\ copy[c] \in Records /\ Len(copy[c].definition) \in 1..MaxStages
        /\ copy[c].status \in {"pending", "running"}
        /\ \A j \in 1..Len(copy[c].definition) :
              Status(copy[c], j) = "pending" /\ Earned(runs, copy[c], j)
    <3>1. copy[c] \in Records
        BY <2>1 DEF TInv, TypedAt, Early, Away
    <3>2. Progress(runs, pc[c], copy[c], at[c])
        BY DEF EInv
    <3> QED
        BY <2>1, <3>1, <3>2, DefinitionIsValid DEF Progress, Early, Away
  <2>3. CASE Create(c) \/ LogCreated(c)
    <3>1. PICK place \in {"logCreated", "start"} : Goes(c, place)
        BY <2>3, StepsMove
    <3>2. CallerOK(runs, place, copy[c], at[c], result[c])
        BY <2>2 DEF CallerOK, Progress, Known, Early, Working, Away, Launching
    <3>3. record' = record \/ record' = copy[c]
        BY <2>3 DEF Create, LogCreated, Save
    <3>4. pc'[c] = place /\ copy'[c] = copy[c] /\ at'[c] = at[c] /\ result'[c] = result[c]
        BY <3>1, MoverIs DEF Goes
    <3> QED
        BY <2>1, <2>2, <3>2, <3>3, <3>4 DEF Keeps, Succeeds
  <2>4. CASE Start(c)
    <3> DEFINE r == UpdateStrategy(copy[c], "running")
    <3>1. /\ r \in Records /\ r.definition = copy[c].definition /\ r.status = "running"
          /\ \A j \in 1..Len(copy[c].definition) :
                Status(r, j) = "pending" /\ Earned(runs, r, j)
        BY <2>2, UpdateIs DEF StrategyStatus
    <3>2. Moves(c, "logStarted", r, at[c], attempt[c], result[c])
        BY <2>4, StepsMove
    <3>3. record' = r
        BY <2>4 DEF Start, Save
    <3> HIDE DEF r
    <3>4. CallerOK(runs, "logStarted", r, at[c], result[c])
        BY <3>1 DEF CallerOK, Progress, Known, Early, Working, Away, Launching
    <3>5. pc'[c] = "logStarted" /\ copy'[c] = r /\ at'[c] = at[c] /\ result'[c] = result[c]
        BY <3>2, MoverIs
    <3> QED
        BY <2>1, <3>1, <3>3, <3>4, <3>5 DEF Keeps, Succeeds
  <2>5. CASE LogStarted(c)
    <3>1. Moves(c, "stage", copy[c], 1, attempt[c], result[c])
        BY <2>5, StepsMove
    <3>2. CallerOK(runs, "stage", copy[c], 1, result[c])
        BY <2>2 DEF CallerOK, Progress, Known, Early, Working, Away, Launching, Decided
    <3>3. record' = record
        BY <2>5 DEF LogStarted
    <3>4. pc'[c] = "stage" /\ copy'[c] = copy[c] /\ at'[c] = 1 /\ result'[c] = result[c]
        BY <3>1, MoverIs
    <3> QED
        BY <2>1, <3>2, <3>3, <3>4 DEF Keeps
  <2> QED
      BY <1>2, <2>3, <2>4, <2>5
<1> QED
    BY <1>1, <1>2

\* What has to be shown of a place among the Stages.
LEMMA ProgressAt ==
    ASSUME NEW R, NEW r, NEW i, NEW place \in Working \ {"stage", "close", "logClosed"},
           \A j \in 1..Len(r.definition) : Earned(R, r, j),
           r.status \in {"pending", "running"},
           \A j \in 1..Len(r.definition) : j < i => Done(r, j),
           \A j \in 1..Len(r.definition) : j > i => Status(r, j) = "pending",
           \/ ConditionSatisfied(r, r.definition[i])
           \/ Status(r, i) = "skipped" /\ place \in AfterStage,
           place \in Decided => Status(r, i) \in StageFinal
    PROVE  Progress(R, place, r, i)
<1>1. place \notin Early /\ place # "stage" /\ place # "close" /\ place # "logClosed"
    BY DEF Working
<1> QED
    BY <1>1 DEF Progress

\* What EInv says of a caller that works on a Stage.
LEMMA AtWork ==
    ASSUME TInv, EInv, NEW c \in Callers, pc[c] \in Working
    PROVE  LET d == copy[c].definition
           IN  /\ copy[c] \in Records /\ at[c] \in 1..Len(d) /\ Len(d) \in 1..MaxStages
               /\ Current(c) = d[at[c]]
               /\ \A j \in 1..Len(d) : Earned(runs, copy[c], j)
               /\ \A j \in 1..Len(d) : j < at[c] => Done(copy[c], j)
               /\ \A j \in 1..Len(d) : j > at[c] => Status(copy[c], j) = "pending"
               /\ pc[c] # "logClosed" => copy[c].status \in {"pending", "running"}
               /\ pc[c] # "stage" =>
                    \/ ConditionSatisfied(copy[c], d[at[c]])
                    \/ Status(copy[c], at[c]) = "skipped" /\ pc[c] \in AfterStage
               /\ pc[c] \in Decided => Status(copy[c], at[c]) \in StageFinal
               /\ pc[c] = "close" => at[c] = Len(d) \/ Stops(copy[c], at[c])
<1>1. Progress(runs, pc[c], copy[c], at[c])
    BY DEF EInv
<1>2. /\ copy[c] \in Records /\ at[c] \in 1..Len(copy[c].definition)
      /\ Len(copy[c].definition) \in 1..MaxStages
      /\ Current(c) = copy[c].definition[at[c]]
    BY AtStage
<1>3. pc[c] \notin Away
    BY DEF Working
<1> QED
    BY <1>1, <1>2, <1>3 DEF Progress

LEMMA TurnsKeep ==
    ASSUME TInv, EInv, NEW c \in Callers,
           NextStage(c) \/ Close(c) \/ LogSkipped(c) \/ LogBegun(c) \/ LogEvidence(c) \/ LogStage(c)
    PROVE  Keeps(c)
<1> USE OwnStays
<1>1. pc[c] \in Working /\ runs' = runs
    BY DEF NextStage, Close, LogSkipped, LogBegun, LogEvidence, LogStage, Working,
           Away, Early, CallerPc
<1> DEFINE d == copy[c].definition
<1>2. /\ copy[c] \in Records /\ at[c] \in 1..Len(d) /\ Len(d) \in 1..MaxStages
      /\ Current(c) = d[at[c]]
      /\ \A j \in 1..Len(d) : Earned(runs, copy[c], j)
      /\ \A j \in 1..Len(d) : j < at[c] => Done(copy[c], j)
      /\ \A j \in 1..Len(d) : j > at[c] => Status(copy[c], j) = "pending"
      /\ pc[c] # "logClosed" => copy[c].status \in {"pending", "running"}
      /\ pc[c] # "stage" =>
           \/ ConditionSatisfied(copy[c], d[at[c]])
           \/ Status(copy[c], at[c]) = "skipped" /\ pc[c] \in AfterStage
      /\ pc[c] \in Decided => Status(copy[c], at[c]) \in StageFinal
      /\ pc[c] = "close" => at[c] = Len(d) \/ Stops(copy[c], at[c])
    BY <1>1, AtWork
<1>3. CASE LogSkipped(c) \/ LogBegun(c) \/ LogEvidence(c) \/ LogStage(c)
  <2>1. PICK place \in {"next", "call", "logStage", "begin"} :
           /\ Goes(c, place) /\ (place \in {"next", "logStage"} => pc[c] \in Decided)
           /\ pc[c] \in {"logSkipped", "logBegun", "logEvidence", "logStage"}
           /\ pc[c] = "logSkipped" => place = "next"
      BY <1>3, StageLogsMove DEF PlaceAfterEvidence, LogSkipped, LogBegun, LogEvidence, LogStage,
         Decided
  <2>5. \/ ConditionSatisfied(copy[c], d[at[c]])
        \/ Status(copy[c], at[c]) = "skipped" /\ place \in AfterStage
      BY <1>2, <2>1 DEF AfterStage
  <2>6. copy[c].status \in {"pending", "running"}
      BY <1>2, <2>1
  <2>7. Progress(runs, place, copy[c], at[c])
    <3>1. place \in Working \ {"stage", "close", "logClosed"}
        BY DEF Working, CallerPc, Away, Early
    <3>2. place \in Decided => Status(copy[c], at[c]) \in StageFinal
        BY <1>2, <2>1 DEF Decided
    <3> QED
        BY <1>2, <2>5, <2>6, <3>1, <3>2, ProgressAt
  <2>2. CallerOK(runs, place, copy[c], at[c], result[c])
      BY <2>1, <2>7 DEF CallerOK, Known, Launching
  <2>3. record' = record
      BY <1>3 DEF LogSkipped, LogBegun, LogEvidence, LogStage
  <2>4. pc'[c] = place /\ copy'[c] = copy[c] /\ at'[c] = at[c] /\ result'[c] = result[c]
      BY <2>1, MoverIs DEF Goes
  <2> QED
      BY <1>1, <2>2, <2>3, <2>4 DEF Keeps
<1>4. CASE NextStage(c)
  <2>1. /\ Done(copy[c], at[c]) /\ copy[c].status \in {"pending", "running"}
        /\ record' = record
      BY <1>2, <1>4 DEF NextStage, Done, Decided
  <2>2. CASE Halts(c) \/ at[c] = Len(d)
    <3>1. Moves(c, "close", copy[c], at[c], 0, NoResult)
        BY <1>4, <2>2, StepsMove
    <3>2. at[c] = Len(d) \/ Stops(copy[c], at[c])
        BY <1>2, <2>2 DEF Halts, Stops
    <3>3. CallerOK(runs, "close", copy[c], at[c], NoResult)
        BY <1>2, <2>1, <3>2 DEF CallerOK, Progress, Known, Early, Working, Away, Launching, Done, AfterStage
    <3> QED
        BY <1>1, <2>1, <3>1, <3>3, MoverIs DEF Keeps
  <2>3. CASE ~(Halts(c) \/ at[c] = Len(d))
    <3>1. Moves(c, "stage", copy[c], at[c] + 1, 0, NoResult)
        BY <1>4, <2>3, StepsMove
    <3>2. \A j \in 1..Len(d) : /\ j < at[c] + 1 => Done(copy[c], j)
                               /\ j > at[c] + 1 => Status(copy[c], j) = "pending"
        BY <1>2, <2>1 DEF MaxStages
    <3>3. CallerOK(runs, "stage", copy[c], at[c] + 1, NoResult)
        BY <1>2, <2>1, <3>2
        DEF CallerOK, Progress, Known, Early, Working, Away, Launching, Decided, AfterStage
    <3> QED
        BY <1>1, <2>1, <3>1, <3>3, MoverIs DEF Keeps
  <2> QED
      BY <2>2, <2>3
<1>5. CASE Close(c)
  <2> DEFINE r == UpdateStrategy(copy[c], Verdict(c))
  <2>1. Verdict(c) \in StrategyStatus \ {"none"}
      BY DEF Verdict, StrategyStatus
  <2>2. /\ r \in Records /\ r.definition = d /\ r.status = Verdict(c)
        /\ \A j \in 1..Len(d) : /\ Done(r, j) <=> Done(copy[c], j)
                                /\ Earned(runs, r, j) <=> Earned(runs, copy[c], j)
                                /\ Status(r, j) = Status(copy[c], j)
                                /\ ConditionSatisfied(r, r.definition[j])
                                     <=> ConditionSatisfied(copy[c], copy[c].definition[j])
      BY <1>2, <2>1, UpdateIs
  <2>3. Moves(c, "logClosed", r, at[c], attempt[c], result[c]) /\ record' = r /\ pc[c] = "close"
      BY <1>5, StepsMove DEF Close, Save
  <2> HIDE DEF r
  <2>4. Done(copy[c], at[c]) /\ Status(copy[c], at[c]) \in StageFinal
      BY <1>2, <2>3 DEF Done, Decided
  <2>5. CallerOK(runs, "logClosed", r, at[c], result[c])
      BY <1>2, <2>2, <2>4 DEF CallerOK, Progress, Known, Early, Working, Away, Launching, Done, AfterStage
  <2>6. Succeeds(r)
    <3>1. SUFFICES ASSUME Verdict(c) = "succeeded"
                   PROVE  Status(r, Len(d)) = "succeeded" /\ \A j \in 1..Len(d) : Done(r, j)
        BY <2>2 DEF Succeeds
    <3>2. ~Halts(c) /\ Status(copy[c], Len(copy[c].stages)) = "succeeded"
        BY <3>1 DEF Verdict
    <3>3. Len(copy[c].stages) = Len(d)
        BY <1>2, RecordIsFields DEF MaxStages
    <3>4. at[c] = Len(d)
        BY <1>2, <2>3, <3>2 DEF Halts, Stops
    <3>5. \A j \in 1..Len(d) : j < at[c] \/ j = at[c]
        BY <1>2, <3>4 DEF MaxStages
    <3> QED
        BY <1>2, <2>2, <2>4, <3>2, <3>3, <3>5
  <2> QED
      BY <1>1, <1>2, <2>2, <2>3, <2>5, <2>6, MoverIs DEF Keeps
<1> QED
    BY <1>3, <1>4, <1>5

\* A new record for the Stage a caller works on.
LEMMA ReplaceIs ==
    ASSUME NEW r \in Records, NEW i \in 1..Len(r.definition), NEW s \in StageRecordSet,
           NEW current \in 0..Len(r.definition)
    PROVE  LET t == ReplaceStage(r, i, s, current)
           IN  /\ t \in Records /\ t.definition = r.definition /\ t.status = r.status
               /\ Status(t, i) = s.status /\ t.stages[i] = s
               /\ \A j \in 1..Len(r.definition) : j # i => Status(t, j) = Status(r, j)
               /\ \A j \in 1..Len(r.definition) : j < i =>
                     /\ Done(t, j) <=> Done(r, j)
                     /\ \A R : Earned(R, t, j) <=> Earned(R, r, j)
               /\ ConditionSatisfied(t, t.definition[i])
                    <=> ConditionSatisfied(r, r.definition[i])
               /\ \A R : Earned(R, t, i) <=> (s.status = "succeeded" => Behind(R, r, i, s.run))
<1> DEFINE t == ReplaceStage(r, i, s, current)
<1>1. t \in Records /\ t.definition = r.definition
    BY ReplaceIsTyped
<1>2. t.status = r.status /\ t.stages = [r.stages EXCEPT ![i] = s]
    BY DEF ReplaceStage
<1>3. t.stages[i] = s /\ \A j \in 1..Len(r.definition) : j # i => t.stages[j] = r.stages[j]
    BY <1>2, RecordIsFields
<1> HIDE DEF t
<1>4. Status(t, i) = s.status /\ \A j \in 1..Len(r.definition) : j # i => Status(t, j) = Status(r, j)
    BY <1>3 DEF Status
<1>5. Len(r.definition) \in 1..MaxStages
    BY DefinitionIsValid
<1>6. ASSUME NEW j \in 1..Len(r.definition), j < i
      PROVE  (Done(t, j) <=> Done(r, j)) /\ \A R : Earned(R, t, j) <=> Earned(R, r, j)
  <2>1. \A m \in 1..Len(r.definition) : m < j => t.stages[m] = r.stages[m]
      BY <1>3, <1>5, <1>6 DEF MaxStages
  <2>2. t.stages[j] = r.stages[j]
      BY <1>3, <1>5, <1>6 DEF MaxStages
  <2> QED
      BY <1>1, <2>1, <2>2, DoneBelow
<1>7. /\ ConditionSatisfied(t, t.definition[i]) <=> ConditionSatisfied(r, r.definition[i])
      /\ \A R, run : Behind(R, t, i, run) <=> Behind(R, r, i, run)
  <2>1. \A m \in 1..Len(r.definition) : m < i => t.stages[m] = r.stages[m]
      BY <1>3, <1>5 DEF MaxStages
  <2> QED
      BY <1>1, <2>1, SameBelow
<1>8. \A R : Earned(R, t, i) <=> (s.status = "succeeded" => Behind(R, r, i, s.run))
    BY <1>3, <1>4, <1>7 DEF Earned
<1> QED
    BY <1>1, <1>2, <1>3, <1>4, <1>6, <1>7, <1>8 DEF t

LEMMA StagesKeep ==
    ASSUME TInv, EInv, NEW c \in Callers, Skip(c) \/ Begin(c) \/ Complete(c)
    PROVE  Keeps(c)
<1> USE OwnStays
<1> DEFINE d == copy[c].definition
<1>1. pc[c] \in Working /\ pc[c] # "logClosed" /\ runs' = runs
    BY DEF Skip, Begin, Complete, Working, Away, Early, CallerPc
<1>2. /\ copy[c] \in Records /\ at[c] \in 1..Len(d) /\ Len(d) \in 1..MaxStages
      /\ Current(c) = d[at[c]]
      /\ \A j \in 1..Len(d) : Earned(runs, copy[c], j)
      /\ \A j \in 1..Len(d) : j < at[c] => Done(copy[c], j)
      /\ \A j \in 1..Len(d) : j > at[c] => Status(copy[c], j) = "pending"
      /\ copy[c].status \in {"pending", "running"}
      /\ pc[c] # "stage" =>
           \/ ConditionSatisfied(copy[c], d[at[c]])
           \/ Status(copy[c], at[c]) = "skipped" /\ pc[c] \in AfterStage
    BY <1>1, AtWork
<1>3. at[c] \in 0..Len(d) /\ 0 \in 0..Len(d)
    BY <1>2 DEF MaxStages
\* What is left to show for each of the three.
<1>4. ASSUME NEW s \in StageRecordSet, NEW current \in 0..Len(d), NEW place, NEW n, NEW res,
             place \in {"logSkipped", "logBegun", "logEvidence"},
             Moves(c, place, ReplaceStage(copy[c], at[c], s, current), at[c], n, res),
             record' = ReplaceStage(copy[c], at[c], s, current),
             \/ ConditionSatisfied(copy[c], d[at[c]])
             \/ s.status = "skipped" /\ place = "logSkipped",
             s.status = "succeeded" => Behind(runs, copy[c], at[c], s.run),
             place \in Decided => s.status \in StageFinal
      PROVE  Keeps(c)
  <2> DEFINE t == ReplaceStage(copy[c], at[c], s, current)
  <2>1. /\ t \in Records /\ t.definition = d /\ t.status \in {"pending", "running"}
        /\ Status(t, at[c]) = s.status
        /\ \A j \in 1..Len(d) : j # at[c] => Status(t, j) = Status(copy[c], j)
        /\ \A j \in 1..Len(d) : j < at[c] =>
                     /\ Done(t, j) <=> Done(copy[c], j)
                     /\ \A R : Earned(R, t, j) <=> Earned(R, copy[c], j)
        /\ ConditionSatisfied(t, t.definition[at[c]]) <=> ConditionSatisfied(copy[c], d[at[c]])
        /\ \A R : Earned(R, t, at[c])
                    <=> (s.status = "succeeded" => Behind(R, copy[c], at[c], s.run))
      BY <1>2, ReplaceIs
  <2>2. pc'[c] = place /\ copy'[c] = t /\ at'[c] = at[c] /\ result'[c] = res /\ record' = t
      BY <1>4, MoverIs
  <2> HIDE DEF t
  <2>3. \A j \in 1..Len(d) : j > at[c] => Status(t, j) = "pending"
      BY <1>2, <2>1 DEF MaxStages
  <2>4. \A j \in 1..Len(d) : Earned(runs, t, j)
    <3> TAKE j \in 1..Len(d)
    <3>1. CASE j < at[c]
        BY <1>2, <2>1, <3>1
    <3>2. CASE j = at[c]
        BY <1>4, <2>1, <3>2
    <3>3. CASE j > at[c]
        BY <2>3, <3>3 DEF Earned
    <3> QED
        BY <1>2, <3>1, <3>2, <3>3 DEF MaxStages
  <2>7. \/ ConditionSatisfied(t, t.definition[at[c]])
        \/ Status(t, at[c]) = "skipped" /\ place \in AfterStage
      BY <1>4, <2>1 DEF AfterStage
  <2>8. \A j \in 1..Len(d) : j < at[c] => Done(t, j)
      BY <1>2, <2>1
  <2>9. place \in Decided => Status(t, at[c]) \in StageFinal
      BY <1>4, <2>1
  <2>10. Progress(runs, place, t, at[c])
    <3>1. place \in Working \ {"stage", "close", "logClosed"}
        BY <1>4 DEF Working, CallerPc, Away, Early
    <3> QED
        BY <2>1, <2>3, <2>4, <2>7, <2>8, <2>9, <3>1, ProgressAt
  <2>5. CallerOK(runs, place, t, at[c], res)
      BY <1>4, <2>10 DEF CallerOK, Known, Launching
  <2>6. Succeeds(t)
      BY <2>1 DEF Succeeds
  <2> QED
      BY <1>1, <2>1, <2>2, <2>4, <2>5, <2>6 DEF Keeps
<1>5. CASE Skip(c)
  <2> DEFINE s == StageRecord("skipped", 0, NoKey)
  <2>1. s \in StageRecordSet /\ s.status = "skipped"
      BY DEF StageRecord, StageRecordSet, StageStatus, MaxAttempts
  <2>2. /\ Moves(c, "logSkipped", ReplaceStage(copy[c], at[c], s, 0), at[c], attempt[c], result[c])
        /\ record' = ReplaceStage(copy[c], at[c], s, 0)
      BY <1>5, SkipMoves DEF Skipped, Save
  <2> HIDE DEF s
  <2> QED
      BY <1>3, <1>4, <2>1, <2>2 DEF StageFinal
<1>6. CASE Begin(c)
  <2> DEFINE s == StageRecord("running", NextAttempt(c), NoKey)
  <2>1. s \in StageRecordSet /\ s.status = "running"
    <3>1. NextAttempt(c) \in 0..MaxAttempts
      <4>1. Current(c).attempts \in 1..MaxAttempts /\ attempt[c] \in 0..MaxAttempts
          BY <1>1, AtStage
      <4>2. attempt[c] < Current(c).attempts
          BY <1>2, <1>6, <4>1 DEF Begin, TInv, TypedAt, MaxAttempts
      <4> QED
          BY <4>1, <4>2 DEF NextAttempt, MaxAttempts
    <3> QED
        BY <3>1 DEF StageRecord, StageRecordSet, StageStatus
  <2>2. /\ Moves(c, "logBegun", ReplaceStage(copy[c], at[c], s, at[c]), at[c], NextAttempt(c), NoResult)
        /\ record' = ReplaceStage(copy[c], at[c], s, at[c])
      BY <1>6, BeginMoves DEF Begun, Save
  <2>3. ConditionSatisfied(copy[c], d[at[c]])
    <3>1. CASE pc[c] = "stage"
        BY <1>2, <1>6, <3>1 DEF Begin
    <3>2. CASE pc[c] = "begin"
        BY <1>2, <3>2 DEF AfterStage
    <3> QED
        BY <1>6, <3>1, <3>2 DEF Begin
  <2> HIDE DEF s
  <2> QED
      BY <1>3, <1>4, <2>1, <2>2, <2>3 DEF Decided
<1>7. CASE Complete(c)
  <2> DEFINE s == StageRecord(StageVerdict(result[c]), attempt[c], result[c].run)
  <2>1. /\ s \in StageRecordSet /\ s.status \in {"succeeded", "failed"} /\ s.run = result[c].run
        /\ s.status = "succeeded" => result[c].passed
      BY DEF StageRecord, StageRecordSet, StageStatus, StageVerdict, Results
  <2>2. /\ Moves(c, "logEvidence", ReplaceStage(copy[c], at[c], s, 0), at[c], attempt[c], result[c])
        /\ record' = ReplaceStage(copy[c], at[c], s, 0)
      BY <1>7, CompleteMoves DEF Completed, Save
  <2>3. s.status = "succeeded" => Behind(runs, copy[c], at[c], s.run)
      BY <1>7, <2>1 DEF Complete, EInv, Known
  <2>4. ConditionSatisfied(copy[c], d[at[c]])
      BY <1>2, <1>7 DEF Complete, AfterStage
  <2> HIDE DEF s
  <2> QED
      BY <1>3, <1>4, <2>1, <2>2, <2>3, <2>4 DEF StageFinal
<1> QED
    BY <1>5, <1>6, <1>7

\* Within a Stage a caller goes from place to place with its record as it is.
LEMMA ProgressOnward ==
    ASSUME TInv, EInv, NEW c \in Callers, pc[c] \in {"call", "launch", "inside", "evidence"},
           NEW place \in {"launch", "inside", "evidence", "complete"}
    PROVE  Progress(runs, place, copy[c], at[c])
<1>1. pc[c] \in Working /\ pc[c] \notin AfterStage \cup {"stage"}
    BY DEF Working, CallerPc, Away, Early, AfterStage
<1>2. place \in Working \ {"stage", "close", "logClosed"} /\ place \notin Decided
    BY DEF Working, CallerPc, Away, Early, Decided
<1>3. copy[c].status \in {"pending", "running"}
    BY <1>1, AtWork DEF AfterStage
<1> QED
    BY <1>1, <1>2, <1>3, AtWork, ProgressAt

\* The Run of the Stage is there, and it is bound to the request of the Stage.
HasRun(R, c) == R[KeyOf(c)].state # "none" /\ R[KeyOf(c)].task = Current(c).task

LEMMA KnownInLaunch ==
    ASSUME TInv, EInv, NEW c \in Callers, pc[c] \in Launching \cup {"evidence"}
    PROVE  HasRun(runs, c) /\ (pc[c] = "evidence" => result[c].run = KeyOf(c))
<1>1. Known(runs, pc[c], copy[c], at[c], result[c])
    BY DEF EInv
<1> QED
    BY <1>1 DEF Known, HasRun, KeyOf, Current

\* A caller that is in a tool, or holds its answer, and has the Run it needs.
LEMMA InToolKeeps ==
    ASSUME TInv, Launched, EInv, [Next]_vars, NEW c \in Callers,
           pc[c] \in {"call", "launch", "inside"}, NEW place \in {"launch", "inside", "evidence"},
           NEW res, Moves(c, place, copy[c], at[c], attempt[c], res), record' = record,
           HasRun(runs', c), place = "evidence" => res.run = KeyOf(c)
    PROVE  Keeps(c)
<1>1. Progress(runs, place, copy[c], at[c])
    BY ProgressOnward
<1>2. pc[c] \in Working /\ place \notin Away
    BY DEF Working, CallerPc, Away, Early
<1>3. \A j \in 1..Len(copy[c].definition) : Earned(runs', copy[c], j)
    BY <1>2, AtWork, EarnedStays
<1>4. Progress(runs', place, copy[c], at[c])
    BY <1>1, <1>2, <1>3 DEF Progress
<1>5. Known(runs', place, copy[c], at[c], res)
    BY DEF Known, HasRun, KeyOf, Current
<1>6. pc'[c] = place /\ copy'[c] = copy[c] /\ at'[c] = at[c] /\ result'[c] = res
    BY MoverIs
<1> QED
    BY <1>4, <1>5, <1>6 DEF Keeps, CallerOK

LEMMA AnswersKeep ==
    ASSUME TInv, Launched, EInv, [Next]_vars, NEW c \in Callers,
           Fails(c) \/ Bind(c) \/ Launch(c) \/ Replay(c) \/ Return(c)
    PROVE  Keeps(c)
<1> USE OwnStays
<1>1. CASE Fails(c)
  <2>1. /\ Moves(c, "complete", copy[c], at[c], attempt[c], NoResult)
        /\ record' = record /\ runs' = runs /\ pc[c] \in {"call", "inside", "evidence"}
      BY <1>1, ToolStepsMove DEF Fails
  <2>2. CallerOK(runs, "complete", copy[c], at[c], NoResult)
    <3>1. Progress(runs, "complete", copy[c], at[c])
        BY <2>1, ProgressOnward
    <3> QED
        BY <3>1 DEF CallerOK, Known, Launching, NoResult
  <2> QED
      BY <2>1, <2>2, MoverIs DEF Keeps
<1>2. CASE Bind(c)
  <2>1. Goes(c, "launch") /\ record' = record /\ pc[c] = "call"
      BY <1>2, ToolStepsMove DEF Bind, Calls
  <2>2. HasRun(runs', c)
      BY <1>2, BindIs DEF HasRun
  <2> QED
      BY <2>1, <2>2, InToolKeeps DEF Goes
<1>3. CASE Launch(c)
  <2>1. Goes(c, "inside") /\ record' = record /\ pc[c] = "launch"
      BY <1>3, ToolStepsMove DEF Launch
  <2>2. HasRun(runs, c)
      BY <2>1, KnownInLaunch DEF Launching
  <2>3. HasRun(runs', c)
      BY <1>3, <2>2, LaunchIs DEF HasRun
  <2> QED
      BY <2>1, <2>3, InToolKeeps DEF Goes
<1>4. CASE Replay(c) \/ Return(c)
  <2> DEFINE res == [run |-> KeyOf(c), passed |-> result[c].passed]
  <2>1. /\ Moves(c, "evidence", copy[c], at[c], attempt[c], res)
        /\ record' = record /\ runs' = runs /\ pc[c] \in {"call", "inside"} /\ res.run = KeyOf(c)
      BY <1>4, ToolStepsMove DEF Replay, Return, Calls
  <2>2. HasRun(runs, c)
    <3>1. CASE Replay(c)
        BY <3>1 DEF Replay, HasRun
    <3>2. CASE Return(c)
        BY <3>2, KnownInLaunch DEF Return, Launching
    <3> QED
        BY <1>4, <3>1, <3>2
  <2> HIDE DEF res
  <2> QED
      BY <2>1, <2>2, InToolKeeps
<1> QED
    BY <1>1, <1>2, <1>3, <1>4

LEMMA EvaluateKeeps ==
    ASSUME TInv, EInv, NEW c \in Callers, Evaluate(c)
    PROVE  Keeps(c)
<1> USE OwnStays
<1> DEFINE s == Current(c)
<1>1. pc[c] \in Working /\ pc[c] \in {"call", "evidence"}
    BY DEF Evaluate, Working, CallerPc, Away, Early
<1>2. /\ copy[c] \in Records /\ at[c] \in 1..Len(copy[c].definition)
      /\ Current(c) = copy[c].definition[at[c]]
    BY <1>1, AtStage
<1>3. /\ ValidNode(s)
      /\ s.source # 0 => s.source \in s.dependencies
      /\ s.dependencies \subseteq 1..(at[c] - 1)
      /\ Len(copy[c].definition) \in 1..MaxStages
    BY <1>2, DefinitionIsValid
<1>4. PICK passed : Judge(c, passed) /\ (passed => Behind(runs, copy[c], at[c], result[c].run))
  <2>1. CASE pc[c] = "evidence"
    <3>1. PICK found \in BOOLEAN : Judge(c, RunEvidence(s, KeyOf(c), found))
        BY <2>1 DEF Evaluate
    <3>2. HasRun(runs, c) /\ result[c].run = KeyOf(c)
        BY <2>1, KnownInLaunch
    <3>3. s.node \in ProviderNodes
        BY <2>1, <1>2 DEF TInv, TypedAt, InTool
    <3>4. s.validator # "blocker_count"
        BY <1>3, <3>3 DEF ValidNode, ProviderNodes
    <3>5. RunOK(runs[KeyOf(c)])
        BY <2>1, LaunchedKey DEF TInv, Shared
    <3>6. RunEvidence(s, KeyOf(c), found) => Behind(runs, copy[c], at[c], result[c].run)
        BY <1>2, <3>2, <3>3, <3>4, <3>5 DEF RunEvidence, RunOK, Behind, HasRun, KeyOf
    <3> QED
        BY <3>1, <3>6
  <2>2. CASE pc[c] = "call" /\ s.node = "validator" /\ HasSource(c)
    <3>1. PICK found \in BOOLEAN : Judge(c, ValidatorEvidence(s, Source(c), found))
        BY <2>2 DEF Evaluate
    <3>2. ASSUME s.validator = "blocker_count", ValidatorEvidence(s, Source(c), found)
          PROVE  /\ Source(c) \in BoundKeys /\ runs[Source(c)].state # "none"
                 /\ s.reads \subseteq runs[Source(c)].expects
      <4>1. s.source # 0 /\ s.reads # {}
          BY <1>3, <2>2, <3>2 DEF ValidNode
      <4>2. s.source \in 1..Len(copy[c].definition)
          BY <1>2, <1>3, <4>1 DEF MaxStages
      <4>3. Source(c) \in BoundKeys
        <5>1. copy[c].stages[s.source] \in StageRecordSet
            BY <1>2, <4>2, RecordIsFields
        <5>2. Source(c) # NoKey
            BY <2>2, <4>1 DEF HasSource
        <5> QED
            BY <5>1, <5>2 DEF Source, StageRecordSet
      <4>4. s.reads \subseteq runs[Source(c)].expects
          BY <3>2 DEF ValidatorEvidence, BlockerCount
      <4> QED
          BY <4>1, <4>3, <4>4 DEF EInv, Unbound
    <3>3. s.node \notin ProviderNodes
        BY <2>2 DEF ProviderNodes
    <3>4. ValidatorEvidence(s, Source(c), found) => Behind(runs, copy[c], at[c], result[c].run)
        BY <1>2, <3>2, <3>3 DEF Behind, Source
    <3> QED
        BY <3>1, <3>4
  <2>3. CASE s.node = "finish"
    <3>1. s.validator # "blocker_count" /\ s.node \notin ProviderNodes
        BY <1>3, <2>3 DEF ValidNode, ProviderNodes
    <3>2. Behind(runs, copy[c], at[c], result[c].run)
        BY <1>2, <3>1 DEF Behind
    <3>3. PICK passed : Judge(c, passed)
        BY DEF Evaluate
    <3> QED
        BY <3>2, <3>3
  <2> QED
      BY <2>1, <2>2, <2>3 DEF Evaluate
<1> DEFINE res == [run |-> result[c].run, passed |-> passed]
<1>5. /\ Moves(c, "complete", copy[c], at[c], attempt[c], res)
      /\ record' = record /\ runs' = runs /\ res.run = result[c].run /\ res.passed = passed
    BY <1>4, ToolStepsMove DEF Judge
<1> HIDE DEF res
<1>6. Progress(runs, "complete", copy[c], at[c])
    BY <1>1, ProgressOnward
<1>7. CallerOK(runs, "complete", copy[c], at[c], res)
    BY <1>4, <1>5, <1>6 DEF CallerOK, Known, Launching
<1> QED
    BY <1>5, <1>7, MoverIs DEF Keeps

LEMMA CallersKeep ==
    ASSUME TInv, Launched, EInv, [Next]_vars, NEW c \in Callers,
           \/ \E d \in Catalogue : CallFirst(c, d)
           \/ CallAgain(c) \/ CallOther(c) \/ Execute(c) \/ Trouble(c)
    PROVE  Keeps(c)
<1>1. CASE \/ \E d \in Catalogue : CallFirst(c, d)
           \/ Create(c) \/ LogCreated(c) \/ Start(c) \/ LogStarted(c)
    BY <1>1, EarlyKeeps
<1>2. CASE \/ CallAgain(c) \/ CallOther(c) \/ LogClosed(c) \/ Crash(c)
           \/ Conflict(c) \/ LockTimesOut(c) \/ ToolEscapes(c)
    BY <1>2, LeavingKeeps DEF Conflict, LockTimesOut, ToolEscapes
<1>3. CASE \/ NextStage(c) \/ Close(c)
           \/ LogSkipped(c) \/ LogBegun(c) \/ LogEvidence(c) \/ LogStage(c)
    BY <1>3, TurnsKeep
<1>4. CASE Skip(c) \/ Begin(c) \/ Complete(c)
    BY <1>4, StagesKeep
<1>5. CASE \/ SourceMissing(c) \/ ToolFails(c) \/ Bind(c) \/ Launch(c)
           \/ Replay(c) \/ Return(c)
    BY <1>5, AnswersKeep DEF SourceMissing, ToolFails
<1>6. CASE Evaluate(c)
    BY <1>6, EvaluateKeeps
<1> QED
    BY <1>1, <1>2, <1>3, <1>4, <1>5, <1>6 DEF Execute, Trouble

LEMMA EInvStays ==
    ASSUME TInv, Launched, EInv, [Next]_vars
    PROVE  EInv'
<1>1. Unbound'
    BY RunStays DEF EInv, Unbound
<1>2. /\ record \in Records \cup {NoRecord}
      /\ record # NoRecord => Succeeds(record)
      /\ record # NoRecord => \A j \in 1..Len(record.definition) : Earned(runs', record, j)
    BY EarnedStays DEF EInv, TInv, Shared
<1>3. ASSUME NEW c \in Callers
      PROVE  CallerOK(runs', pc[c], copy[c], at[c], result[c])
  <2>1. /\ pc[c] \in CallerPc /\ copy[c] \in Records \cup {NoRecord} /\ at[c] \in 0..MaxStages
        /\ attempt[c] \in 0..MaxAttempts /\ result[c] \in Results
        /\ TypedAt(pc[c], copy[c], at[c], attempt[c])
      BY DEF TInv, Own
  <2>2. Progress(runs, pc[c], copy[c], at[c]) /\ Known(runs, pc[c], copy[c], at[c], result[c])
      BY DEF EInv
  <2> QED
      BY <2>1, <2>2, CallerStays DEF CallerOK
<1>4. CASE UNCHANGED <<record, pc, copy, at, attempt, result>>
    BY <1>1, <1>2, <1>3, <1>4 DEF EInv, CallerOK
<1>5. ASSUME NEW c \in Callers,
             \/ \E d \in Catalogue : CallFirst(c, d)
             \/ CallAgain(c) \/ CallOther(c) \/ Execute(c) \/ Trouble(c)
      PROVE  EInv'
  <2>1. Keeps(c)
      BY <1>5, CallersKeep
  <2>2. PICK place, r, i, n, res : Moves(c, place, r, i, n, res)
    <3>1. Bind(c) \/ Launch(c) \/ Aside(c)
        BY <1>5, StepKinds
    <3> QED
        BY <3>1, ToolStepsMove DEF Aside, Goes
  <2>3. ASSUME NEW o \in Callers
        PROVE  CallerOK(runs', pc'[o], copy'[o], at'[o], result'[o])
    <3>1. CASE o = c
        BY <2>1, <3>1 DEF Keeps
    <3>2. CASE o # c
        BY <1>3, <2>2, <3>2, OthersStay
    <3> QED
        BY <3>1, <3>2
  <2>4. /\ record' # NoRecord => Succeeds(record')
        /\ record' # NoRecord => \A j \in 1..Len(record'.definition) : Earned(runs', record', j)
      BY <1>2, <2>1 DEF Keeps
  <2> QED
      BY <1>1, <2>3, <2>4 DEF EInv, CallerOK
<1>6. ASSUME NEW k \in BoundKeys, RunEnds(k) \/ RunOverwritten(k)
      PROVE  EInv'
    BY <1>4, <1>6, RunStops
<1> QED
    BY <1>4, <1>5, <1>6 DEF Next, vars

LEMMA EvidenceAlways == Spec => [](TInv /\ Launched /\ EInv)
<1>1. Init => EInv
    BY DEF Init, EInv, Unbound, Progress, Known, Away, Launching, NoRun
<1>2. Init => Launched
    BY DEF Init, Launched, Launching
<1> QED
    BY <1>1, <1>2, TypeInit, TypeNext, LaunchedStays, EInvStays, PTL DEF Spec

\* strategy-runtime.md "A native Stage is successful only when required criteria are
\* backed by normalized Run evidence": whoever executed the Strategy, and whoever
\* overwrote its record, a record that says it succeeded has every Stage over, its last
\* one succeeded, and behind each success the Run of its own key with the verdict that
\* its criteria demand.
THEOREM SuccessIsBacked == Spec => []SuccessIsEarned
<1>1. TInv /\ EInv => SuccessIsEarned
  <2> SUFFICES ASSUME TInv, EInv, record.status = "succeeded"
               PROVE  /\ Status(record, Len(record.stages)) = "succeeded"
                      /\ \A i \in 1..Len(record.stages) :
                            /\ Status(record, i) \in {"succeeded", "failed", "skipped"}
                            /\ StageIsEarned(record, i)
                            /\ Status(record, i) # "skipped"
                                => ConditionSatisfied(record, record.definition[i])
      BY DEF SuccessIsEarned
  <2>1. record \in Records
      BY DEF TInv, Shared, NoRecord
  <2>2. Len(record.stages) = Len(record.definition)
      BY <2>1, RecordIsFields, DefinitionIsValid DEF MaxStages
  <2>3. Succeeds(record) /\ \A j \in 1..Len(record.definition) : Earned(runs, record, j)
      BY <2>1, NoRecordIsNone DEF EInv
  <2>4. \A j \in 1..Len(record.definition) : StageIsEarned(record, j)
      BY <2>3 DEF Earned, Behind, StageIsEarned, Status
  <2> QED
      BY <2>2, <2>3, <2>4 DEF Succeeds, Done, StageFinal
<1> QED
    BY <1>1, EvidenceAlways, PTL

-----------------------------------------------------------------------------
(***************************************************************************)
(* What a caller's place in execute says of its own copy of the record.    *)
(***************************************************************************)
Opening == {"create", "logCreated", "start"}

InAttempt == {"logBegun", "call", "launch", "inside", "evidence", "complete"}

Attempted == InAttempt \cup {"logEvidence", "logStage", "begin"}

Local(place, r, i, n, res) ==
    place \notin Away =>
        /\ place \in Opening => r.status = "pending"
        /\ place \notin Opening \cup {"logClosed"} => r.status = "running"
        /\ place \in Working =>
            /\ \A j \in 1..Len(r.definition) : j < i => ~Stops(r, j)
            /\ place = "stage" => Status(r, i) = "pending"
            /\ place \in InAttempt => Status(r, i) = "running"
            /\ place \in Attempted => n > 0 /\ r.stages[i].attempts > 0
            /\ place = "logEvidence" => Status(r, i) = StageVerdict(res)
            /\ place = "begin" => Status(r, i) = "failed"
            /\ place = "logSkipped" => Status(r, i) = "skipped"
            /\ place = "logClosed" /\ r.status = "succeeded" => ~Stops(r, i)

LInv == \A c \in Callers : Local(pc[c], copy[c], at[c], attempt[c], result[c])

\* The local part of one caller after a step.
LocalNext(c) == Local(pc'[c], copy'[c], at'[c], attempt'[c], result'[c])

LEMMA LocalAway ==
    ASSUME NEW place \in Away, NEW r, NEW i, NEW n, NEW res
    PROVE  Local(place, r, i, n, res)
BY DEF Local

LEMMA LocalEarly ==
    ASSUME NEW place \in Early, NEW r, NEW i, NEW n, NEW res,
           r.status = IF place \in Opening THEN "pending" ELSE "running"
    PROVE  Local(place, r, i, n, res)
<1>1. place \notin Working /\ place # "logClosed"
    BY DEF Working, Early
<1> QED
    BY <1>1 DEF Local

\* The places between two Stages and within one, apart from the close.
LEMMA LocalStage ==
    ASSUME NEW place \in Working \ {"logClosed"}, NEW r, NEW i, NEW n, NEW res,
           r.status = "running",
           \A j \in 1..Len(r.definition) : j < i => ~Stops(r, j),
           place = "stage" => Status(r, i) = "pending",
           place \in InAttempt => Status(r, i) = "running",
           place \in Attempted => n > 0 /\ r.stages[i].attempts > 0,
           place = "logEvidence" => Status(r, i) = StageVerdict(res),
           place = "begin" => Status(r, i) = "failed",
           place = "logSkipped" => Status(r, i) = "skipped"
    PROVE  Local(place, r, i, n, res)
<1>1. place \notin Opening /\ place # "logClosed"
    BY DEF Working, Early, Opening
<1> QED
    BY <1>1 DEF Local

LEMMA LocalAtWork ==
    ASSUME TInv, LInv, NEW c \in Callers, pc[c] \in Working
    PROVE  LET d == copy[c].definition
           IN  /\ pc[c] # "logClosed" => copy[c].status = "running"
               /\ \A j \in 1..Len(d) : j < at[c] => ~Stops(copy[c], j)
               /\ pc[c] = "stage" => Status(copy[c], at[c]) = "pending"
               /\ pc[c] \in InAttempt => Status(copy[c], at[c]) = "running"
               /\ pc[c] \in Attempted => attempt[c] > 0 /\ copy[c].stages[at[c]].attempts > 0
               /\ pc[c] = "logEvidence" => Status(copy[c], at[c]) = StageVerdict(result[c])
               /\ pc[c] = "begin" => Status(copy[c], at[c]) = "failed"
               /\ pc[c] = "logSkipped" => Status(copy[c], at[c]) = "skipped"
               /\ pc[c] = "logClosed" /\ copy[c].status = "succeeded" => ~Stops(copy[c], at[c])
<1>1. Local(pc[c], copy[c], at[c], attempt[c], result[c])
    BY DEF LInv
<1>2. pc[c] \notin Away /\ pc[c] \notin Opening
    BY DEF Working, Early, Opening
<1> QED
    BY <1>1, <1>2 DEF Local

LEMMA LocalOfStart ==
    ASSUME TInv, LInv, NEW c \in Callers,
           \/ \E d \in Catalogue : CallFirst(c, d)
           \/ Create(c) \/ LogCreated(c) \/ Start(c)
    PROVE  LocalNext(c)
<1>1. CASE \E d \in Catalogue : CallFirst(c, d)
  <2>1. PICK d \in Catalogue : Moves(c, "create", NewRecord(d), 0, 0, NoResult)
      BY <1>1, StepsMove
  <2>2. Local("create", NewRecord(d), 0, 0, NoResult)
      BY LocalEarly DEF NewRecord, Early, Opening
  <2> QED
      BY <2>1, <2>2, MoverIs DEF LocalNext
<1>2. CASE Create(c) \/ LogCreated(c)
  <2>1. PICK place \in {"logCreated", "start"} : Goes(c, place)
      BY <1>2, StepsMove
  <2>2. copy[c].status = "pending"
    <3>1. Local(pc[c], copy[c], at[c], attempt[c], result[c])
        BY DEF LInv
    <3> QED
        BY <1>2, <3>1 DEF Create, LogCreated, Local, Away, Opening
  <2>3. Local(place, copy[c], at[c], attempt[c], result[c])
      BY <2>2, LocalEarly DEF Early, Opening
  <2> QED
      BY <2>1, <2>3, MoverIs DEF Goes, LocalNext
<1>3. CASE Start(c)
  <2> DEFINE r == UpdateStrategy(copy[c], "running")
  <2>1. Moves(c, "logStarted", r, at[c], attempt[c], result[c])
      BY <1>3, StepsMove
  <2>2. r.status = "running"
      BY DEF UpdateStrategy
  <2> HIDE DEF r
  <2>3. Local("logStarted", r, at[c], attempt[c], result[c])
      BY <2>2, LocalEarly DEF Early, Opening
  <2> QED
      BY <2>1, <2>3, MoverIs DEF LocalNext
<1> QED
    BY <1>1, <1>2, <1>3

LEMMA LocalOfTurns ==
    ASSUME TInv, EInv, LInv, NEW c \in Callers,
           \/ LogStarted(c) \/ NextStage(c) \/ Close(c)
           \/ LogSkipped(c) \/ LogBegun(c) \/ LogEvidence(c) \/ LogStage(c)
    PROVE  LocalNext(c)
<1> USE OwnStays
<1> DEFINE d == copy[c].definition
<1>1. CASE LogStarted(c)
  <2>1. Moves(c, "stage", copy[c], 1, attempt[c], result[c])
      BY <1>1, StepsMove
  <2>2. pc[c] \in Early /\ pc[c] \notin Away /\ pc[c] # "logClosed" /\ pc[c] \notin Opening
      BY <1>1 DEF LogStarted, Early, Away, Opening
  <2>3. copy[c].status = "running" /\ copy[c] \in Records /\ Len(d) \in 1..MaxStages
      BY <2>2, DefinitionIsValid DEF LInv, Local, TInv, TypedAt
  <2>4. Status(copy[c], 1) = "pending" /\ \A j \in 1..Len(d) : ~(j < 1)
    <3>1. Progress(runs, pc[c], copy[c], at[c])
        BY DEF EInv
    <3>2. \A j \in 1..Len(d) : Status(copy[c], j) = "pending"
        BY <2>2, <3>1 DEF Progress
    <3>3. 1 \in 1..Len(d)
        BY <2>3, Numbers
    <3>4. \A j \in 1..Len(d) : ~(j < 1)
        BY <2>3 DEF MaxStages
    <3> QED
        BY <3>2, <3>3, <3>4
  <2>5. "stage" \in Working \ {"logClosed"} /\ "stage" \notin Attempted /\ "stage" \notin InAttempt
      BY DEF Working, CallerPc, Away, Early, Attempted, InAttempt
  <2>6. Local("stage", copy[c], 1, attempt[c], result[c])
      BY <2>3, <2>4, <2>5, LocalStage
  <2> QED
      BY <2>1, <2>6, MoverIs DEF LocalNext
<1>2. CASE NextStage(c)
  <2>1. /\ pc[c] \in Working /\ pc[c] = "next"
        /\ {"stage", "close"} \subseteq Working \ {"logClosed"}
        /\ {"stage", "close"} \cap Attempted = {} /\ {"stage", "close"} \cap InAttempt = {}
      BY <1>2 DEF NextStage, Working, CallerPc, Away, Early, Attempted, InAttempt
  <2>2. /\ copy[c].status = "running" /\ \A j \in 1..Len(d) : j < at[c] => ~Stops(copy[c], j)
        /\ at[c] \in 1..Len(d) /\ Len(d) \in 1..MaxStages /\ copy[c] \in Records
        /\ \A j \in 1..Len(d) : j > at[c] => Status(copy[c], j) = "pending"
        /\ Current(c) = d[at[c]]
      BY <2>1, LocalAtWork, AtWork
  <2>3. CASE Halts(c) \/ at[c] = Len(d)
    <3>1. Moves(c, "close", copy[c], at[c], 0, NoResult)
        BY <1>2, <2>3, StepsMove
    <3>2. Local("close", copy[c], at[c], 0, NoResult)
        BY <2>1, <2>2, LocalStage
    <3> QED
        BY <3>1, <3>2, MoverIs DEF LocalNext
  <2>4. CASE ~(Halts(c) \/ at[c] = Len(d))
    <3>1. Moves(c, "stage", copy[c], at[c] + 1, 0, NoResult)
        BY <1>2, <2>4, StepsMove
    <3>2. ~Stops(copy[c], at[c])
        BY <2>2, <2>4 DEF Halts, Stops
    <3>3. \A j \in 1..Len(d) : j < at[c] + 1 => ~Stops(copy[c], j)
        BY <2>2, <3>2 DEF MaxStages
    <3>4. Status(copy[c], at[c] + 1) = "pending"
        BY <2>2, <2>4 DEF MaxStages
    <3>5. Local("stage", copy[c], at[c] + 1, 0, NoResult)
        BY <2>1, <2>2, <3>3, <3>4, LocalStage
    <3> QED
        BY <3>1, <3>5, MoverIs DEF LocalNext
  <2> QED
      BY <2>3, <2>4
<1>3. CASE Close(c)
  <2> DEFINE r == UpdateStrategy(copy[c], Verdict(c))
  <2>1. Moves(c, "logClosed", r, at[c], attempt[c], result[c])
      BY <1>3, StepsMove
  <2>2. pc[c] \in Working
      BY <1>3 DEF Close, Working, CallerPc, Away, Early
  <2>3. /\ \A j \in 1..Len(d) : j < at[c] => ~Stops(copy[c], j)
        /\ at[c] \in 1..Len(d) /\ copy[c] \in Records /\ Current(c) = d[at[c]]
      BY <2>2, LocalAtWork, AtWork
  <2>4. /\ r.definition = d /\ r.status = Verdict(c) /\ r.stages = copy[c].stages
      BY DEF UpdateStrategy
  <2>5. r.status = "succeeded" => ~Stops(copy[c], at[c])
      BY <2>3, <2>4 DEF Verdict, Halts, Stops
  <2> HIDE DEF r
  <2>6. \A j : Stops(r, j) <=> Stops(copy[c], j)
      BY <2>4 DEF Stops, Status
  <2>7. Local("logClosed", r, at[c], attempt[c], result[c])
      BY <2>3, <2>4, <2>5, <2>6 DEF Local, Opening, InAttempt, Attempted
  <2> QED
      BY <2>1, <2>7, MoverIs DEF LocalNext
<1>4. CASE LogSkipped(c) \/ LogBegun(c) \/ LogEvidence(c) \/ LogStage(c)
  <2>1. /\ pc[c] \in {"logSkipped", "logBegun", "logEvidence", "logStage"} /\ pc[c] \in Working
        /\ pc[c] # "logSkipped" => pc[c] \in Attempted
      BY <1>4 DEF LogSkipped, LogBegun, LogEvidence, LogStage, Working, CallerPc, Away, Early,
         Attempted, InAttempt
  <2>2. /\ copy[c].status = "running" /\ \A j \in 1..Len(d) : j < at[c] => ~Stops(copy[c], j)
        /\ pc[c] \in InAttempt => Status(copy[c], at[c]) = "running"
        /\ pc[c] \in Attempted => attempt[c] > 0 /\ copy[c].stages[at[c]].attempts > 0
        /\ pc[c] = "logEvidence" => Status(copy[c], at[c]) = StageVerdict(result[c])
      BY <2>1, LocalAtWork
  <2>3. PICK place \in {"next", "call", "logStage", "begin"} :
           /\ Goes(c, place)
           /\ place = "call" => pc[c] = "logBegun"
           /\ place \in {"logStage", "begin"} => pc[c] = "logEvidence"
           /\ place = "begin" => ~result[c].passed
      BY <1>4, StageLogsMove DEF PlaceAfterEvidence, LogSkipped, LogBegun, LogEvidence, LogStage
  <2>4. /\ place \in Working \ {"logClosed"} /\ place # "stage" /\ place # "logSkipped"
        /\ place # "logEvidence" /\ (place \in InAttempt <=> place = "call")
        /\ (place \in Attempted <=> place # "next")
      BY DEF Working, CallerPc, Away, Early, Attempted, InAttempt
  <2>5. place \in InAttempt => Status(copy[c], at[c]) = "running"
      BY <2>1, <2>2, <2>3, <2>4 DEF InAttempt
  <2>6. place \in Attempted => attempt[c] > 0 /\ copy[c].stages[at[c]].attempts > 0
      BY <2>1, <2>2, <2>3, <2>4
  <2>7. place = "begin" => Status(copy[c], at[c]) = "failed"
      BY <2>2, <2>3 DEF StageVerdict
  <2>8. Local(place, copy[c], at[c], attempt[c], result[c])
      BY <2>2, <2>4, <2>5, <2>6, <2>7, LocalStage
  <2> QED
      BY <2>3, <2>8, MoverIs DEF Goes, LocalNext
<1> QED
    BY <1>1, <1>2, <1>3, <1>4

LEMMA LocalOfStages ==
    ASSUME TInv, EInv, LInv, NEW c \in Callers, Skip(c) \/ Begin(c) \/ Complete(c)
    PROVE  LocalNext(c)
<1> USE OwnStays
<1> DEFINE d == copy[c].definition
<1>1. pc[c] \in Working /\ pc[c] # "logClosed" /\ (Complete(c) => pc[c] \in Attempted)
    BY DEF Skip, Begin, Complete, Working, Away, Early, CallerPc, Attempted, InAttempt
<1>2. /\ copy[c] \in Records /\ at[c] \in 1..Len(d) /\ Len(d) \in 1..MaxStages
      /\ at[c] \in 0..Len(d) /\ 0 \in 0..Len(d) /\ attempt[c] \in 0..MaxAttempts
      /\ copy[c].status = "running" /\ \A j \in 1..Len(d) : j < at[c] => ~Stops(copy[c], j)
      /\ Complete(c) => attempt[c] > 0
    BY <1>1, AtWork, AtStage, LocalAtWork DEF MaxStages
\* What is left to show for each of the three.
<1>3. ASSUME NEW s \in StageRecordSet, NEW current \in 0..Len(d), NEW place, NEW n, NEW res,
             place \in {"logSkipped", "logBegun", "logEvidence"},
             Moves(c, place, ReplaceStage(copy[c], at[c], s, current), at[c], n, res),
             place = "logSkipped" => s.status = "skipped",
             place = "logBegun" => s.status = "running",
             place = "logEvidence" => s.status = StageVerdict(res),
             place # "logSkipped" => n > 0 /\ s.attempts > 0
      PROVE  LocalNext(c)
  <2> DEFINE t == ReplaceStage(copy[c], at[c], s, current)
  <2>1. /\ t.definition = d /\ t.status = "running" /\ t.stages[at[c]] = s
        /\ Status(t, at[c]) = s.status
        /\ \A j \in 1..Len(d) : j # at[c] => Status(t, j) = Status(copy[c], j)
      BY <1>2, ReplaceIs
  <2>2. pc'[c] = place /\ copy'[c] = t /\ at'[c] = at[c] /\ attempt'[c] = n /\ result'[c] = res
      BY <1>3, MoverIs
  <2> HIDE DEF t
  <2>3. \A j \in 1..Len(d) : j < at[c] => ~Stops(t, j)
      BY <1>2, <2>1 DEF Stops, MaxStages
  <2>4. /\ place \in Working \ {"logClosed"} /\ place # "stage" /\ place # "begin"
        /\ (place \in InAttempt <=> place = "logBegun")
        /\ (place \in Attempted <=> place # "logSkipped")
      BY <1>3 DEF Working, CallerPc, Away, Early, Attempted, InAttempt
  <2>5. Local(place, t, at[c], n, res)
      BY <1>3, <2>1, <2>3, <2>4, LocalStage
  <2> QED
      BY <2>2, <2>5 DEF LocalNext
<1>4. CASE Skip(c)
  <2> DEFINE s == StageRecord("skipped", 0, NoKey)
  <2>1. s \in StageRecordSet /\ s.status = "skipped"
      BY DEF StageRecord, StageRecordSet, StageStatus, MaxAttempts
  <2>2. Moves(c, "logSkipped", ReplaceStage(copy[c], at[c], s, 0), at[c], attempt[c], result[c])
      BY <1>4, SkipMoves DEF Skipped
  <2> HIDE DEF s
  <2> QED
      BY <1>2, <1>3, <2>1, <2>2
<1>5. CASE Begin(c)
  <2> DEFINE s == StageRecord("running", NextAttempt(c), NoKey)
  <2>1. NextAttempt(c) \in 1..MaxAttempts
      BY <1>1, <1>5, BeginCounts
  <2>2. s \in StageRecordSet /\ s.status = "running" /\ s.attempts > 0 /\ NextAttempt(c) > 0
      BY <2>1 DEF StageRecord, StageRecordSet, StageStatus, MaxAttempts
  <2>3. Moves(c, "logBegun", ReplaceStage(copy[c], at[c], s, at[c]), at[c], NextAttempt(c), NoResult)
      BY <1>5, BeginMoves DEF Begun
  <2> HIDE DEF s
  <2> QED
      BY <1>2, <1>3, <2>2, <2>3
<1>6. CASE Complete(c)
  <2> DEFINE s == StageRecord(StageVerdict(result[c]), attempt[c], result[c].run)
  <2>1. s \in StageRecordSet /\ s.status = StageVerdict(result[c]) /\ s.attempts = attempt[c]
      BY <1>2 DEF StageRecord, StageRecordSet, StageStatus, StageVerdict, Results
  <2>2. Moves(c, "logEvidence", ReplaceStage(copy[c], at[c], s, 0), at[c], attempt[c], result[c])
      BY <1>6, CompleteMoves DEF Completed
  <2> HIDE DEF s
  <2> QED
      BY <1>2, <1>3, <1>6, <2>1, <2>2
<1> QED
    BY <1>4, <1>5, <1>6

LEMMA LocalOfTools ==
    ASSUME TInv, LInv, NEW c \in Callers,
           \/ Fails(c) \/ Bind(c) \/ Launch(c) \/ Replay(c) \/ Return(c) \/ Evaluate(c)
    PROVE  LocalNext(c)
<1> USE OwnStays
<1>1. pc[c] \in InAttempt /\ pc[c] \in Attempted /\ pc[c] \in Working
    BY DEF Fails, Bind, Launch, Replay, Return, Evaluate, Calls, InAttempt, Attempted,
           Working, CallerPc, Away, Early
<1>2. PICK place, res :
         /\ place \in {"complete", "launch", "inside", "evidence"}
         /\ Moves(c, place, copy[c], at[c], attempt[c], res)
  <2>1. \E place \in {"complete", "launch", "inside", "evidence"} :
           \E res : Moves(c, place, copy[c], at[c], attempt[c], res)
    <3>1. CASE Evaluate(c)
      <4>1. PICK passed : Judge(c, passed)
          BY <3>1 DEF Evaluate
      <4> QED
          BY <4>1, ToolStepsMove
    <3>2. CASE Fails(c) \/ Bind(c) \/ Launch(c) \/ Replay(c) \/ Return(c)
        BY <3>2, ToolStepsMove DEF Goes
    <3> QED
        BY <3>1, <3>2
  <2> QED
      BY <2>1
<1>3. /\ place \in Working \ {"logClosed"}
      /\ place \notin {"stage", "logEvidence", "begin", "logSkipped"}
    BY <1>2 DEF Working, CallerPc, Away, Early
<1>4. /\ copy[c].status = "running" /\ Status(copy[c], at[c]) = "running"
      /\ \A j \in 1..Len(copy[c].definition) : j < at[c] => ~Stops(copy[c], j)
      /\ attempt[c] > 0 /\ copy[c].stages[at[c]].attempts > 0
  <2>1. pc[c] # "logClosed"
      BY <1>1 DEF InAttempt
  <2> QED
      BY <1>1, <2>1, LocalAtWork
<1>5. Local(place, copy[c], at[c], attempt[c], res)
    BY <1>3, <1>4, LocalStage
<1> QED
    BY <1>2, <1>5, MoverIs DEF LocalNext

LEMMA LocalOfLeaving ==
    ASSUME TInv, NEW c \in Callers,
           CallAgain(c) \/ CallOther(c) \/ Escapes(c) \/ Crash(c) \/ LogClosed(c)
    PROVE  LocalNext(c)
<1>1. PICK place, r, i, n, res : place \in Away /\ Moves(c, place, r, i, n, res)
  <2>1. {"returned", "raised", "crashed"} \subseteq Away
      BY DEF Away
  <2> QED
      BY <2>1, StepsMove, ToolStepsMove DEF Goes
<1> QED
    BY <1>1, MoverIs, LocalAway DEF LocalNext

LEMMA LocalStays ==
    ASSUME TInv, EInv, LInv, [Next]_vars
    PROVE  LInv'
<1>1. CASE UNCHANGED <<pc, copy, at, attempt, result>>
    BY <1>1 DEF LInv
<1>2. ASSUME NEW c \in Callers,
             \/ \E d \in Catalogue : CallFirst(c, d)
             \/ CallAgain(c) \/ CallOther(c) \/ Execute(c) \/ Trouble(c)
      PROVE  LInv'
  <2>1. ASSUME \/ \E d \in Catalogue : CallFirst(c, d)
               \/ Create(c) \/ LogCreated(c) \/ Start(c)
        PROVE  LocalNext(c)
      BY <2>1, LocalOfStart
  <2>2. ASSUME \/ LogStarted(c) \/ NextStage(c) \/ Close(c)
               \/ LogSkipped(c) \/ LogBegun(c) \/ LogEvidence(c) \/ LogStage(c)
        PROVE  LocalNext(c)
      BY <2>2, LocalOfTurns
  <2>3. ASSUME Skip(c) \/ Begin(c) \/ Complete(c)
        PROVE  LocalNext(c)
      BY <2>3, LocalOfStages
  <2>4. ASSUME \/ SourceMissing(c) \/ ToolFails(c) \/ Bind(c) \/ Launch(c)
               \/ Replay(c) \/ Return(c) \/ Evaluate(c)
        PROVE  LocalNext(c)
      BY <2>4, LocalOfTools DEF SourceMissing, ToolFails
  <2>5. ASSUME \/ CallAgain(c) \/ CallOther(c) \/ LogClosed(c) \/ Crash(c)
               \/ Conflict(c) \/ LockTimesOut(c) \/ ToolEscapes(c)
        PROVE  LocalNext(c)
      BY <2>5, LocalOfLeaving DEF Conflict, LockTimesOut, ToolEscapes
  <2>6. LocalNext(c)
      BY <1>2, <2>1, <2>2, <2>3, <2>4, <2>5 DEF Execute, Trouble
  <2>7. PICK place, r, i, n, res : Moves(c, place, r, i, n, res)
    <3>1. Bind(c) \/ Launch(c) \/ Aside(c)
        BY <1>2, StepKinds
    <3> QED
        BY <3>1, ToolStepsMove DEF Aside, Goes
  <2>8. ASSUME NEW o \in Callers, o # c
        PROVE  LocalNext(o)
      BY <2>7, <2>8, OthersStay DEF LInv, LocalNext
  <2> QED
      BY <2>6, <2>8 DEF LInv, LocalNext
<1>3. ASSUME NEW k \in BoundKeys, RunEnds(k) \/ RunOverwritten(k)
      PROVE  LInv'
    BY <1>1, <1>3, RunsAreApart
<1> QED
    BY <1>1, <1>2, <1>3 DEF Next, vars

LEMMA CallersAlways == Spec => [](TInv /\ Launched /\ EInv /\ LInv)
<1>1. Init => LInv
    BY DEF Init, LInv, Local, Away
<1> QED
    BY <1>1, EvidenceAlways, LocalStays, PTL DEF Spec

-----------------------------------------------------------------------------
(***************************************************************************)
(* One caller at a time: the Runs, the log and the record.                 *)
(***************************************************************************)
\* A caller may die and be followed by another call; two at once are StrategyRace.
OneCaller == \A c, o \in Callers : c = o

Bound(R) == {k \in BoundKeys : R[k].state # "none"}

\* RunsAreJustified, for one Run, and LogFollowsRecord, for one event.
Justified(k, r) ==
    /\ k.stage <= Len(r.stages)
    /\ ConditionSatisfied(r, r.definition[k.stage])
    /\ \A i \in 1..(k.stage - 1) : Status(r, i) = "failed" => r.definition[i].action = "continue"

Followed(ev, r) ==
    /\ ev.message \in {"succeeded", "skipped"} /\ ev.stage # 0 => Status(r, ev.stage) = ev.message
    /\ ev.message = "succeeded" /\ ev.stage = 0 => r.status = "succeeded"
    /\ ev.message = "attempt started" => r.stages[ev.stage].attempts > 0

\* The places at which the verdict on the current Stage is in the log.
Reported == {"next", "close", "logClosed"}

\* The events there may be while the caller is at a Stage.
Behindhand(ev, place, i) ==
    /\ ev.stage <= i /\ (place = "stage" => ev.stage < i)
    /\ ev.message \in {"succeeded", "attempt started"} => ev.stage # 0
    /\ ev.message \in {"succeeded", "skipped"} /\ ev.stage = i => place \in Reported

\* What the file, the log and the Runs bound (B) are for the only caller there is.
Alone(rec, L, B, place, r, i) ==
    place \notin Away =>
        /\ IF place = "create" THEN rec = NoRecord ELSE rec = r
        /\ place \in Early => B = {} /\ \A ev \in L : ev.stage = 0 /\ ev.message \in {"created", "started"}
        /\ place \in Working => /\ \A k \in B : k.stage <= i
                                /\ \A ev \in L : Behindhand(ev, place, i)

Files(rec, L, B) ==
    /\ rec = NoRecord => L = {} /\ B = {}
    /\ \A k \in B : Justified(k, rec)
    /\ \A ev \in L : Followed(ev, rec)

SInv ==
    /\ Files(record, log, Bound(runs))
    /\ \A c \in Callers : Alone(record, log, Bound(runs), pc[c], copy[c], at[c])

\* The invariant of the only caller after its step.
SoloNext(c) ==
    /\ Files(record', log', Bound(runs'))
    /\ Alone(record', log', Bound(runs'), pc'[c], copy'[c], at'[c])

LEMMA AloneAway ==
    ASSUME NEW place \in Away, NEW rec, NEW L, NEW B, NEW r, NEW i
    PROVE  Alone(rec, L, B, place, r, i)
BY DEF Alone

LEMMA AloneEarly ==
    ASSUME NEW place \in Early, NEW rec, NEW L, NEW r, NEW i,
           IF place = "create" THEN rec = NoRecord ELSE rec = r,
           \A ev \in L : ev.stage = 0 /\ ev.message \in {"created", "started"}
    PROVE  Alone(rec, L, {}, place, r, i)
BY DEF Alone, Early, Working

LEMMA AloneWorking ==
    ASSUME NEW place \in Working, NEW L, NEW B, NEW r, NEW i,
           \A k \in B : k.stage <= i, \A ev \in L : Behindhand(ev, place, i)
    PROVE  Alone(r, L, B, place, r, i)
<1>1. place \notin Early /\ place # "create"
    BY DEF Working, Early
<1> QED
    BY <1>1 DEF Alone

LEMMA SoloAtWork ==
    ASSUME TInv, SInv, NEW c \in Callers, pc[c] \in Working
    PROVE  /\ record = copy[c]
           /\ \A k \in Bound(runs) : k.stage <= at[c]
           /\ \A ev \in log : Behindhand(ev, pc[c], at[c])
<1>1. Alone(record, log, Bound(runs), pc[c], copy[c], at[c])
    BY DEF SInv
<1>2. pc[c] \notin Away /\ pc[c] # "create"
    BY DEF Working, Early
<1> QED
    BY <1>1, <1>2 DEF Alone

LEMMA SoloEarly ==
    ASSUME TInv, SInv, NEW c \in Callers, pc[c] \in Early
    PROVE  /\ IF pc[c] = "create" THEN record = NoRecord ELSE record = copy[c]
           /\ Bound(runs) = {}
           /\ \A ev \in log : ev.stage = 0 /\ ev.message \in {"created", "started"}
<1>1. Alone(record, log, Bound(runs), pc[c], copy[c], at[c])
    BY DEF SInv
<1>2. pc[c] \notin Away
    BY DEF Away, Early
<1> QED
    BY <1>1, <1>2 DEF Alone

\* The keys bound have their Stages.
LEMMA BoundStages ==
    ASSUME NEW k \in BoundKeys
    PROVE  k.stage \in 1..MaxStages
<1>1. PICK d \in Catalogue : k \in Keys(d)
    BY DEF BoundKeys
<1>2. Len(d) \in 1..MaxStages
    BY CatalogueAssumption DEF ValidSequence
<1>3. PICK i \in 1..Len(d) : k = [stage |-> i, node |-> d[i].node]
    BY <1>1 DEF Keys
<1>4. k.stage = i
    BY <1>3
<1> QED
    BY <1>2, <1>4, StageNumbers

\* A position up to one of a Strategy is a position of it.
LEMMA Between ==
    ASSUME NEW n \in 1..MaxStages, NEW i \in 1..n, NEW j \in 1..MaxStages, j <= i
    PROVE  j \in 1..n /\ \A m \in 1..n : m < j => m < i
BY DEF MaxStages

LEMMA UpToNext ==
    ASSUME NEW n \in 1..MaxStages, NEW i \in 1..n, NEW j \in 0..MaxStages, j <= i
    PROVE  j < i + 1 /\ j <= i + 1 /\ j # i + 1
BY DEF MaxStages

\* Steps that leave the Runs, or only let them go on.
LEMMA BoundStays ==
    ASSUME TInv, Launched,
           \/ runs' = runs
           \/ \E k \in BoundKeys : RunEnds(k) \/ RunOverwritten(k)
           \/ \E c \in Callers : Launch(c)
    PROVE  Bound(runs') = Bound(runs)
<1>1. CASE runs' = runs
    BY <1>1
<1>2. ASSUME NEW k \in BoundKeys, RunEnds(k) \/ RunOverwritten(k)
      PROVE  Bound(runs') = Bound(runs)
  <2>1. /\ runs[k].state \in {"running"} \cup EndedRun /\ runs'[k].state \in EndedRun
        /\ \A j \in BoundKeys : j # k => runs'[j] = runs[j]
      BY <1>2, RunStops
  <2> QED
      BY <2>1 DEF Bound, EndedRun
<1>3. ASSUME NEW c \in Callers, Launch(c)
      PROVE  Bound(runs') = Bound(runs)
  <2>1. /\ runs[KeyOf(c)].state = "planned" /\ runs'[KeyOf(c)].state = "running"
        /\ \A j \in BoundKeys : j # KeyOf(c) => runs'[j] = runs[j]
      BY <1>3, LaunchIs
  <2> QED
      BY <2>1 DEF Bound
<1> QED
    BY <1>1, <1>2, <1>3

LEMMA BindBounds ==
    ASSUME TInv, NEW c \in Callers, Bind(c)
    PROVE  Bound(runs') = Bound(runs) \cup {KeyOf(c)}
<1>1. /\ KeyOf(c) \in BoundKeys /\ runs'[KeyOf(c)].state = "planned"
      /\ \A j \in BoundKeys : j # KeyOf(c) => runs'[j] = runs[j]
    BY BindIs
<1> QED
    BY <1>1 DEF Bound

\* The Stages after a Stage have no say in whether its Run is justified.
LEMMA JustifiedStays ==
    ASSUME NEW r \in Records, NEW t \in Records, t.definition = r.definition,
           NEW i \in 1..Len(r.definition),
           \A j \in 1..Len(r.definition) : j < i => t.stages[j] = r.stages[j],
           NEW k \in BoundKeys, k.stage <= i, Justified(k, r)
    PROVE  Justified(k, t)
<1>1. Len(r.definition) \in 1..MaxStages /\ k.stage \in 1..MaxStages
    BY DefinitionIsValid, BoundStages
<1>2. Len(t.stages) = Len(r.definition)
    BY <1>1, RecordIsFields DEF MaxStages
<1>3. /\ k.stage \in 1..Len(r.definition)
      /\ \A j \in 1..Len(r.definition) : j < k.stage => j < i
    BY <1>1, Between
<1>4. \A j \in 1..Len(r.definition) : j < k.stage => t.stages[j] = r.stages[j]
    BY <1>3
<1>5. ConditionSatisfied(t, t.definition[k.stage])
    BY <1>3, <1>4, SameBelow DEF Justified
<1>6. \A j \in 1..(k.stage - 1) : j \in 1..Len(r.definition) /\ j < k.stage
    BY <1>1, <1>3 DEF MaxStages
<1>7. \A j \in 1..(k.stage - 1) : Status(t, j) = Status(r, j)
    BY <1>4, <1>6 DEF Status
<1> QED
    BY <1>2, <1>3, <1>5, <1>7, <1>1 DEF Justified, MaxStages

\* A caller that has come to a Stage went past no failure that stops the Strategy.
LEMMA PassedOver ==
    ASSUME TInv, LInv, NEW c \in Callers, pc[c] \in Working
    PROVE  \A j \in 1..(at[c] - 1) : Status(copy[c], j) = "failed"
              => copy[c].definition[j].action = "continue"
<1>1. /\ copy[c] \in Records /\ at[c] \in 1..Len(copy[c].definition)
      /\ Len(copy[c].definition) \in 1..MaxStages
    BY AtStage
<1>2. \A j \in 1..(at[c] - 1) : j \in 1..Len(copy[c].definition) /\ j < at[c]
    BY <1>1 DEF MaxStages
<1>3. \A j \in 1..(at[c] - 1) : ~Stops(copy[c], j) /\ copy[c].definition[j].action \in Actions
    BY <1>1, <1>2, LocalAtWork, DefinitionIsValid DEF ValidFields
<1> QED
    BY <1>3 DEF Stops, Actions

LEMMA SoloLeaves ==
    ASSUME TInv, Launched, SInv, NEW c \in Callers,
           CallAgain(c) \/ CallOther(c) \/ Escapes(c) \/ Crash(c)
    PROVE  SoloNext(c)
<1>1. PICK place, r, i, n, res : place \in Away /\ Moves(c, place, r, i, n, res)
  <2>1. {"returned", "raised", "crashed"} \subseteq Away
      BY DEF Away
  <2> QED
      BY <2>1, StepsMove, ToolStepsMove DEF Goes
<1>2. record' = record /\ log' = log /\ runs' = runs
    BY DEF CallAgain, CallOther, Escapes, Crash, Enter
<1>3. pc'[c] = place
    BY <1>1, MoverIs
<1> QED
    BY <1>1, <1>2, <1>3, AloneAway DEF SoloNext, SInv

\* The events of the start are behind the first Stage.
LEMMA QuietIsBehind ==
    ASSUME NEW ev, ev.stage = 0, ev.message \in {"created", "started"}
    PROVE  Behindhand(ev, "stage", 1)
<1>1. ev.stage <= 1 /\ ev.stage < 1 /\ ev.stage # 1
    OBVIOUS
<1>2. ev.message \notin {"succeeded", "skipped", "attempt started"}
    OBVIOUS
<1> QED
    BY <1>1, <1>2 DEF Behindhand

LEMMA SoloStarts ==
    ASSUME TInv, EInv, SInv, NEW c \in Callers,
           \/ \E d \in Catalogue : CallFirst(c, d)
           \/ Create(c) \/ LogCreated(c) \/ Start(c) \/ LogStarted(c)
    PROVE  SoloNext(c)
<1> USE OwnStays
<1> DEFINE quiet(L) == \A ev \in L : ev.stage = 0 /\ ev.message \in {"created", "started"}
<1>1. \A L : quiet(L) => \A ev \in L : \A r : Followed(ev, r)
    BY DEF Followed
<1>2. runs' = runs
    BY DEF CallFirst, Enter, Create, LogCreated, Start, LogStarted
<1>3. CASE \E d \in Catalogue : CallFirst(c, d)
  <2>1. PICK d \in Catalogue : Moves(c, "create", NewRecord(d), 0, 0, NoResult)
      BY <1>3, StepsMove
  <2>2. record = NoRecord /\ record' = record /\ log' = log
      BY <1>3 DEF CallFirst, Enter
  <2>3. log = {} /\ Bound(runs) = {} /\ Files(record, log, Bound(runs))
      BY <2>2 DEF SInv, Files
  <2>4. Alone(record, {}, {}, "create", NewRecord(d), 0)
      BY <2>2, AloneEarly DEF Early
  <2> QED
      BY <1>2, <2>1, <2>2, <2>3, <2>4, MoverIs DEF SoloNext
<1>4. CASE Create(c) \/ LogCreated(c) \/ Start(c) \/ LogStarted(c)
  <2>1. /\ pc[c] \in Early /\ pc[c] \notin Away /\ (Create(c) => pc[c] = "create")
        /\ (~Create(c) => pc[c] # "create")
      BY <1>4 DEF Create, LogCreated, Start, LogStarted, Early, Away
  <2>2. /\ IF pc[c] = "create" THEN record = NoRecord ELSE record = copy[c]
        /\ Bound(runs) = {} /\ quiet(log)
      BY <2>1, SoloEarly
  <2>3. copy[c] \in Records
      BY <2>1 DEF TInv, TypedAt
  <2>4. quiet(log')
      BY <1>4, <2>2 DEF Create, LogCreated, Start, LogStarted, AppendEvent
  <2>5. record' # NoRecord
    <3>1. CASE Create(c) \/ LogCreated(c) \/ LogStarted(c)
      <4>1. record' = copy[c]
          BY <2>1, <2>2, <3>1 DEF Create, LogCreated, LogStarted, Save
      <4> QED
          BY <2>3, <4>1, NoRecordIsNone
    <3>2. CASE Start(c)
      <4>1. record' = UpdateStrategy(copy[c], "running")
          BY <3>2 DEF Start, Save
      <4>2. UpdateStrategy(copy[c], "running") \in Records
          BY <2>3, StatusIsTyped DEF StrategyStatus
      <4> QED
          BY <4>1, <4>2, NoRecordIsNone
    <3> QED
        BY <1>4, <3>1, <3>2
  <2>6. Files(record', log', Bound(runs'))
      BY <1>1, <1>2, <2>2, <2>4, <2>5 DEF Files
  <2>7. PICK place \in {"logCreated", "start", "logStarted", "stage"}, i \in {at[c], 1} :
           /\ Moves(c, place, record', i, attempt[c], result[c])
           /\ place = "stage" => i = 1
    <3>1. CASE Create(c) \/ LogCreated(c)
      <4>1. record' = copy[c]
          BY <2>1, <2>2, <3>1 DEF Create, LogCreated, Save
      <4> QED
          BY <3>1, <4>1, StepsMove DEF Goes
    <3>2. CASE Start(c)
        BY <3>2, StepsMove DEF Start, Save
    <3>3. CASE LogStarted(c)
      <4>1. record' = copy[c]
          BY <2>1, <2>2, <3>3 DEF LogStarted, Create
      <4> QED
          BY <3>3, <4>1, StepsMove
    <3> QED
        BY <1>4, <3>1, <3>2, <3>3
  <2>8. Alone(record', log', {}, place, record', i)
    <3>1. CASE place = "stage"
      <4>1. \A ev \in log' : Behindhand(ev, "stage", 1)
          BY <2>4, QuietIsBehind
      <4>2. "stage" \in Working
          BY DEF Working, CallerPc, Away, Early
      <4> QED
          BY <2>7, <3>1, <4>1, <4>2, AloneWorking
    <3>2. CASE place # "stage"
        BY <2>4, <2>7, <3>2, AloneEarly DEF Early
    <3> QED
        BY <3>1, <3>2
  <2> QED
      BY <1>2, <2>2, <2>6, <2>7, <2>8, MoverIs DEF SoloNext
<1> QED
    BY <1>3, <1>4

\* Within an attempt: the record and the log are as they were, the Runs go on.
LEMMA SoloAttempts ==
    ASSUME TInv, Launched, EInv, LInv, SInv, NEW c \in Callers,
           Fails(c) \/ Bind(c) \/ Launch(c) \/ Replay(c) \/ Return(c) \/ Evaluate(c)
    PROVE  SoloNext(c)
<1> USE OwnStays
<1>1. /\ pc[c] \in Working /\ pc[c] \notin Reported
      /\ record' = record /\ log' = log
    BY DEF Fails, Bind, Launch, Replay, Return, Evaluate, Judge, Calls, Working, CallerPc,
           Away, Early, Reported
<1>2. /\ record = copy[c] /\ copy[c] \in Records /\ at[c] \in 1..Len(copy[c].definition)
      /\ \A k \in Bound(runs) : k.stage <= at[c]
      /\ \A ev \in log : Behindhand(ev, pc[c], at[c])
    BY <1>1, SoloAtWork, AtWork
<1>3. PICK place, res :
         /\ place \in {"complete", "launch", "inside", "evidence"}
         /\ Moves(c, place, copy[c], at[c], attempt[c], res)
  <2>1. \E place \in {"complete", "launch", "inside", "evidence"} :
           \E res : Moves(c, place, copy[c], at[c], attempt[c], res)
    <3>1. CASE Evaluate(c)
      <4>1. PICK passed : Judge(c, passed)
          BY <3>1 DEF Evaluate
      <4> QED
          BY <4>1, ToolStepsMove
    <3>2. CASE Fails(c) \/ Bind(c) \/ Launch(c) \/ Replay(c) \/ Return(c)
        BY <3>2, ToolStepsMove DEF Goes
    <3> QED
        BY <3>1, <3>2
  <2> QED
      BY <2>1
<1>4. /\ \A k \in Bound(runs') : k.stage <= at[c]
      /\ \A k \in Bound(runs') : Justified(k, record)
      /\ record # NoRecord
  <2>1. CASE Bind(c)
    <3>1. Bound(runs') = Bound(runs) \cup {KeyOf(c)}
        BY <2>1, BindBounds
    <3>2. KeyOf(c).stage = at[c]
        BY DEF KeyOf
    <3>3. Justified(KeyOf(c), copy[c])
      <4>1. ConditionSatisfied(copy[c], copy[c].definition[at[c]])
          BY <1>1, <2>1, AtWork DEF Bind, Calls, AfterStage
      <4>2. at[c] <= Len(copy[c].stages)
        <5>1. Len(copy[c].definition) \in 1..MaxStages
            BY <1>2, DefinitionIsValid
        <5>2. Len(copy[c].stages) = Len(copy[c].definition)
            BY <1>2, <5>1, RecordIsFields DEF MaxStages
        <5> QED
            BY <1>2, <5>1, <5>2 DEF MaxStages
      <4>3. \A j \in 1..(at[c] - 1) : Status(copy[c], j) = "failed"
               => copy[c].definition[j].action = "continue"
          BY <1>1, PassedOver
      <4> QED
          BY <3>2, <4>1, <4>2, <4>3 DEF Justified
    <3>4. at[c] <= at[c]
        BY <1>1, AtStage
    <3> QED
        BY <1>2, <3>1, <3>2, <3>3, <3>4, NoRecordIsNone DEF SInv, Files
  <2>2. CASE ~Bind(c)
    <3>1. runs' = runs \/ Launch(c)
        BY <2>2 DEF Fails, Launch, Replay, Return, Evaluate, Judge
    <3>2. Bound(runs') = Bound(runs)
        BY <3>1, BoundStays
    <3> QED
        BY <1>2, <3>2, NoRecordIsNone DEF SInv, Files
  <2> QED
      BY <2>1, <2>2
<1>5. \A ev \in log : Behindhand(ev, place, at[c])
    BY <1>1, <1>2, <1>3 DEF Behindhand
<1>6. place \in Working
    BY <1>3 DEF Working, CallerPc, Away, Early
<1>7. Alone(record', log', Bound(runs'), place, copy[c], at[c])
    BY <1>1, <1>2, <1>4, <1>5, <1>6, AloneWorking
<1>8. Files(record', log', Bound(runs'))
    BY <1>1, <1>4 DEF Files, SInv
<1> QED
    BY <1>3, <1>7, <1>8, MoverIs DEF SoloNext

\* An event about the current Stage, and the ones there were.
LEMMA SoloLogs ==
    ASSUME TInv, EInv, LInv, SInv, NEW c \in Callers,
           \/ LogSkipped(c) \/ LogBegun(c) \/ LogEvidence(c) \/ LogStage(c) \/ LogClosed(c)
    PROVE  SoloNext(c)
<1> USE OwnStays
<1> DEFINE r == copy[c]
           i == at[c]
<1>1. pc[c] \in Working /\ pc[c] # "stage" /\ runs' = runs /\ record' = record
    BY DEF LogSkipped, LogBegun, LogEvidence, LogStage, LogClosed, Working, CallerPc, Away, Early
<1>2. /\ record = r /\ r \in Records /\ i \in 1..Len(r.definition)
      /\ Len(r.definition) \in 1..MaxStages /\ record # NoRecord
      /\ \A k \in Bound(runs) : k.stage <= i
      /\ \A ev \in log : Behindhand(ev, pc[c], i)
    BY <1>1, SoloAtWork, AtWork, NoRecordIsNone
<1>3. i # 0 /\ i <= i
    BY <1>2 DEF MaxStages
<1>4. Files(record, log, Bound(runs))
    BY DEF SInv
<1>5. ASSUME NEW message, NEW place \in Working \ {"stage"}, AppendEvent(message, i), Goes(c, place),
             message # "created",
             pc[c] \in Reported => place \in Reported,
             message \in {"succeeded", "skipped"} => Status(r, i) = message /\ place \in Reported,
             message = "attempt started" => r.stages[i].attempts > 0
      PROVE  SoloNext(c)
  <2>1. log' = log \cup {[message |-> message, stage |-> i]}
      BY <1>5 DEF AppendEvent
  <2>2. Followed([message |-> message, stage |-> i], r)
      BY <1>3, <1>5 DEF Followed
  <2>3. Behindhand([message |-> message, stage |-> i], place, i)
      BY <1>3, <1>5 DEF Behindhand
  <2>4. \A ev \in log : Behindhand(ev, place, i)
      BY <1>2, <1>5 DEF Behindhand
  <2>5. Files(record', log', Bound(runs'))
      BY <1>1, <1>2, <1>4, <2>1, <2>2 DEF Files
  <2>6. Alone(record', log', Bound(runs'), place, r, i)
      BY <1>1, <1>2, <1>5, <2>1, <2>3, <2>4, AloneWorking
  <2>7. pc'[c] = place /\ copy'[c] = r /\ at'[c] = i
      BY <1>5, GoerIs
  <2> QED
      BY <2>5, <2>6, <2>7 DEF SoloNext
<1>6. CASE LogSkipped(c)
  <2>1. Status(r, i) = "skipped"
      BY <1>1, <1>6, LocalAtWork DEF LogSkipped
  <2>2. AppendEvent("skipped", i) /\ Goes(c, "next") /\ pc[c] = "logSkipped"
      BY <1>6, StageLogsMove DEF LogSkipped
  <2> QED
      BY <1>5, <2>1, <2>2 DEF Reported, Working, CallerPc, Away, Early
<1>7. CASE LogBegun(c)
  <2>1. r.stages[i].attempts > 0
      BY <1>1, <1>7, LocalAtWork DEF LogBegun, Attempted, InAttempt
  <2>2. AppendEvent("attempt started", i) /\ Goes(c, "call") /\ pc[c] = "logBegun"
      BY <1>7, StageLogsMove DEF LogBegun
  <2> QED
      BY <1>5, <2>1, <2>2 DEF Reported, Working, CallerPc, Away, Early
<1>8. CASE LogEvidence(c)
  <2>1. PICK place \in {"logStage", "begin"} : Goes(c, place)
      BY <1>8, StageLogsMove DEF PlaceAfterEvidence
  <2>2. AppendEvent("evidence", i) /\ pc[c] = "logEvidence"
      BY <1>8 DEF LogEvidence
  <2> QED
      BY <1>5, <2>1, <2>2 DEF Reported, Working, CallerPc, Away, Early
<1>9. CASE LogStage(c)
  <2>1. AppendEvent(Status(r, i), i) /\ Goes(c, "next") /\ pc[c] = "logStage"
      BY <1>9, StageLogsMove DEF LogStage
  <2>2. Status(r, i) \in StageStatus
      BY <1>2, RecordIsFields DEF Status, StageRecordSet
  <2>3. Status(r, i) # "created" /\ Status(r, i) # "attempt started"
      BY <2>2 DEF StageStatus
  <2> QED
      BY <1>5, <2>1, <2>3 DEF Reported, Working, CallerPc, Away, Early
<1>10. CASE LogClosed(c)
  <2> DEFINE about == IF Halts(c) THEN i ELSE 0
  <2>1. /\ log' = log \cup {[message |-> r.status, stage |-> about]}
        /\ Goes(c, "returned") /\ pc[c] = "logClosed"
      BY <1>10, StepsMove DEF LogClosed, AppendEvent
  <2>2. r.status \in StrategyStatus
      BY <1>2, RecordIsFields
  <2>3. r.status = "succeeded" => about = 0
    <3>1. r.status = "succeeded" => ~Stops(r, i)
        BY <1>1, <2>1, LocalAtWork
    <3>2. Current(c) = r.definition[i]
        BY <1>1, AtStage
    <3> QED
        BY <3>1, <3>2 DEF Halts, Stops
  <2> HIDE DEF about
  <2>4. Followed([message |-> r.status, stage |-> about], r)
    <3>1. r.status # "skipped" /\ r.status # "attempt started"
        BY <2>2 DEF StrategyStatus
    <3> QED
        BY <2>3, <3>1 DEF Followed
  <2>5. Files(record', log', Bound(runs'))
      BY <1>1, <1>2, <1>4, <2>1, <2>4 DEF Files
  <2>6. pc'[c] \in Away
      BY <2>1, MoverIs DEF Goes, Away
  <2> QED
      BY <2>5, <2>6, AloneAway DEF SoloNext
<1> QED
    BY <1>6, <1>7, <1>8, <1>9, <1>10

LEMMA SoloNextStage ==
    ASSUME TInv, EInv, SInv, NEW c \in Callers, NextStage(c)
    PROVE  SoloNext(c)
<1> USE OwnStays
<1>1. pc[c] \in Working /\ pc[c] = "next"
      /\ runs' = runs /\ record' = record /\ log' = log
    BY DEF NextStage, Working, CallerPc, Away, Early
<1>2. /\ record = copy[c] /\ at[c] \in 1..Len(copy[c].definition)
      /\ Len(copy[c].definition) \in 1..MaxStages
      /\ \A k \in Bound(runs) : k.stage <= at[c] /\ k.stage \in 1..MaxStages
      /\ \A ev \in log : Behindhand(ev, "next", at[c]) /\ ev.stage \in 0..MaxStages
    BY <1>1, SoloAtWork, AtWork, BoundStages DEF Bound, TInv, Shared
<1>3. {"close", "stage"} \subseteq Working
    BY DEF Working, CallerPc, Away, Early
<1>4. CASE Halts(c) \/ at[c] = Len(copy[c].definition)
  <2>1. Moves(c, "close", copy[c], at[c], 0, NoResult)
      BY <1>4, StepsMove
  <2>2. \A ev \in log : Behindhand(ev, "close", at[c])
      BY <1>2 DEF Behindhand, Reported
  <2>3. Alone(record, log, Bound(runs), "close", copy[c], at[c])
      BY <1>2, <1>3, <2>2, AloneWorking
  <2> QED
      BY <1>1, <2>1, <2>3, MoverIs DEF SoloNext, SInv
<1>5. CASE ~(Halts(c) \/ at[c] = Len(copy[c].definition))
  <2>1. Moves(c, "stage", copy[c], at[c] + 1, 0, NoResult)
      BY <1>5, StepsMove
  <2>2. \A ev \in log : ev.stage < at[c] + 1 /\ ev.stage <= at[c] + 1 /\ ev.stage # at[c] + 1
    <3>1. \A ev \in log : ev.stage <= at[c]
        BY <1>2 DEF Behindhand
    <3> QED
        BY <1>2, <3>1, UpToNext
  <2>3. \A ev \in log : Behindhand(ev, "stage", at[c] + 1)
      BY <1>2, <2>2 DEF Behindhand
  <2>4. \A k \in Bound(runs) : k.stage <= at[c] + 1
    <3>1. \A k \in Bound(runs) : k.stage \in 0..MaxStages
        BY <1>2 DEF MaxStages
    <3> QED
        BY <1>2, <3>1, UpToNext
  <2>5. Alone(record, log, Bound(runs), "stage", copy[c], at[c] + 1)
      BY <1>2, <1>3, <2>3, <2>4, AloneWorking
  <2> QED
      BY <1>1, <2>1, <2>5, MoverIs DEF SoloNext, SInv
<1> QED
    BY <1>4, <1>5

LEMMA SoloCloses ==
    ASSUME TInv, EInv, SInv, NEW c \in Callers, Close(c)
    PROVE  SoloNext(c)
<1> USE OwnStays
<1> DEFINE r == UpdateStrategy(copy[c], Verdict(c))
<1>1. pc[c] \in Working /\ pc[c] = "close" /\ runs' = runs /\ log' = log /\ record' = r
    BY DEF Close, Save, Working, CallerPc, Away, Early
<1>2. /\ record = copy[c] /\ copy[c] \in Records /\ at[c] \in 1..Len(copy[c].definition)
      /\ \A k \in Bound(runs) : k.stage <= at[c]
      /\ \A ev \in log : Behindhand(ev, "close", at[c])
    BY <1>1, SoloAtWork, AtWork
<1>3. r \in Records /\ r.definition = copy[c].definition /\ r.stages = copy[c].stages
    BY <1>2, StatusIsTyped DEF Verdict, StrategyStatus
<1>4. Moves(c, "logClosed", r, at[c], attempt[c], result[c])
    BY StepsMove
<1> HIDE DEF r
<1>5. \A k \in Bound(runs) : Justified(k, r)
  <2>1. \A k \in Bound(runs) : Justified(k, copy[c])
      BY <1>2 DEF SInv, Files
  <2>2. \A s : ConditionSatisfied(r, s) <=> ConditionSatisfied(copy[c], s)
      BY <1>3 DEF ConditionSatisfied, Status
  <2>3. \A j : Status(r, j) = Status(copy[c], j)
      BY <1>3 DEF Status
  <2> QED
      BY <1>3, <2>1, <2>2, <2>3 DEF Justified
<1>6. \A ev \in log : Followed(ev, r)
    BY <1>2, <1>3 DEF SInv, Files, Followed, Status, Behindhand
<1>7. Files(record', log', Bound(runs'))
    BY <1>1, <1>3, <1>5, <1>6, NoRecordIsNone DEF Files
<1>8. \A ev \in log : Behindhand(ev, "logClosed", at[c])
    BY <1>2 DEF Behindhand, Reported
<1>9. Alone(record', log', Bound(runs'), "logClosed", r, at[c])
    BY <1>1, <1>2, <1>8, AloneWorking DEF Working, CallerPc, Away, Early
<1> QED
    BY <1>4, <1>7, <1>9, MoverIs DEF SoloNext

LEMMA SoloStages ==
    ASSUME TInv, EInv, LInv, SInv, NEW c \in Callers, Skip(c) \/ Begin(c) \/ Complete(c)
    PROVE  SoloNext(c)
<1> USE OwnStays
<1> DEFINE d == copy[c].definition
<1>1. /\ pc[c] \in Working /\ pc[c] \notin Reported /\ (Skip(c) => pc[c] = "stage")
      /\ (Complete(c) => pc[c] \in Attempted)
      /\ runs' = runs /\ log' = log
    BY DEF Skip, Begin, Complete, Save, Working, Away, Early, CallerPc, Reported, Attempted,
           InAttempt
<1>2. /\ record = copy[c] /\ copy[c] \in Records /\ at[c] \in 1..Len(d)
      /\ Len(d) \in 1..MaxStages /\ at[c] \in 0..Len(d) /\ 0 \in 0..Len(d)
      /\ attempt[c] \in 0..MaxAttempts
      /\ \A k \in Bound(runs) : k.stage <= at[c]
      /\ \A ev \in log : Behindhand(ev, pc[c], at[c]) /\ ev.stage \in 0..MaxStages
  <2>1. /\ record = copy[c] /\ \A k \in Bound(runs) : k.stage <= at[c]
        /\ \A ev \in log : Behindhand(ev, pc[c], at[c])
      BY <1>1, SoloAtWork
  <2>2. /\ copy[c] \in Records /\ at[c] \in 1..Len(d) /\ Len(d) \in 1..MaxStages
      BY <1>1, AtStage
  <2>3. at[c] \in 0..Len(d) /\ 0 \in 0..Len(d)
      BY <2>2, StageNumbers, Numbers
  <2>4. \A ev \in log : ev.stage \in 0..MaxStages
      BY DEF TInv, Shared
  <2> QED
      BY <2>1, <2>2, <2>3, <2>4
<1>3. ASSUME NEW s \in StageRecordSet, NEW current \in 0..Len(d), NEW place, NEW n, NEW res,
             place \in {"logSkipped", "logBegun", "logEvidence"},
             Moves(c, place, ReplaceStage(copy[c], at[c], s, current), at[c], n, res),
             record' = ReplaceStage(copy[c], at[c], s, current),
             pc[c] # "stage" => s.attempts > 0
      PROVE  SoloNext(c)
  <2> DEFINE t == ReplaceStage(copy[c], at[c], s, current)
  <2>1. /\ t \in Records /\ t.definition = d /\ t.stages[at[c]] = s
        /\ \A j \in 1..Len(d) : j # at[c] => t.stages[j] = copy[c].stages[j]
    <3>1. t \in Records /\ t.definition = d
        BY <1>2, StageIsWritten
    <3>2. t.stages = [copy[c].stages EXCEPT ![at[c]] = s]
        BY DEF ReplaceStage
    <3> QED
        BY <1>2, <3>1, <3>2, RecordIsFields
  <2>2. pc'[c] = place /\ copy'[c] = t /\ at'[c] = at[c] /\ record' = t
      BY <1>3, MoverIs
  <2> HIDE DEF t
  <2>3. \A j \in 1..Len(d) : j < at[c] => t.stages[j] = copy[c].stages[j]
      BY <1>2, <2>1 DEF MaxStages
  <2>4. \A k \in Bound(runs) : Justified(k, t)
    <3> TAKE k \in Bound(runs)
    <3>1. k \in BoundKeys /\ k.stage <= at[c] /\ Justified(k, copy[c])
        BY <1>2 DEF Bound, SInv, Files
    <3> QED
        BY <1>2, <2>1, <2>3, <3>1, JustifiedStays
  <2>5. \A ev \in log : Followed(ev, t)
    <3> TAKE ev \in log
    <3>1. Followed(ev, copy[c]) /\ Behindhand(ev, pc[c], at[c]) /\ ev.stage \in 0..MaxStages
        BY <1>2 DEF SInv, Files
    <3>2. CASE ev.stage = at[c]
      <4>1. ev.stage # 0 /\ ~(ev.stage < at[c])
          BY <1>2, <3>2 DEF MaxStages
      <4>2. ev.message \notin {"succeeded", "skipped"}
          BY <1>1, <3>1, <3>2 DEF Behindhand
      <4>3. t.stages[ev.stage].attempts > 0
          BY <1>3, <2>1, <3>1, <3>2, <4>1 DEF Behindhand
      <4> QED
          BY <4>1, <4>2, <4>3 DEF Followed
    <3>3. CASE ev.stage = 0
        BY <3>1, <3>3 DEF Followed, Behindhand
    <3>4. CASE ev.stage # at[c] /\ ev.stage # 0
      <4>1. ev.stage \in 1..Len(d)
        <5>1. ev.stage <= at[c]
            BY <3>1 DEF Behindhand
        <5>2. ev.stage \in 1..MaxStages
            BY <3>1, <3>4 DEF MaxStages
        <5> QED
            BY <1>2, <5>1, <5>2, Between
      <4>2. t.stages[ev.stage] = copy[c].stages[ev.stage]
          BY <2>1, <3>4, <4>1
      <4> QED
          BY <3>1, <3>4, <4>2 DEF Followed, Status
    <3> QED
        BY <3>2, <3>3, <3>4
  <2>6. Files(record', log', Bound(runs'))
      BY <1>1, <2>1, <2>2, <2>4, <2>5, NoRecordIsNone DEF Files
  <2>7. place \in Working /\ place # "stage"
      BY <1>3 DEF Working, CallerPc, Away, Early
  <2>8. \A ev \in log : Behindhand(ev, place, at[c])
      BY <1>1, <1>2, <2>7 DEF Behindhand
  <2>9. Alone(record', log', Bound(runs'), place, t, at[c])
      BY <1>1, <1>2, <2>2, <2>7, <2>8, AloneWorking
  <2> QED
      BY <2>2, <2>6, <2>9 DEF SoloNext
<1>4. CASE Skip(c)
  <2> DEFINE s == StageRecord("skipped", 0, NoKey)
  <2>1. s \in StageRecordSet
      BY DEF StageRecord, StageRecordSet, StageStatus, MaxAttempts
  <2>2. /\ Moves(c, "logSkipped", ReplaceStage(copy[c], at[c], s, 0), at[c], attempt[c], result[c])
        /\ record' = ReplaceStage(copy[c], at[c], s, 0)
      BY <1>4, SkipMoves DEF Skipped, Save
  <2> HIDE DEF s
  <2> QED
      BY <1>1, <1>2, <1>3, <1>4, <2>1, <2>2
<1>5. CASE Begin(c)
  <2> DEFINE s == StageRecord("running", NextAttempt(c), NoKey)
  <2>1. NextAttempt(c) \in 1..MaxAttempts
      BY <1>1, <1>5, BeginCounts
  <2>2. s \in StageRecordSet /\ s.attempts > 0
      BY <2>1 DEF StageRecord, StageRecordSet, StageStatus, MaxAttempts
  <2>3. /\ Moves(c, "logBegun", ReplaceStage(copy[c], at[c], s, at[c]), at[c], NextAttempt(c), NoResult)
        /\ record' = ReplaceStage(copy[c], at[c], s, at[c])
      BY <1>5, BeginMoves DEF Begun, Save
  <2> HIDE DEF s
  <2> QED
      BY <1>2, <1>3, <2>2, <2>3
<1>6. CASE Complete(c)
  <2> DEFINE s == StageRecord(StageVerdict(result[c]), attempt[c], result[c].run)
  <2>1. attempt[c] > 0
      BY <1>1, <1>6, LocalAtWork
  <2>2. s \in StageRecordSet /\ s.attempts > 0
      BY <1>2, <2>1 DEF StageRecord, StageRecordSet, StageStatus, StageVerdict, Results
  <2>3. /\ Moves(c, "logEvidence", ReplaceStage(copy[c], at[c], s, 0), at[c], attempt[c], result[c])
        /\ record' = ReplaceStage(copy[c], at[c], s, 0)
      BY <1>6, CompleteMoves DEF Completed, Save
  <2> HIDE DEF s
  <2> QED
      BY <1>2, <1>3, <2>2, <2>3
<1> QED
    BY <1>4, <1>5, <1>6

\* A Run that ends or is overwritten changes nothing that is said here.
LEMMA SoloRuns ==
    ASSUME TInv, Launched, SInv, NEW k \in BoundKeys, RunEnds(k) \/ RunOverwritten(k)
    PROVE  SInv'
<1>1. Bound(runs') = Bound(runs)
    BY BoundStays
<1>2. UNCHANGED <<record, log, pc, copy, at>>
    BY RunStops
<1> QED
    BY <1>1, <1>2 DEF SInv

LEMMA SoloStays ==
    ASSUME OneCaller, TInv, Launched, EInv, LInv, SInv, [Next]_vars
    PROVE  SInv'
<1>1. CASE UNCHANGED vars
    BY <1>1 DEF vars, SInv
<1>2. ASSUME NEW c \in Callers,
             \/ \E d \in Catalogue : CallFirst(c, d)
             \/ CallAgain(c) \/ CallOther(c) \/ Execute(c) \/ Trouble(c)
      PROVE  SInv'
  <2>1. ASSUME \/ \E d \in Catalogue : CallFirst(c, d)
               \/ Create(c) \/ LogCreated(c) \/ Start(c) \/ LogStarted(c)
        PROVE  SoloNext(c)
      BY <2>1, SoloStarts
  <2>2. ASSUME NextStage(c) \/ Close(c)
        PROVE  SoloNext(c)
      BY <2>2, SoloNextStage, SoloCloses
  <2>3. ASSUME \/ LogSkipped(c) \/ LogBegun(c) \/ LogEvidence(c) \/ LogStage(c) \/ LogClosed(c)
        PROVE  SoloNext(c)
      BY <2>3, SoloLogs
  <2>4. ASSUME Skip(c) \/ Begin(c) \/ Complete(c)
        PROVE  SoloNext(c)
      BY <2>4, SoloStages
  <2>5. ASSUME \/ SourceMissing(c) \/ ToolFails(c) \/ Bind(c) \/ Launch(c)
               \/ Replay(c) \/ Return(c) \/ Evaluate(c)
        PROVE  SoloNext(c)
      BY <2>5, SoloAttempts DEF SourceMissing, ToolFails
  <2>6. ASSUME \/ CallAgain(c) \/ CallOther(c) \/ Crash(c)
               \/ Conflict(c) \/ LockTimesOut(c) \/ ToolEscapes(c)
        PROVE  SoloNext(c)
      BY <2>6, SoloLeaves DEF Conflict, LockTimesOut, ToolEscapes
  <2>7. SoloNext(c)
      BY <1>2, <2>1, <2>2, <2>3, <2>4, <2>5, <2>6 DEF Execute, Trouble
  <2>8. \A o \in Callers : o = c
      BY DEF OneCaller
  <2> QED
      BY <2>7, <2>8 DEF SInv, SoloNext
<1> QED
    BY <1>1, <1>2, SoloRuns DEF Next

LEMMA SoloAlways ==
    ASSUME OneCaller
    PROVE  Spec => [](TInv /\ Launched /\ EInv /\ LInv /\ SInv)
<1>1. Init => SInv
  <2> SUFFICES ASSUME Init PROVE SInv
      OBVIOUS
  <2>1. Bound(runs) = {} /\ log = {}
      BY DEF Init, Bound, NoRun
  <2>2. \A c \in Callers : pc[c] \in Away
      BY DEF Init, Away
  <2> QED
      BY <2>1, <2>2, AloneAway DEF SInv, Files
<1>2. TInv /\ Launched /\ EInv /\ LInv /\ SInv /\ [Next]_vars => SInv'
    BY SoloStays
<1> QED
    BY <1>1, <1>2, CallersAlways, PTL DEF Spec

\* With one caller at a time a Run is bound for a Stage only if its run condition held
\* in the record and no failure before it stops the Strategy: no provider is started
\* that the Strategy did not ask for, whatever has crashed and been called again.
THEOREM AloneRunsAreJustified ==
    ASSUME OneCaller
    PROVE  Spec => []RunsAreJustified
<1>1. SInv => RunsAreJustified
    BY DEF SInv, Files, Bound, Justified, RunsAreJustified
<1> QED
    BY <1>1, SoloAlways, PTL

\* With one caller at a time the events in the log are behind the record: what the log
\* calls succeeded or skipped is so on disk, whenever its readers look.
THEOREM AloneLogFollowsRecord ==
    ASSUME OneCaller
    PROVE  Spec => []LogFollowsRecord
<1>1. SInv => LogFollowsRecord
    BY DEF SInv, Files, Followed, LogFollowsRecord
<1> QED
    BY <1>1, SoloAlways, PTL

-----------------------------------------------------------------------------
(***************************************************************************)
(* One caller at a time: the record implements StrategyContract.           *)
(***************************************************************************)
LEMMA SeenIs ==
    ASSUME NEW r \in Records
    PROVE  /\ DOMAIN r.stages = 1..Len(r.definition)
           /\ Len(Seen(r)) = Len(r.definition) /\ Len(Stopping(r)) = Len(r.definition)
           /\ DOMAIN Seen(r) = 1..Len(r.definition)
           /\ \A i \in 1..Len(r.definition) :
                 /\ Seen(r)[i] = Status(r, i)
                 /\ Stopping(r)[i] <=> r.definition[i].action = "stop"
<1>1. Len(r.definition) \in 1..MaxStages /\ DOMAIN r.stages = 1..Len(r.definition)
    BY RecordIsFields, DefinitionIsValid
<1>2. Len(r.definition) \in Nat
    BY <1>1 DEF MaxStages
<1>3. /\ Seen(r) = [i \in 1..Len(r.definition) |-> r.stages[i].status]
      /\ Stopping(r) = [i \in 1..Len(r.definition) |-> r.definition[i].action = "stop"]
    BY <1>1 DEF Seen, Stopping
<1>4. Len(Seen(r)) = Len(r.definition) /\ Len(Stopping(r)) = Len(r.definition)
    BY <1>2, <1>3
<1> QED
    BY <1>1, <1>3, <1>4 DEF Status

\* A step on the Stage of the caller, as the contract sees it.
LEMMA StageIsTurn ==
    ASSUME TInv, EInv, LInv, SInv, NEW c \in Callers, pc[c] \in Working, pc[c] # "logClosed",
           NEW s \in StageRecordSet, NEW current \in 0..Len(copy[c].definition),
           record' = ReplaceStage(copy[c], at[c], s, current),
           \/ Status(copy[c], at[c]) \in {"pending", "failed"} /\ s.status = "running"
           \/ Status(copy[c], at[c]) = "pending" /\ s.status = "skipped"
           \/ Status(copy[c], at[c]) = "running" /\ s.status \in {"succeeded", "failed"}
    PROVE  Contract!Next
<1> DEFINE r == copy[c]
           i == at[c]
           t == ReplaceStage(copy[c], at[c], s, current)
           n == Len(copy[c].definition)
<1>1. /\ record = r /\ r \in Records /\ i \in 1..n /\ n \in 1..MaxStages
      /\ r.status = "running" /\ \A j \in 1..n : j < i => Done(r, j) /\ ~Stops(r, j)
      /\ \A j \in 1..n : j > i => Status(r, j) = "pending"
    BY SoloAtWork, AtWork, LocalAtWork
<1>2. /\ t \in Records /\ t.definition = r.definition /\ t.status = r.status
      /\ Status(t, i) = s.status
      /\ \A j \in 1..n : j # i => Status(t, j) = Status(r, j)
    BY <1>1, ReplaceIs
<1>3. record' = t
    OBVIOUS
<1> HIDE DEF t
<1>4. \A j \in 1..(i - 1) : Seen(r)[j] \in Contract!Ended /\ ~(Seen(r)[j] = "failed" /\ Stopping(r)[j])
  <2>1. \A j \in 1..(i - 1) : j \in 1..n /\ j < i
      BY <1>1 DEF MaxStages
  <2>2. \A j \in 1..(i - 1) : Status(r, j) \in StageFinal /\ ~Stops(r, j)
      BY <1>1, <2>1 DEF Done
  <2> QED
      BY <1>1, <2>1, <2>2, SeenIs DEF Contract!Ended, StageFinal, Stops
<1>5. \A j \in (i + 1)..Len(Seen(r)) : Seen(r)[j] = "pending"
  <2>1. \A j \in (i + 1)..n : j \in 1..n /\ j > i
      BY <1>1 DEF MaxStages
  <2> QED
      BY <1>1, <2>1, SeenIs
<1>6. Seen(t) = [Seen(r) EXCEPT ![i] = s.status]
  <2>1. DOMAIN Seen(t) = 1..n /\ DOMAIN Seen(r) = 1..n
      BY <1>1, <1>2, SeenIs
  <2>2. \A j \in 1..n : Seen(t)[j] = [Seen(r) EXCEPT ![i] = s.status][j]
      BY <1>1, <1>2, <2>1, SeenIs
  <2>3. Seen(t) = [j \in 1..n |-> Seen(t)[j]]
      BY <2>1 DEF Seen
  <2>4. [Seen(r) EXCEPT ![i] = s.status] = [j \in 1..n |-> [Seen(r) EXCEPT ![i] = s.status][j]]
      BY <2>1 DEF Seen
  <2> QED
      BY <2>2, <2>3, <2>4
<1>7. Stopping(t) = Stopping(r)
  <2>1. DOMAIN t.stages = DOMAIN r.stages
      BY <1>1, <1>2, SeenIs
  <2> QED
      BY <1>2, <2>1 DEF Stopping
<1>8. Contract!Move(i, s.status)
    BY <1>1, <1>2, <1>3, <1>4, <1>5, <1>6, <1>7
    DEF Contract!Move, Contract!Turn, Contract!Halted
<1>9. Seen(r)[i] = Status(r, i) /\ i \in 1..Len(Seen(r))
    BY <1>1, SeenIs
<1>10. Contract!Advance(i)
    BY <1>1, <1>8, <1>9 DEF Contract!Advance, Contract!Final
<1> QED
    BY <1>1, <1>9, <1>10 DEF Contract!Next

LEMMA CloseConcludes ==
    ASSUME TInv, EInv, LInv, SInv, NEW c \in Callers, Close(c)
    PROVE  Contract!Next
<1> DEFINE r == copy[c]
           i == at[c]
           t == UpdateStrategy(copy[c], Verdict(c))
           n == Len(copy[c].definition)
<1>1. pc[c] \in Working /\ pc[c] = "close" /\ record' = t
    BY DEF Close, Save, Working, CallerPc, Away, Early
<1>2. /\ record = r /\ r \in Records /\ i \in 1..n /\ n \in 1..MaxStages
      /\ r.status = "running" /\ \A j \in 1..n : j < i => Done(r, j)
      /\ Status(r, i) \in StageFinal /\ (i = n \/ Stops(r, i)) /\ Current(c) = r.definition[i]
    BY <1>1, SoloAtWork, AtWork, LocalAtWork DEF Decided
<1>3. t.definition = r.definition /\ t.status = Verdict(c) /\ t.stages = r.stages
    BY DEF UpdateStrategy
<1>4. Len(r.stages) = n
    BY <1>2, RecordIsFields DEF MaxStages
<1>7. Seen(t) = Seen(r) /\ Stopping(t) = Stopping(r)
    BY <1>3 DEF Seen, Stopping
<1> HIDE DEF t
<1>8. /\ Seen(record') = Seen(record) /\ Stopping(record') = Stopping(record)
      /\ record'.status = Verdict(c) /\ record.status = "running"
    BY <1>1, <1>2, <1>3, <1>7
<1>5. CASE Halts(c)
  <2>1. Verdict(c) = "failed"
      BY <1>5 DEF Verdict
  <2>2. Seen(r)[i] = "failed" /\ Stopping(r)[i] /\ i \in 1..Len(Seen(r))
      BY <1>2, <1>5, SeenIs DEF Halts
  <2> QED
      BY <1>2, <1>8, <2>1, <2>2
      DEF Contract!Next, Contract!Conclude, Contract!Halted
<1>6. CASE ~Halts(c)
  <2>1. i = n
      BY <1>2, <1>6 DEF Halts, Stops
  <2>2. \A j \in 1..n : Status(r, j) \in StageFinal
    <3>1. \A j \in 1..n : j < i \/ j = i
        BY <1>2, <2>1 DEF MaxStages
    <3> QED
        BY <1>2, <3>1 DEF Done
  <2>3. \A j \in 1..Len(Seen(r)) : Seen(r)[j] \in Contract!Ended
      BY <1>2, <2>2, SeenIs DEF Contract!Ended, StageFinal
  <2>4. Seen(r)[Len(Seen(r))] = Status(r, n)
      BY <1>2, <2>1, SeenIs
  <2>5. Verdict(c) = IF Seen(r)[Len(Seen(r))] = "succeeded" THEN "succeeded" ELSE "failed"
      BY <1>4, <1>6, <2>4 DEF Verdict
  <2> QED
      BY <1>2, <1>8, <2>3, <2>5
      DEF Contract!Next, Contract!Conclude
<1> QED
    BY <1>5, <1>6

LEMMA StagesTakeTurns ==
    ASSUME TInv, EInv, LInv, SInv, NEW c \in Callers, Skip(c) \/ Begin(c) \/ Complete(c)
    PROVE  Contract!Next
<1> USE OwnStays
<1>1. /\ pc[c] \in Working /\ pc[c] # "logClosed"
      /\ (Skip(c) => pc[c] = "stage") /\ (Begin(c) => pc[c] \in {"stage", "begin"})
      /\ (Complete(c) => pc[c] \in InAttempt)
    BY DEF Skip, Begin, Complete, Working, Away, Early, CallerPc, InAttempt
<1>2. /\ attempt[c] \in 0..MaxAttempts /\ at[c] \in 0..Len(copy[c].definition)
      /\ 0 \in 0..Len(copy[c].definition)
  <2>1. /\ attempt[c] \in 0..MaxAttempts /\ at[c] \in 1..Len(copy[c].definition)
        /\ Len(copy[c].definition) \in 1..MaxStages
      BY <1>1, AtStage
  <2> QED
      BY <2>1, StageNumbers, Numbers
<1>3. /\ pc[c] = "stage" => Status(copy[c], at[c]) = "pending"
      /\ pc[c] = "begin" => Status(copy[c], at[c]) = "failed"
      /\ pc[c] \in InAttempt => Status(copy[c], at[c]) = "running"
    BY <1>1, LocalAtWork
<1>4. CASE Skip(c)
  <2> DEFINE s == StageRecord("skipped", 0, NoKey)
  <2>1. s \in StageRecordSet /\ s.status = "skipped"
      BY DEF StageRecord, StageRecordSet, StageStatus, MaxAttempts
  <2>2. record' = ReplaceStage(copy[c], at[c], s, 0)
      BY <1>4, SkipMoves DEF Skipped, Save
  <2> HIDE DEF s
  <2> QED
      BY <1>1, <1>2, <1>3, <1>4, <2>1, <2>2, StageIsTurn
<1>5. CASE Begin(c)
  <2> DEFINE s == StageRecord("running", NextAttempt(c), NoKey)
  <2>1. NextAttempt(c) \in 0..MaxAttempts
      BY <1>1, <1>5, BeginCounts DEF MaxAttempts
  <2>2. s \in StageRecordSet /\ s.status = "running"
      BY <2>1 DEF StageRecord, StageRecordSet, StageStatus
  <2>3. record' = ReplaceStage(copy[c], at[c], s, at[c])
      BY <1>5, BeginMoves DEF Begun, Save
  <2> HIDE DEF s
  <2> QED
      BY <1>1, <1>2, <1>3, <1>5, <2>2, <2>3, StageIsTurn
<1>6. CASE Complete(c)
  <2> DEFINE s == StageRecord(StageVerdict(result[c]), attempt[c], result[c].run)
  <2>1. s \in StageRecordSet /\ s.status \in {"succeeded", "failed"}
      BY <1>2 DEF StageRecord, StageRecordSet, StageStatus, StageVerdict, Results
  <2>2. record' = ReplaceStage(copy[c], at[c], s, 0)
      BY <1>6, CompleteMoves DEF Completed, Save
  <2> HIDE DEF s
  <2> QED
      BY <1>1, <1>2, <1>3, <1>6, <2>1, <2>2, StageIsTurn
<1> QED
    BY <1>4, <1>5, <1>6


\* The aggregate is created with every Stage pending, and started as it was created.
LEMMA OpeningRefines ==
    ASSUME TInv, EInv, LInv, SInv, NEW c \in Callers, Create(c) \/ Start(c)
    PROVE  Contract!Next
<1> DEFINE r == copy[c]
           n == Len(copy[c].definition)
<1>1. /\ pc[c] \in Early /\ pc[c] \notin Away /\ pc[c] \in Opening
      /\ (Create(c) => pc[c] = "create") /\ (Start(c) => pc[c] = "start")
    BY DEF Create, Start, Early, Away, Opening
<1>2. r \in Records /\ n \in 1..MaxStages
    BY <1>1, DefinitionIsValid DEF TInv, TypedAt
<1>3. \A j \in 1..n : Status(r, j) = "pending"
    BY <1>1 DEF EInv, Progress
<1>4. r.status = "pending"
    BY <1>1 DEF LInv, Local
<1>5. /\ DOMAIN Seen(r) = 1..n /\ Len(Seen(r)) = n /\ Len(Stopping(r)) = n
      /\ \A j \in 1..n : Seen(r)[j] = "pending"
    BY <1>2, <1>3, SeenIs
<1>6. IF pc[c] = "create" THEN record = NoRecord ELSE record = r
    BY <1>1, SoloEarly
<1>7. CASE Create(c)
  <2>1. record' = r /\ record.status = "none"
      BY <1>1, <1>6, <1>7 DEF Create, Save, NoRecord
  <2>2. Seen(r) = [i \in 1..Len(Seen(r)) |-> "pending"]
    <3>1. Seen(r) = [i \in DOMAIN r.stages |-> Seen(r)[i]]
        BY DEF Seen
    <3>2. DOMAIN r.stages = 1..Len(Seen(r))
        BY <1>2, <1>5, SeenIs
    <3> QED
        BY <1>5, <3>1, <3>2
  <2>3. Len(Seen(r)) > 0 /\ Len(Stopping(r)) = Len(Seen(r))
    <3>1. \A m \in 1..MaxStages : m > 0
        BY DEF MaxStages
    <3> QED
        BY <1>2, <1>5, <3>1
  <2>4. Seen(record') = Seen(r) /\ Stopping(record') = Stopping(r) /\ record'.status = "pending"
      BY <1>4, <2>1
  <2>5. Contract!Create
      BY <2>1, <2>2, <2>3, <2>4 DEF Contract!Create
  <2> QED
      BY <2>5 DEF Contract!Next
<1>8. CASE Start(c)
  <2> DEFINE t == UpdateStrategy(r, "running")
  <2>1. record' = t /\ record = r
      BY <1>1, <1>6, <1>8 DEF Start, Save
  <2>2. t.definition = r.definition /\ t.status = "running" /\ t.stages = r.stages
      BY DEF UpdateStrategy
  <2> HIDE DEF t
  <2>3. Seen(t) = Seen(r) /\ Stopping(t) = Stopping(r)
      BY <2>2 DEF Seen, Stopping
  <2>4. /\ Seen(record') = Seen(record) /\ Stopping(record') = Stopping(record)
        /\ record'.status = "running" /\ record.status = "pending"
      BY <1>4, <2>1, <2>2, <2>3
  <2> QED
      BY <2>4 DEF Contract!Next, Contract!Start
<1> QED
    BY <1>7, <1>8

LEMMA StepsRefine ==
    ASSUME TInv, EInv, LInv, SInv, [Next]_vars
    PROVE  Contract!Next \/ UNCHANGED Contract!contractVars
<1>1. record' = record => UNCHANGED Contract!contractVars
    BY DEF Contract!contractVars
<1>2. CASE UNCHANGED vars
    BY <1>1, <1>2 DEF vars
<1>3. ASSUME NEW k \in BoundKeys, RunEnds(k) \/ RunOverwritten(k)
      PROVE  record' = record
    BY <1>3 DEF RunEnds, RunOverwritten
<1>4. ASSUME NEW c \in Callers,
             \/ \E d \in Catalogue : CallFirst(c, d)
             \/ CallAgain(c) \/ CallOther(c) \/ Execute(c) \/ Trouble(c)
      PROVE  Contract!Next \/ record' = record
  <2>1. CASE \E d \in Catalogue : CallFirst(c, d)
      BY <2>1 DEF CallFirst, Enter
  <2>2. CASE CallAgain(c) \/ CallOther(c)
      BY <2>2 DEF CallAgain, CallOther, Enter
  <2>3. CASE Create(c) \/ Start(c)
      BY <2>3, OpeningRefines
  <2>4. CASE Close(c)
      BY <2>4, CloseConcludes
  <2>5. CASE Skip(c) \/ Begin(c) \/ Complete(c)
      BY <2>5, StagesTakeTurns
  <2>6. CASE LogCreated(c) \/ LogStarted(c) \/ LogClosed(c) \/ NextStage(c)
      BY <2>6 DEF LogCreated, LogStarted, LogClosed, NextStage
  <2>7. CASE LogSkipped(c) \/ LogBegun(c) \/ LogEvidence(c) \/ LogStage(c)
      BY <2>7 DEF LogSkipped, LogBegun, LogEvidence, LogStage
  <2>8. CASE Fails(c) \/ Escapes(c) \/ Crash(c)
      BY <2>8 DEF Fails, Escapes, Crash
  <2>9. CASE Bind(c) \/ Replay(c) \/ Launch(c) \/ Return(c)
      BY <2>9 DEF Bind, Replay, Launch, Return
  <2>10. CASE Evaluate(c)
      BY <2>10 DEF Evaluate, Judge
  <2> QED
      BY <1>4, <2>1, <2>2, <2>3, <2>4, <2>5, <2>6, <2>7, <2>8, <2>9, <2>10
      DEF Execute, Trouble, SourceMissing, ToolFails, Conflict, LockTimesOut, ToolEscapes
<1> QED
    BY <1>1, <1>2, <1>3, <1>4 DEF Next

\* With one caller at a time the record on disk implements StrategyContract, whatever
\* crashes: Stages are taken in their order, none is reopened once the next has begun,
\* none begins behind a failure that stops the Strategy, and the verdict is the last's.
THEOREM AloneImplementsContract ==
    ASSUME OneCaller
    PROVE  Spec => ImplementsContract
<1>1. Init => Contract!Init
  <2> SUFFICES ASSUME Init PROVE Contract!Init
      OBVIOUS
  <2>1. record.status = "none" /\ record.stages = <<>> /\ record.definition = <<>>
      BY DEF Init, NoRecord
  <2>2. DOMAIN record.stages = {}
      BY <2>1
  <2>3. Seen(record) = <<>> /\ Stopping(record) = <<>>
      BY <2>2 DEF Seen, Stopping
  <2> QED
      BY <2>1, <2>3 DEF Contract!Init
<1>2. TInv /\ EInv /\ LInv /\ SInv /\ [Next]_vars => [Contract!Next]_(Contract!contractVars)
    BY StepsRefine
<1> QED
    BY <1>1, <1>2, SoloAlways, PTL DEF Spec, ImplementsContract, Contract!Spec

-----------------------------------------------------------------------------
(***************************************************************************)
(* execute does not go in circles.                                         *)
(***************************************************************************)
LEMMA WeightFalls ==
    ASSUME NEW i \in 0..MaxStages, NEW j \in 0..MaxStages,
           NEW n \in 0..MaxAttempts, NEW m \in 0..MaxAttempts,
           NEW a \in 3..17, NEW b \in 3..17,
           \/ j = i /\ m = n /\ b < a
           \/ j = i /\ m = n + 1
           \/ j = i + 1 /\ m = n
           \/ j = i + 1 /\ m = 0 /\ a = 3
    PROVE  Weight(j, m, b) < Weight(i, n, a)
BY DEF Weight, MaxStages, MaxAttempts

LEMMA WeightIsLarge ==
    ASSUME NEW i \in 0..MaxStages, NEW n \in 0..MaxAttempts, NEW a \in 3..17
    PROVE  Weight(i, n, a) \in Nat /\ Weight(i, n, a) > 2
BY DEF Weight, MaxStages, MaxAttempts

\* The places whose distance depends on Stage and attempt.
Middle == Working \ {"close", "logClosed"}

LEMMA Places ==
    /\ CallerPc = Away \cup Early \cup Middle \cup {"close", "logClosed"}
    /\ Middle = {"stage", "logSkipped", "begin", "logBegun", "call", "launch", "inside",
                 "evidence", "complete", "logEvidence", "logStage", "next"}
BY DEF Middle, Working, CallerPc, Away, Early

LEMMA RankIs ==
    /\ Rank["logClosed"] = 1 /\ Rank["close"] = 2 /\ Rank["next"] = 3
    /\ Rank["logSkipped"] = 4 /\ Rank["logStage"] = 4 /\ Rank["begin"] = 5
    /\ Rank["logEvidence"] = 6 /\ Rank["complete"] = 7 /\ Rank["evidence"] = 8
    /\ Rank["inside"] = 9 /\ Rank["launch"] = 10 /\ Rank["call"] = 11
    /\ Rank["logBegun"] = 12 /\ Rank["stage"] = 13 /\ Rank["logStarted"] = 14
    /\ Rank["start"] = 15 /\ Rank["logCreated"] = 16 /\ Rank["create"] = 17
BY DEF Rank

\* The order in which a caller comes past the places.
LEMMA RankFalls ==
    /\ Rank["logCreated"] < Rank["create"] /\ Rank["start"] < Rank["logCreated"]
    /\ Rank["logStarted"] < Rank["start"] /\ Rank["stage"] < Rank["logStarted"]
    /\ Rank["logSkipped"] < Rank["stage"] /\ Rank["next"] < Rank["logSkipped"]
    /\ Rank["call"] < Rank["logBegun"] /\ Rank["launch"] < Rank["call"]
    /\ Rank["inside"] < Rank["launch"] /\ Rank["evidence"] < Rank["inside"]
    /\ Rank["evidence"] < Rank["call"]
    /\ \A place \in {"call", "inside", "evidence"} : Rank["complete"] < Rank[place]
    /\ Rank["logEvidence"] < Rank["complete"] /\ Rank["begin"] < Rank["logEvidence"]
    /\ Rank["logStage"] < Rank["logEvidence"] /\ Rank["next"] < Rank["logStage"]
BY RankIs

LEMMA MiddleRank == \A place \in Early \cup Middle : Rank[place] \in 3..17
BY RankIs, Places DEF Early

LEMMA RemainingIs ==
    ASSUME NEW i \in 0..MaxStages, NEW n \in 0..MaxAttempts
    PROVE  /\ \A place \in Away : Remaining(place, i, n) = 0
           /\ Remaining("close", i, n) = 2 /\ Remaining("logClosed", i, n) = 1
           /\ \A place \in Early : /\ Remaining(place, i, n) = Weight(0, 0, Rank[place])
                                  /\ Remaining(place, i, n) > 2
           /\ \A place \in Middle : /\ Remaining(place, i, n) = Weight(i, n, Rank[place])
                                   /\ Remaining(place, i, n) > 2
<1>1. \A place \in Away : Remaining(place, i, n) = 0
    BY DEF Remaining, Away
<1>2. Remaining("close", i, n) = 2 /\ Remaining("logClosed", i, n) = 1
    BY RankIs DEF Remaining, Away
<1>3. ASSUME NEW place \in Early
      PROVE  Remaining(place, i, n) = Weight(0, 0, Rank[place]) /\ Remaining(place, i, n) > 2
  <2>1. Remaining(place, i, n) = Weight(0, 0, Rank[place])
      BY DEF Remaining, Early, Away
  <2> QED
      BY <2>1, MiddleRank, WeightIsLarge, Numbers
<1>4. ASSUME NEW place \in Middle
      PROVE  Remaining(place, i, n) = Weight(i, n, Rank[place]) /\ Remaining(place, i, n) > 2
  <2>1. place \notin Away \cup Early \cup {"close", "logClosed"}
      BY DEF Middle, Working
  <2>2. Remaining(place, i, n) = Weight(i, n, Rank[place])
      BY <2>1 DEF Remaining, Early
  <2> QED
      BY <2>2, MiddleRank, WeightIsLarge
<1> QED
    BY <1>1, <1>2, <1>3, <1>4

\* Caller c has come nearer to the end of its call.
Nearer(c) ==
    Remaining(pc'[c], at'[c], attempt'[c]) < Remaining(pc[c], at[c], attempt[c])

\* A step within the attempt, or to the next attempt or Stage.
LEMMA MiddleNearer ==
    ASSUME TInv, NEW c \in Callers, pc[c] \in Middle,
           NEW place \in Middle, NEW r, NEW i \in 0..MaxStages, NEW n \in 0..MaxAttempts, NEW res,
           Moves(c, place, r, i, n, res),
           \/ i = at[c] /\ n = attempt[c] /\ Rank[place] < Rank[pc[c]]
           \/ i = at[c] /\ n = attempt[c] + 1
           \/ i = at[c] + 1 /\ n = 0 /\ pc[c] = "next"
    PROVE  Nearer(c)
<1>1. pc'[c] = place /\ at'[c] = i /\ attempt'[c] = n
    BY MoverIs
<1>2. at[c] \in 0..MaxStages /\ attempt[c] \in 0..MaxAttempts
    BY OwnStays
<1>3. Rank[place] \in 3..17 /\ Rank[pc[c]] \in 3..17 /\ (pc[c] = "next" => Rank[pc[c]] = 3)
    BY MiddleRank, RankIs
<1>4. Weight(i, n, Rank[place]) < Weight(at[c], attempt[c], Rank[pc[c]])
    BY <1>2, <1>3, WeightFalls
<1> QED
    BY <1>1, <1>2, <1>4, RemainingIs DEF Nearer

\* A step of a caller that keeps its Stage and attempt.
LEMMA GoesNearer ==
    ASSUME TInv, NEW c \in Callers, pc[c] \in Middle,
           NEW place \in Middle, NEW r, NEW res,
           Moves(c, place, r, at[c], attempt[c], res), Rank[place] < Rank[pc[c]]
    PROVE  Nearer(c)
BY OwnStays, MiddleNearer

LEMMA GoesOn ==
    ASSUME TInv, NEW c \in Callers, pc[c] \in Middle, NEW place \in Middle, Goes(c, place),
           Rank[place] < Rank[pc[c]]
    PROVE  Nearer(c)
BY GoesNearer DEF Goes

\* A step out of execute, or to its close.
LEMMA LastNearer ==
    ASSUME TInv, NEW c \in Callers, pc[c] \in CallerPc \ Away,
           NEW place, NEW r, NEW i \in 0..MaxStages, NEW n \in 0..MaxAttempts, NEW res,
           Moves(c, place, r, i, n, res),
           \/ place \in Away
           \/ place = "logClosed" /\ pc[c] = "close"
           \/ place = "close" /\ pc[c] \in Middle
    PROVE  Nearer(c)
<1>1. pc'[c] = place /\ at'[c] = i /\ attempt'[c] = n
    BY MoverIs
<1>2. at[c] \in 0..MaxStages /\ attempt[c] \in 0..MaxAttempts
    BY OwnStays
<1>3. /\ \A p \in Away : Remaining(p, i, n) = 0
      /\ Remaining("close", i, n) = 2 /\ Remaining("logClosed", i, n) = 1
    BY RemainingIs
<1>4. CASE pc[c] = "close"
  <2>1. Remaining(pc[c], at[c], attempt[c]) = 2 /\ pc[c] \notin Middle
      BY <1>2, <1>4, RemainingIs, Places
  <2> QED
      BY <1>1, <1>3, <1>4, <2>1 DEF Nearer
<1>5. CASE pc[c] = "logClosed"
  <2>1. Remaining(pc[c], at[c], attempt[c]) = 1 /\ pc[c] \notin Middle
      BY <1>2, <1>5, RemainingIs, Places
  <2> QED
      BY <1>1, <1>3, <1>5, <2>1 DEF Nearer
<1>6. CASE pc[c] \in Early \cup Middle
  <2>1. Remaining(pc[c], at[c], attempt[c]) > 2
      BY <1>2, <1>6, RemainingIs
  <2>2. Remaining(pc[c], at[c], attempt[c]) \in Nat
    <3>1. CASE pc[c] \in Early
      <4>1. Remaining(pc[c], at[c], attempt[c]) = Weight(0, 0, Rank[pc[c]])
          BY <1>2, <3>1, RemainingIs
      <4>2. Rank[pc[c]] \in 3..17
          BY <3>1, MiddleRank
      <4> QED
          BY <4>1, <4>2, WeightIsLarge, Numbers
    <3>2. CASE pc[c] \in Middle
        BY <1>2, <3>2, RemainingIs, MiddleRank, WeightIsLarge
    <3> QED
        BY <1>6, <3>1, <3>2
  <2>3. Remaining(place, i, n) \in {0, 1, 2}
      BY <1>3
  <2> QED
      BY <1>1, <2>1, <2>2, <2>3 DEF Nearer
<1> QED
    BY <1>4, <1>5, <1>6, Places

\* The steps before the first Stage.
LEMMA EarlyNearer ==
    ASSUME TInv, NEW c \in Callers, pc[c] \in Early,
           NEW place \in Early \cup {"stage"}, NEW r, NEW i \in 0..MaxStages, NEW res,
           Moves(c, place, r, i, attempt[c], res), Rank[place] < Rank[pc[c]],
           place = "stage" => i = 1
    PROVE  Nearer(c)
<1>1. pc'[c] = place /\ at'[c] = i /\ attempt'[c] = attempt[c]
    BY MoverIs
<1>2. at[c] \in 0..MaxStages /\ attempt[c] \in 0..MaxAttempts
    BY OwnStays
<1>3. attempt[c] = 0
    BY DEF TInv, TypedAt
<1>4. Remaining(pc[c], at[c], attempt[c]) = Weight(0, 0, Rank[pc[c]])
    BY <1>2, RemainingIs
<1>5. Rank[place] \in 3..17 /\ Rank[pc[c]] \in 3..17
    BY MiddleRank, Places
<1>6. CASE place \in Early
  <2>1. Remaining(place, i, attempt[c]) = Weight(0, 0, Rank[place])
      BY <1>2, <1>6, RemainingIs
  <2>2. Weight(0, 0, Rank[place]) < Weight(0, 0, Rank[pc[c]])
      BY <1>5, WeightFalls, Numbers
  <2> QED
      BY <1>1, <1>4, <2>1, <2>2 DEF Nearer
<1>7. CASE place = "stage"
  <2>1. Remaining(place, i, attempt[c]) = Weight(1, 0, Rank[place])
      BY <1>2, <1>3, <1>7, RemainingIs, Places
  <2>2. Weight(1, 0, Rank[place]) < Weight(0, 0, Rank[pc[c]])
      BY <1>5, WeightFalls, Numbers
  <2> QED
      BY <1>1, <1>4, <2>1, <2>2 DEF Nearer
<1> QED
    BY <1>6, <1>7

LEMMA StartsNearer ==
    ASSUME TInv, NEW c \in Callers,
           \/ Create(c) \/ LogCreated(c) \/ Start(c) \/ LogStarted(c)
           \/ NextStage(c) \/ Close(c) \/ LogClosed(c)
    PROVE  Nearer(c)
<1>0. /\ at[c] \in 0..MaxStages /\ attempt[c] \in 0..MaxAttempts
      /\ {"create", "logCreated", "start", "logStarted"} \subseteq Early
      /\ {"close", "logClosed", "next"} \subseteq CallerPc \ Away /\ "returned" \in Away
      /\ {"next", "stage"} \subseteq Middle
    BY OwnStays, Places DEF CallerPc, Away, Early
<1>1. CASE Create(c)
  <2>1. pc[c] = "create"
        /\ Moves(c, "logCreated", copy[c], at[c], attempt[c], result[c])
      BY <1>1, StepsMove DEF Create, Goes
  <2> QED
      BY <1>0, <2>1, EarlyNearer, RankFalls
<1>2. CASE LogCreated(c)
  <2>1. pc[c] = "logCreated" /\ Moves(c, "start", copy[c], at[c], attempt[c], result[c])
      BY <1>2, StepsMove DEF LogCreated, Goes
  <2> QED
      BY <1>0, <2>1, EarlyNearer, RankFalls
<1>3. CASE Start(c)
  <2>1. pc[c] = "start"
        /\ Moves(c, "logStarted", UpdateStrategy(copy[c], "running"), at[c], attempt[c],
                 result[c])
      BY <1>3, StepsMove DEF Start
  <2> QED
      BY <1>0, <2>1, EarlyNearer, RankFalls
<1>4. CASE LogStarted(c)
  <2>1. pc[c] = "logStarted" /\ Moves(c, "stage", copy[c], 1, attempt[c], result[c])
      BY <1>4, StepsMove DEF LogStarted
  <2> QED
      BY <1>0, <2>1, EarlyNearer, RankFalls, Numbers
<1>5. CASE NextStage(c)
  <2>1. pc[c] = "next" /\ pc[c] \in Working
      BY <1>5 DEF NextStage, Working, CallerPc, Away, Early
  <2>2. CASE Halts(c) \/ at[c] = Len(copy[c].definition)
    <3>1. Moves(c, "close", copy[c], at[c], 0, NoResult)
        BY <1>5, <2>2, StepsMove
    <3> QED
        BY <1>0, <2>1, <3>1, LastNearer, Numbers
  <2>3. CASE ~(Halts(c) \/ at[c] = Len(copy[c].definition))
    <3>1. Moves(c, "stage", copy[c], at[c] + 1, 0, NoResult)
        BY <1>5, <2>3, StepsMove
    <3>2. at[c] + 1 \in 0..MaxStages
        BY <2>1, <2>3, AtStage, StageNumbers
    <3> QED
        BY <1>0, <2>1, <3>1, <3>2, MiddleNearer, Numbers
  <2> QED
      BY <2>2, <2>3
<1>6. CASE Close(c)
    BY <1>0, <1>6, StepsMove, LastNearer DEF Close
<1>7. CASE LogClosed(c)
    BY <1>0, <1>7, StepsMove, LastNearer DEF LogClosed, Goes
<1> QED
    BY <1>1, <1>2, <1>3, <1>4, <1>5, <1>6, <1>7

LEMMA StagesNearer ==
    ASSUME TInv, NEW c \in Callers,
           \/ Skip(c) \/ LogSkipped(c) \/ Begin(c) \/ LogBegun(c)
           \/ Complete(c) \/ LogEvidence(c) \/ LogStage(c)
    PROVE  Nearer(c)
<1>1. CASE Skip(c)
  <2>1. pc[c] = "stage"
        /\ Moves(c, "logSkipped", Skipped(c), at[c], attempt[c], result[c])
      BY <1>1, SkipMoves DEF Skip
  <2> QED
      BY <2>1, GoesNearer, RankFalls, Places
<1>2. CASE LogSkipped(c)
  <2>1. pc[c] = "logSkipped"
        /\ Goes(c, "next")
      BY <1>2, StageLogsMove DEF LogSkipped
  <2> QED
      BY <2>1, GoesOn, RankFalls, Places
<1>3. CASE Begin(c)
  <2>1. pc[c] \in Middle /\ pc[c] \in Working
      BY <1>3, Places DEF Begin, Middle
  <2>2. NextAttempt(c) \in 0..MaxAttempts /\ at[c] \in 0..MaxStages
    <3>1. NextAttempt(c) \in 1..MaxAttempts
        BY <1>3, <2>1, BeginCounts
    <3>2. NextAttempt(c) \in 0..MaxAttempts
        BY <3>1 DEF MaxAttempts
    <3> QED
        BY <3>2, OwnStays
  <2>3. Moves(c, "logBegun", Begun(c), at[c], NextAttempt(c), NoResult)
      BY <1>3, BeginMoves
  <2> QED
      BY <2>1, <2>2, <2>3, MiddleNearer, Places DEF NextAttempt
<1>4. CASE LogBegun(c)
  <2>1. pc[c] = "logBegun"
        /\ Goes(c, "call")
      BY <1>4, StageLogsMove DEF LogBegun
  <2> QED
      BY <2>1, GoesOn, RankFalls, Places
<1>5. CASE Complete(c)
  <2>1. pc[c] = "complete"
        /\ Moves(c, "logEvidence", Completed(c), at[c], attempt[c], result[c])
      BY <1>5, CompleteMoves DEF Complete
  <2> QED
      BY <2>1, GoesNearer, RankFalls, Places
<1>6. CASE LogEvidence(c)
  <2>1. PlaceAfterEvidence(c) \in {"logStage", "begin"}
      BY DEF PlaceAfterEvidence
  <2>2. /\ PlaceAfterEvidence(c) \in Middle /\ pc[c] = "logEvidence" /\ pc[c] \in Middle
        /\ Rank[PlaceAfterEvidence(c)] < Rank[pc[c]]
      BY <1>6, <2>1, RankFalls, Places DEF LogEvidence
  <2> QED
      BY <1>6, <2>2, StageLogsMove, GoesOn
<1>7. CASE LogStage(c)
  <2>1. pc[c] = "logStage"
        /\ Goes(c, "next")
      BY <1>7, StageLogsMove DEF LogStage
  <2> QED
      BY <2>1, GoesOn, RankFalls, Places
<1> QED
    BY <1>1, <1>2, <1>3, <1>4, <1>5, <1>6, <1>7

LEMMA ToolsNearer ==
    ASSUME TInv, NEW c \in Callers,
           \/ SourceMissing(c) \/ Bind(c) \/ Replay(c) \/ Conflict(c) \/ Launch(c)
           \/ LockTimesOut(c) \/ Return(c) \/ Evaluate(c) \/ Trouble(c)
    PROVE  Nearer(c)
<1>0. /\ at[c] \in 0..MaxStages /\ attempt[c] \in 0..MaxAttempts /\ pc[c] \in CallerPc
      /\ "raised" \in Away /\ "crashed" \in Away
    BY OwnStays DEF Away
<1>1. CASE Fails(c)
  <2>1. pc[c] \in {"call", "inside", "evidence"}
        /\ Moves(c, "complete", copy[c], at[c], attempt[c], NoResult)
      BY <1>1, ToolStepsMove DEF Fails
  <2> QED
      BY <2>1, GoesNearer, RankFalls, Places
<1>2. CASE Calls(c) /\ Escapes(c)
  <2>1. pc[c] \in CallerPc \ Away
      BY <1>2 DEF Calls, CallerPc, Away
  <2> QED
      BY <1>0, <1>2, <2>1, ToolStepsMove, LastNearer DEF Goes
<1>3. CASE Crash(c)
  <2>1. pc[c] \in CallerPc \ Away
      BY <1>0, <1>3 DEF Crash
  <2> QED
      BY <1>0, <1>3, <2>1, ToolStepsMove, LastNearer DEF Goes
<1>4. CASE Bind(c)
  <2>1. pc[c] = "call"
        /\ Goes(c, "launch")
      BY <1>4, ToolStepsMove DEF Bind, Calls
  <2> QED
      BY <2>1, GoesOn, RankFalls, Places
<1>5. CASE Replay(c)
  <2>1. pc[c] = "call"
        /\ Moves(c, "evidence", copy[c], at[c], attempt[c],
                 [run |-> KeyOf(c), passed |-> result[c].passed])
      BY <1>5, ToolStepsMove DEF Replay, Calls
  <2> QED
      BY <2>1, GoesNearer, RankFalls, Places
<1>6. CASE Return(c)
  <2>1. pc[c] = "inside"
        /\ Moves(c, "evidence", copy[c], at[c], attempt[c],
                 [run |-> KeyOf(c), passed |-> result[c].passed])
      BY <1>6, ToolStepsMove DEF Return
  <2> QED
      BY <2>1, GoesNearer, RankFalls, Places
<1>7. CASE Launch(c)
  <2>1. pc[c] = "launch"
        /\ Goes(c, "inside")
      BY <1>7, ToolStepsMove DEF Launch
  <2> QED
      BY <2>1, GoesOn, RankFalls, Places
<1>8. CASE Evaluate(c)
  <2>1. PICK passed : Judge(c, passed)
      BY <1>8 DEF Evaluate
  <2>2. pc[c] \in {"evidence", "call"}
      BY <1>8 DEF Evaluate
  <2>3. Moves(c, "complete", copy[c], at[c], attempt[c],
              [run |-> result[c].run, passed |-> passed])
      BY <2>1, ToolStepsMove
  <2> QED
      BY <2>2, <2>3, GoesNearer, RankFalls, Places
<1> QED
    BY <1>1, <1>2, <1>3, <1>4, <1>5, <1>6, <1>7, <1>8
    DEF SourceMissing, Conflict, LockTimesOut, Trouble, ToolFails, ToolEscapes

LEMMA CallersNearer ==
    ASSUME TInv, NEW c \in Callers, pc[c] \notin Away,
           \/ \E d \in Catalogue : CallFirst(c, d)
           \/ CallAgain(c) \/ CallOther(c) \/ Execute(c) \/ Trouble(c)
    PROVE  Nearer(c)
<1>1. Execute(c) \/ Trouble(c)
    BY DEF CallFirst, CallAgain, CallOther, Enter
<1> QED
    BY <1>1, StartsNearer, StagesNearer, ToolsNearer DEF Execute

\* What another caller does leaves this one where it is.
LEMMA OthersWait ==
    ASSUME TInv, NEW c \in Callers, NEW o \in Callers, o # c,
           \/ \E d \in Catalogue : CallFirst(o, d)
           \/ CallAgain(o) \/ CallOther(o) \/ Execute(o) \/ Trouble(o)
    PROVE  UNCHANGED <<pc[c], copy[c], at[c], attempt[c], result[c]>>
<1>1. PICK place, r, i, n, res : Moves(o, place, r, i, n, res)
    BY StepKinds, ToolStepsMove DEF Aside, Goes
<1> QED
    BY <1>1, OthersStay

\* StrategyStageExecutor.execute, "for attempt in range": no call goes in circles,
\* whatever other callers write into the record and however the tools answer.  It is
\* the safety half of ExecuteConcludes, for any callers and any definitions.
THEOREM ExecuteDoesNotCircle == Spec => ExecuteAdvances
<1> DEFINE Onward(c) == pc[c] \notin Away =>
                          \/ UNCHANGED <<pc[c], copy[c], at[c], attempt[c], result[c]>>
                          \/ Nearer(c)
<1>1. ASSUME TInv, [Next]_vars, NEW c \in Callers
      PROVE  Onward(c)
  <2>1. CASE UNCHANGED vars
      BY <2>1 DEF vars
  <2>2. ASSUME NEW k \in BoundKeys, RunEnds(k) \/ RunOverwritten(k)
        PROVE  Onward(c)
      BY <1>1, <2>2, RunsAreApart
  <2>3. ASSUME NEW o \in Callers,
               \/ \E d \in Catalogue : CallFirst(o, d)
               \/ CallAgain(o) \/ CallOther(o) \/ Execute(o) \/ Trouble(o)
        PROVE  Onward(c)
      BY <1>1, <2>3, CallersNearer, OthersWait
  <2> QED
      BY <1>1, <2>1, <2>2, <2>3 DEF Next
<1> DEFINE Onwards ==
        \A c \in Callers :
            pc[c] \notin Away =>
                \/ UNCHANGED <<pc[c], copy[c], at[c], attempt[c], result[c]>>
                \/ Remaining(pc'[c], at'[c], attempt'[c]) < Remaining(pc[c], at[c], attempt[c])
<1>2. TInv /\ [Next]_vars => [Onwards]_vars
    BY <1>1 DEF Nearer
<1> QED
    BY <1>2, TypeAlways, PTL DEF Spec, ExecuteAdvances

-----------------------------------------------------------------------------
(***************************************************************************)
(* The keys of the Stages are retry tokens.                                *)
(***************************************************************************)
Asked(k) == IF runs[k].state = "none" THEN <<>> ELSE <<runs[k].task>>

Launches(k) == IF runs[k].state \in {"none", "planned"} THEN 0 ELSE 1

Requests == UNION {{<<d[i].task>> : i \in 1..Len(d)} : d \in Catalogue}

LEMMA DecidesOnce ==
    ASSUME TInv, NEW c \in Callers, Bind(c), NEW k, k = KeyOf(c)
    PROVE  k \in BoundKeys /\ Once!Decide(k)
<1>1. /\ k \in BoundKeys /\ runs[k].state = "none"
      /\ runs'[k].state = "planned" /\ runs'[k].task = Current(c).task
      /\ \A j \in BoundKeys : j # k => runs'[j] = runs[j]
    BY BindIs
<1>2. pc[c] \in Working
    BY DEF Bind, Calls, Working, CallerPc, Away, Early
<1>3. copy[c].definition \in Catalogue
    BY <1>2, AtStage DEF Records, RecordsOf
<1>4. <<Current(c).task>> \in Requests
    BY <1>2, <1>3, AtStage DEF Requests
<1>5. Asked(k) = <<>> /\ runs'[k].state # "none"
    BY <1>1 DEF Asked
<1>6. \A j \in BoundKeys : j # k => Asked(j)' = Asked(j)
    BY <1>1 DEF Asked
<1>7. \A j \in BoundKeys : Launches(j)' = Launches(j)
    BY <1>1 DEF Launches
<1> QED
    BY <1>1, <1>4, <1>5, <1>6, <1>7 DEF Once!Decide, Asked, Launches, Requests

LEMMA LaunchesOnce ==
    ASSUME TInv, Launched, NEW c \in Callers, Launch(c), NEW k, k = KeyOf(c)
    PROVE  k \in BoundKeys /\ Once!Launch(k)
<1>1. /\ k \in BoundKeys /\ runs[k].state = "planned"
      /\ runs'[k].state = "running"
      /\ runs'[k].task = runs[k].task
      /\ \A j \in BoundKeys : j # k => runs'[j] = runs[j]
    BY LaunchIs
<1>2. Launches(k) = 0 /\ runs'[k].state = "running"
    BY <1>1 DEF Launches
<1>5. Asked(k) # <<>>
  <2>1. Asked(k) = <<runs[k].task>>
      BY <1>1 DEF Asked
  <2> QED
      BY <2>1
<1>3. \A j \in BoundKeys : j # k => Launches(j)' = Launches(j)
    BY <1>1 DEF Launches
<1>4. \A j \in BoundKeys : Asked(j)' = Asked(j)
    BY <1>1 DEF Asked
<1> QED
    BY <1>1, <1>2, <1>3, <1>4, <1>5 DEF Once!Launch, Asked, Launches

\* strategy-runtime.md "operation keys": what a caller of execute gets from the tools
\* is what OnceContract promises of a retry token: a Stage stands for one request and
\* starts at most one native process, for any callers, attempts and crashes.
THEOREM StagesRunOnce == Spec => ImplementsOnce
<1>1. Init => Once!Init
    BY DEF Init, Once!Init, NoRun
<1>2. TInv /\ Launched /\ [Next]_vars => [Once!Next]_(Once!onceVars)
  <2>0. ASSUME \A k \in BoundKeys : Asked(k)' = Asked(k) /\ Launches(k)' = Launches(k)
        PROVE  UNCHANGED Once!onceVars
      BY <2>0 DEF Once!onceVars, Asked, Launches
  <2> SUFFICES ASSUME TInv, Launched, [Next]_vars
               PROVE  Once!Next \/ UNCHANGED Once!onceVars
      OBVIOUS
  <2>1. CASE UNCHANGED runs
      BY <2>0, <2>1 DEF Asked, Launches
  <2>2. ASSUME NEW k \in BoundKeys, RunEnds(k) \/ RunOverwritten(k)
        PROVE  UNCHANGED Once!onceVars
    <3>1. /\ runs[k].state \in {"running"} \cup EndedRun /\ runs'[k].state \in EndedRun
          /\ runs'[k].task = runs[k].task
          /\ \A j \in BoundKeys : j # k => runs'[j] = runs[j]
        BY <2>2, RunStops
    <3> QED
        BY <2>0, <3>1 DEF Asked, Launches, EndedRun
  <2>3. ASSUME NEW c \in Callers,
               \/ \E d \in Catalogue : CallFirst(c, d)
               \/ CallAgain(c) \/ CallOther(c) \/ Execute(c) \/ Trouble(c)
        PROVE  Once!Next \/ UNCHANGED runs
    <3>1. CASE Bind(c)
      <4>1. PICK k : k = KeyOf(c)
          OBVIOUS
      <4>2. k \in BoundKeys /\ Once!Decide(k)
          BY <3>1, <4>1, DecidesOnce
      <4> QED
          BY <4>2 DEF Once!Next
    <3>2. CASE Launch(c)
      <4>1. PICK k : k = KeyOf(c)
          OBVIOUS
      <4>2. k \in BoundKeys /\ Once!Launch(k)
          BY <3>2, <4>1, LaunchesOnce
      <4> QED
          BY <4>2 DEF Once!Next
    <3>3. CASE Aside(c)
        BY <3>3 DEF Aside
    <3> QED
        BY <2>3, <3>1, <3>2, <3>3, StepKinds
  <2> QED
      BY <2>1, <2>2, <2>3 DEF Next, vars
<1> QED
    BY <1>1, <1>2, LaunchedAlways, PTL DEF Spec, ImplementsOnce, Once!Spec

================================================================================
