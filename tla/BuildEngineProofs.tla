------------------------- MODULE BuildEngineProofs -------------------------

(***************************************************************************)
(* Proofs about the build engine, for any client, any bounds: its types,   *)
(* the epochs, and what a step of the loop may do to one rule.             *)
(*                                                                         *)
(* A fact that only one proof needs is a step of that proof, named for the *)
(* fact.                                                                   *)
(***************************************************************************)
EXTENDS BuildEngine, TLAPS

-----------------------------------------------------------------------------
(***************************************************************************)
(* Sequences                                                               *)
(***************************************************************************)
\* A function of the first n positions is a sequence.
LEMMA SequenceOf ==
  ASSUME NEW S, NEW n \in Nat, NEW f \in [1 .. n -> S]
  PROVE  f \in Seq(S)
  BY SMT

\* What is left of a non-empty stack, and its top.
LEMMA BackType ==
  ASSUME NEW S, NEW s \in Seq(S), s # <<>>
  PROVE  PopBack(s) \in Seq(S) /\ Back(s) \in S
  BY DEF PopBack, Back

\* The requests made in one callback are input requests.
LEMMA AsRequestsType ==
  ASSUME NEW k \in Keys, NEW requests \in Seq(TaskRequest)
  PROVE  AsRequests(k, requests) \in Seq(InputRequest)
<1> DEFINE f == AsRequests(k, requests)
<1>1. Len(requests) \in Nat /\ DOMAIN requests = 1 .. Len(requests)
  OBVIOUS
<1>2. \A n \in 1 .. Len(requests) : requests[n] \in TaskRequest
  OBVIOUS
<1>3. f \in [1 .. Len(requests) -> InputRequest]
  BY <1>1, <1>2, Zenon DEF AsRequests, InputRequest, RequestsFrom, TaskRequest
<1> QED BY <1>1, <1>3, SequenceOf, Zenon

\* The dummy requests for discovered dependencies are input requests.
LEMMA DummyRequestsType ==
  ASSUME NEW discovered \in Seq(Dependency)
  PROVE  [n \in DOMAIN discovered |-> DummyRequest(discovered[n].key)] \in Seq(InputRequest)
<1> DEFINE f == [n \in DOMAIN discovered |-> DummyRequest(discovered[n].key)]
<1>1. Len(discovered) \in Nat /\ DOMAIN discovered = 1 .. Len(discovered)
  OBVIOUS
<1>2. \A n \in 1 .. Len(discovered) : discovered[n] \in Dependency
  OBVIOUS
<1>3. f \in [1 .. Len(discovered) -> InputRequest]
  BY <1>1, <1>2, Zenon DEF DummyRequest, InputRequest, RequestsFrom, Dependency
<1> QED BY <1>1, <1>3, SequenceOf, Zenon

\* Two sequences in one, a sequence with one more element, and the empty one.
LEMMA Sequences ==
  ASSUME NEW S
  PROVE  /\ \A q, r \in Seq(S) : q \o r \in Seq(S)
         /\ \A q \in Seq(S), x \in S : Append(q, x) \in Seq(S)
         /\ <<>> \in Seq(S)
OBVIOUS

\* A new task has the type of a task.
LEMMA NewTaskType == NewTask \in TaskInfo
  BY DEF NewTask, TaskInfo, Provided

\* A scan request is one for whatever Boolean it carries.
LEMMA ScanRequestType ==
  \A k \in Keys, b \in BOOLEAN :
    [rule |-> k, inputIndex |-> 1, needsToRun |-> b] \in ScanRequest
  BY DEF ScanRequest

\* A scan request moved on to the next input.
LEMMA NextScanRequestType ==
  ASSUME NEW q \in ScanRequest, NEW b \in BOOLEAN
  PROVE  [q EXCEPT !.inputIndex = @ + 1, !.needsToRun = b] \in ScanRequest
<1>1. q.inputIndex + 1 \in Nat \ {0}
  BY DEF ScanRequest
<1>2. \A i \in Nat \ {0} : [q EXCEPT !.inputIndex = i, !.needsToRun = b] \in ScanRequest
  BY Zenon DEF ScanRequest
<1> QED BY Zenon, <1>1, <1>2

-----------------------------------------------------------------------------
(***************************************************************************)
(* What scanRule and demandRule leave, and the heads of the queues         *)
(***************************************************************************)
\* What scanRule leaves of a rule, and the scan request it queues.
LEMMA ScanTypes ==
  ASSUME TypeOK, NEW k \in Keys
  PROVE  /\ ScanState(k) \in RuleStates
         /\ ScanResult(k) \in Result
         /\ ScanForced(k) \in BOOLEAN
         /\ NewScanRequests(k) \in Seq(ScanRequest)
<1>1. ScanState(k) \in RuleStates
  BY Zenon DEF TypeOK, ScanState, RuleStates
<1>2. ScanResult(k) \in Result
  <2>1. result[k] \in Result
    BY Zenon DEF TypeOK
  <2> QED BY <2>1, Zenon DEF ScanResult, Result
<1>3. ScanForced(k) \in BOOLEAN
  BY Zenon DEF TypeOK, ScanForced
<1>4. OutOfDate(k) \in BOOLEAN
  BY Zenon DEF OutOfDate
<1>5. NewScanRequests(k) \in Seq(ScanRequest)
  <2> DEFINE q == [rule |-> k, inputIndex |-> 1, needsToRun |-> OutOfDate(k)]
  <2>1. q \in ScanRequest
    BY <1>4, ScanRequestType, Zenon
  <2>2. <<q>> \in Seq(ScanRequest)
    <3> HIDE DEF q
    <3> QED BY <2>1
  <2> QED BY <2>2 DEF NewScanRequests
<1> QED BY <1>1, <1>2, <1>3, <1>5, Zenon

\* What demandRule leaves of a rule, and the requests of the task it starts.
LEMMA DemandTypes ==
  ASSUME TypeOK, NEW k \in Keys
  PROVE  /\ DemandState(k) \in RuleStates
         /\ DemandResult(k) \in Result
         /\ StartedRequests(k) \in Seq(InputRequest)
         /\ StartedTask(k) \in [Keys -> TaskInfo]
<1>1. ScanState(k) \in RuleStates /\ ScanResult(k) \in Result
  BY ScanTypes, Zenon
<1>2. DemandState(k) \in RuleStates
  BY <1>1, Zenon DEF DemandState, RuleStates
<1>3. DemandResult(k) \in Result
  <2>1. currentEpoch \in Nat
    BY Zenon DEF TypeOK
  <2>2. <<>> \in Seq(Dependency)
    OBVIOUS
  <2> QED BY <1>1, <2>1, <2>2, Zenon DEF DemandResult, Result
<1>4. StartedRequests(k) \in Seq(InputRequest)
  <2>1. StartRequests(k, manifest, world) \in Seq(TaskRequest)
    BY ClientAssumption, Zenon DEF TypeOK
  <2>2. AsRequests(k, StartRequests(k, manifest, world)) \in Seq(InputRequest)
    BY <2>1, AsRequestsType, Zenon
  <2> QED BY <2>2 DEF StartedRequests
<1>5. StartedTask(k) \in [Keys -> TaskInfo]
  <2>1. Len(StartedRequests(k)) \in Int
    BY <1>4
  <2>2. NewTask \in TaskInfo
    BY NewTaskType, Zenon
  <2>3. [NewTask EXCEPT !.waitCount = Len(StartedRequests(k))] \in TaskInfo
    BY <2>1, <2>2, Zenon DEF TaskInfo
  <2>4. task \in [Keys -> TaskInfo]
    BY Zenon DEF TypeOK
  <2> QED BY <2>3, <2>4, Zenon DEF StartedTask
<1> QED BY <1>2, <1>3, <1>4, <1>5, Zenon

\* The scan request on top of the stack, and the dependency it looks at.
LEMMA ScanTopTypes ==
  ASSUME TypeOK, ruleInfosToScan # <<>>
  PROVE  /\ ScanTop \in ScanRequest
         /\ ScanRest \in Seq(ScanRequest)
         /\ ScanTop.rule \in Keys
         /\ ScanTop.inputIndex <= Len(ScanDeps) => ScanInput \in Keys
<1>1. ScanTop \in ScanRequest /\ ScanRest \in Seq(ScanRequest)
  BY Zenon, BackType DEF TypeOK, ScanTop, ScanRest
<1>2. ScanTop.rule \in Keys /\ ScanTop.inputIndex \in Nat \ {0}
  BY <1>1, Zenon DEF ScanRequest
<1>3. ScanDeps \in Seq(Dependency)
  BY <1>2, Zenon DEF TypeOK, ScanDeps, Result
<1>4. ASSUME ScanTop.inputIndex <= Len(ScanDeps)
      PROVE  ScanInput \in Keys
  <2>1. ScanDeps[ScanTop.inputIndex] \in Dependency
    BY <1>2, <1>3, <1>4
  <2> QED BY <2>1, Zenon DEF ScanInput, ScanDep, Dependency
<1> QED BY <1>1, <1>2, <1>4, Zenon

\* The input request at the head of the queue, and its input.
LEMMA RequestTypes ==
  ASSUME TypeOK, inputRequests # <<>>
  PROVE  /\ Request \in InputRequest
         /\ RequestInput \in Keys
         /\ Request.task # NoKey => Request \in PendingRequest /\ Request.task \in Keys
         /\ Tail(inputRequests) \in Seq(InputRequest)
<1>1. Request \in InputRequest /\ Tail(inputRequests) \in Seq(InputRequest)
  BY DEF TypeOK, Request
<1> QED BY <1>1, Zenon DEF InputRequest, PendingRequest, RequestsFrom, RequestInput

\* A list of the search for a cycle is a list of keys.
LEMMA CycleListType ==
  ASSUME NEW list \in CycleWalks, NEW j \in DOMAIN list
  PROVE  list[j] \in Keys
  BY Zenon DEF CycleWalks

\* Everything a build keeps in memory, thrown away.
LEMMA EmptyTypes ==
  /\ [k \in Keys |-> <<>>] \in [Keys -> Seq(InputRequest)]
  /\ [k \in Keys |-> <<>>] \in [Keys -> Seq(ScanRequest)]
  /\ <<>> \in Seq(ScanRequest) /\ <<>> \in Seq(InputRequest)
  /\ <<>> \in Seq(PendingRequest) /\ <<>> \in Seq(Keys)
  /\ [k \in Keys |-> NewTask] \in [Keys -> TaskInfo]
<1>1. <<>> \in Seq(ScanRequest) /\ <<>> \in Seq(InputRequest)
  OBVIOUS
<1>2. <<>> \in Seq(PendingRequest) /\ <<>> \in Seq(Keys)
  OBVIOUS
<1>3. [k \in Keys |-> NewTask] \in [Keys -> TaskInfo]
  BY NewTaskType, Zenon
<1> QED BY <1>1, <1>2, <1>3, Zenon

-----------------------------------------------------------------------------
(***************************************************************************)
(* Every step preserves the types                                          *)
(***************************************************************************)
\* The first state of an engine with an empty database.
LEMMA InitType ==
  ASSUME Init PROVE TypeOK
<1>1. NoResult \in Result
  <2>1. NoValue \in AnyValue /\ NoValue \in Signatures
    BY ONLY SMT DEF AnyValue, Signatures
  <2>2. <<>> \in Seq(Dependency) /\ {} \in SUBSET Keys
    BY Sequences, Zenon
  <2>3. 0 \in Nat
    BY ONLY SMT
  <2> QED BY <2>1, <2>2, <2>3, Zenon DEF NoResult, Result
<1>2. result \in [Keys -> Result] /\ db \in Database /\ tx \in Database
  BY <1>1, Zenon DEF Init, Database
<1>3. state \in [Keys -> RuleStates] /\ wasForced \in [Keys -> BOOLEAN]
  BY Zenon DEF Init, RuleStates
<1>4. worker \in [Keys -> WorkerStates]
  BY Zenon DEF Init, WorkerStates
<1>5. pc \in PCs /\ numOutstanding \in Int
  BY DEF Init, PCs
<1>6. budget \in [cancels : Nat, restarts : Nat, faults : Nat]
  BY BoundsAssumption, Zenon DEF Init
<1> QED BY <1>1, <1>2, <1>3, <1>4, <1>5, <1>6, EmptyTypes, Zenon DEF TypeOK, Init

\* Every step of the engine, of its threads and of its client keeps the types.
LEMMA NextType ==
  ASSUME TypeOK, [Next]_vars PROVE TypeOK'

\* What is left of a budget of which one is used.
<1>OneLess.
  ASSUME NEW n \in Nat, n > 0
  PROVE  n - 1 \in Nat
  BY <1>OneLess

\* Requests appended to the lists of a task.
<1>TaskAppendTypes.
  ASSUME NEW t \in [Keys -> TaskInfo], NEW k \in Keys
  PROVE  /\ \A q \in ScanRequest :
              [t EXCEPT ![k].deferredScans = Append(@, q)] \in [Keys -> TaskInfo]
         /\ \A r \in PendingRequest :
              [t EXCEPT ![k].requestedBy = Append(@, r)] \in [Keys -> TaskInfo]
  <2> USE <1>TaskAppendTypes
  <2>1. t[k] \in TaskInfo
    BY Zenon
  <2>2. ASSUME NEW q \in ScanRequest
        PROVE  [t EXCEPT ![k].deferredScans = Append(@, q)] \in [Keys -> TaskInfo]
    <3>1. Append(t[k].deferredScans, q) \in Seq(ScanRequest)
      BY <2>1 DEF TaskInfo
    <3>2. [t[k] EXCEPT !.deferredScans = Append(@, q)] \in TaskInfo
      BY Zenon, <2>1, <3>1 DEF TaskInfo
    <3> QED BY <3>2, Zenon
  <2>3. ASSUME NEW r \in PendingRequest
        PROVE  [t EXCEPT ![k].requestedBy = Append(@, r)] \in [Keys -> TaskInfo]
    <3>1. Append(t[k].requestedBy, r) \in Seq(PendingRequest)
      BY <2>1 DEF TaskInfo
    <3>2. [t[k] EXCEPT !.requestedBy = Append(@, r)] \in TaskInfo
      BY Zenon, <2>1, <3>1 DEF TaskInfo
    <3> QED BY <3>2, Zenon
  <2> QED BY <2>2, <2>3, Zenon

\* finishScanRequest: the deferred and the paused requests go back to the queues.
<1>FinishScanTypes.
  ASSUME TypeOK, NEW k \in Keys, NEW rest \in Seq(ScanRequest),
         FinishScanRequest(k, rest)
  PROVE  /\ ruleInfosToScan' \in Seq(ScanRequest)
         /\ inputRequests' \in Seq(InputRequest)
         /\ deferredScanRequests' \in [Keys -> Seq(ScanRequest)]
         /\ pausedInputRequests' \in [Keys -> Seq(InputRequest)]
  <2> USE <1>FinishScanTypes
  <2>1. /\ deferredScanRequests[k] \in Seq(ScanRequest)
        /\ pausedInputRequests[k] \in Seq(InputRequest) /\ inputRequests \in Seq(InputRequest)
    BY Zenon DEF TypeOK
  <2>2. <<>> \in Seq(ScanRequest) /\ <<>> \in Seq(InputRequest)
    BY Sequences, Zenon
  <2>3. rest \o deferredScanRequests[k] \in Seq(ScanRequest)
    BY <2>1, Sequences, Zenon
  <2>4. inputRequests \o pausedInputRequests[k] \in Seq(InputRequest)
    BY <2>1, Sequences, Zenon
  <2> QED BY <2>2, <2>3, <2>4, Zenon DEF TypeOK, FinishScanRequest

\* demandRule: the part every caller shares.
<1>DemandRuleTypes.
  ASSUME TypeOK, NEW k \in Keys, DemandRule(k)
  PROVE  /\ state' \in [Keys -> RuleStates]
         /\ wasForced' \in [Keys -> BOOLEAN]
         /\ taskInfos' \subseteq Keys
         /\ readyTaskInfos' \in Seq(Keys)
  <2> USE <1>DemandRuleTypes
  <2>1. DemandState(k) \in RuleStates /\ ScanForced(k) \in BOOLEAN
    BY DemandTypes, ScanTypes, Zenon
  <2>2. Append(readyTaskInfos, k) \in Seq(Keys) /\ readyTaskInfos \in Seq(Keys)
    BY Sequences, Zenon DEF TypeOK
  <2>3. readyTaskInfos' \in {readyTaskInfos, Append(readyTaskInfos, k)}
    BY Zenon DEF DemandRule
  <2>4. taskInfos' \in {taskInfos, taskInfos \cup {k}}
    BY Zenon DEF DemandRule
  <2>5. taskInfos' \subseteq Keys
    BY <2>4, Zenon DEF TypeOK
  <2> QED BY <2>1, <2>2, <2>3, <2>5, Zenon DEF TypeOK, DemandRule

\* Every step of the scan loop.
<1>ProcessRuleScanRequestType.
  ASSUME TypeOK, ProcessRuleScanRequest PROVE TypeOK'
  <2> USE <1>ProcessRuleScanRequestType
  \* A scan request dropped because its rule was forced to run.
  <2>ScanDroppedType.
    ASSUME TypeOK, ScanDropped PROVE TypeOK'
    <3> USE <2>ScanDroppedType
    <3>1. ruleInfosToScan' \in Seq(ScanRequest)
      BY ScanTopTypes, Zenon DEF ScanDropped, Scanning
    <3> QED BY <3>1, Zenon DEF TypeOK, ScanDropped, Scanning, ruleVars, taskVars, workVars,
                        clientVars, engineUnchanged
  \* A scan that skips an input of a rule that has to run anyway.
  <2>ScanSkipsType.
    ASSUME TypeOK, ScanSkips PROVE TypeOK'
    <3> USE <2>ScanSkipsType
    <3>1. ScanTop \in ScanRequest /\ ScanRest \in Seq(ScanRequest)
      BY ScanTopTypes, Zenon DEF ScanSkips, Scanning
    <3>2. [ScanTop EXCEPT !.inputIndex = @ + 1] \in ScanRequest
      BY <3>1 DEF ScanRequest
    <3>3. ruleInfosToScan' \in Seq(ScanRequest)
      BY <3>1, <3>2 DEF ScanSkips
    <3> QED BY <3>3, Zenon DEF TypeOK, ScanSkips, Scanning, ruleVars, taskVars, workVars,
                        clientVars, engineUnchanged
  \* A scan that waits for the scan of an input.
  <2>ScanDefersOnScanType.
    ASSUME TypeOK, ScanDefersOnScan PROVE TypeOK'
    <3> USE <2>ScanDefersOnScanType
    <3>1. /\ ScanTop \in ScanRequest /\ ScanRest \in Seq(ScanRequest)
          /\ ScanInput \in Keys
      BY ScanTopTypes, Zenon DEF ScanDefersOnScan, AtInput, Scanning
    <3>2. /\ ScanState(ScanInput) \in RuleStates
          /\ ScanResult(ScanInput) \in Result
          /\ ScanForced(ScanInput) \in BOOLEAN
          /\ NewScanRequests(ScanInput) \in Seq(ScanRequest)
      BY <3>1, ScanTypes, Zenon
    <3>3. /\ state' \in [Keys -> RuleStates]
          /\ result' \in [Keys -> Result]
          /\ wasForced' \in [Keys -> BOOLEAN]
      BY <3>1, <3>2, Zenon DEF TypeOK, ScanDefersOnScan, ScanRule
    <3>4. /\ ruleInfosToScan' \in Seq(ScanRequest)
          /\ deferredScanRequests' \in [Keys -> Seq(ScanRequest)]
      BY <3>1, <3>2 DEF TypeOK, ScanDefersOnScan
    <3> QED BY Zenon, <3>3, <3>4 DEF TypeOK, ScanDefersOnScan, AtInput, Scanning, taskVars,
                              workVars, clientVars, engineUnchanged
  \* A scan that waits for the task of an input.
  <2>ScanDefersOnTaskType.
    ASSUME TypeOK, ScanDefersOnTask PROVE TypeOK'
    <3> USE <2>ScanDefersOnTaskType
    <3>1. /\ ScanTop \in ScanRequest /\ ScanRest \in Seq(ScanRequest)
          /\ ScanInput \in Keys
      BY ScanTopTypes, Zenon DEF ScanDefersOnTask, AtInput, Scanning
    <3>2. /\ DemandResult(ScanInput) \in Result
          /\ StartedRequests(ScanInput) \in Seq(InputRequest)
          /\ StartedTask(ScanInput) \in [Keys -> TaskInfo]
      BY <3>1, DemandTypes, Zenon
    <3>3. /\ state' \in [Keys -> RuleStates]
          /\ wasForced' \in [Keys -> BOOLEAN]
          /\ taskInfos' \subseteq Keys
          /\ readyTaskInfos' \in Seq(Keys)
      BY <3>1, <1>DemandRuleTypes, Zenon DEF ScanDefersOnTask
    <3>4. /\ result' \in [Keys -> Result]
          /\ inputRequests' \in Seq(InputRequest)
          /\ ruleInfosToScan' \in Seq(ScanRequest)
      BY <3>1, <3>2 DEF TypeOK, ScanDefersOnTask
    <3>5. task' \in [Keys -> TaskInfo]
      BY <3>1, <3>2, <1>TaskAppendTypes, Zenon DEF ScanDefersOnTask
    <3> QED BY <3>3, <3>4, <3>5, Zenon DEF TypeOK, ScanDefersOnTask, AtInput, Scanning,
                                    workVars, clientVars, engineUnchanged
  \* A scan that goes on to the next input.
  <2>ScanNextInputType.
    ASSUME TypeOK, ScanNextInput PROVE TypeOK'
    <3> USE <2>ScanNextInputType
    <3>1. /\ ScanTop \in ScanRequest /\ ScanRest \in Seq(ScanRequest)
          /\ ScanInput \in Keys
      BY ScanTopTypes, Zenon DEF ScanNextInput, AtInput, Scanning
    <3>2. DemandResult(ScanInput) \in Result
      BY <3>1, DemandTypes, Zenon
    <3>3. /\ state' \in [Keys -> RuleStates]
          /\ wasForced' \in [Keys -> BOOLEAN]
          /\ taskInfos' \subseteq Keys
          /\ readyTaskInfos' \in Seq(Keys)
      BY <3>1, <1>DemandRuleTypes, Zenon DEF ScanNextInput
    <3>4. result' \in [Keys -> Result]
      BY <3>1, <3>2, Zenon DEF TypeOK, ScanNextInput
    <3> DEFINE next == [ScanTop EXCEPT !.inputIndex = @ + 1,
                                       !.needsToRun = @ \/ InputRebuilt]
    <3>5. next \in ScanRequest
      <4>1. \A b \in BOOLEAN :
              [ScanTop EXCEPT !.inputIndex = @ + 1, !.needsToRun = b] \in ScanRequest
        BY Zenon, <3>1, NextScanRequestType
      <4>2. (ScanTop.needsToRun \/ InputRebuilt) \in BOOLEAN
        BY Zenon
      <4> QED BY Zenon, <4>1, <4>2
    <3>6. ruleInfosToScan' \in Seq(ScanRequest)
      <4>1. ruleInfosToScan' = Append(ScanRest, next)
        BY Zenon DEF ScanNextInput
      <4> HIDE DEF next
      <4> QED BY <3>1, <3>5, <4>1
    <3> QED BY Zenon, <3>3, <3>4, <3>6 DEF TypeOK, ScanNextInput, AtInput, Scanning,
                                    workVars, clientVars, engineUnchanged
  \* A scan that ends at a rebuilt input.
  <2>ScanFindsRebuiltInputType.
    ASSUME TypeOK, ScanFindsRebuiltInput PROVE TypeOK'
    <3> USE <2>ScanFindsRebuiltInputType
    <3>1. /\ ScanRest \in Seq(ScanRequest) /\ ScanTop.rule \in Keys
          /\ ScanInput \in Keys
      BY ScanTopTypes, Zenon DEF ScanFindsRebuiltInput, AtInput, Scanning
    <3>2. DemandResult(ScanInput) \in Result /\ ScanForced(ScanInput) \in BOOLEAN
      BY <3>1, DemandTypes, ScanTypes, Zenon
    <3>3. /\ state' \in [Keys -> RuleStates]
          /\ result' \in [Keys -> Result]
          /\ wasForced' \in [Keys -> BOOLEAN]
      BY <3>1, <3>2, Zenon DEF TypeOK, ScanFindsRebuiltInput, RuleStates
    <3>4. /\ ruleInfosToScan' \in Seq(ScanRequest)
          /\ inputRequests' \in Seq(InputRequest)
          /\ deferredScanRequests' \in [Keys -> Seq(ScanRequest)]
          /\ pausedInputRequests' \in [Keys -> Seq(InputRequest)]
      BY <3>1, <1>FinishScanTypes, Zenon DEF ScanFindsRebuiltInput
    <3> QED BY Zenon, <3>3, <3>4 DEF TypeOK, ScanFindsRebuiltInput, AtInput, Scanning,
                              taskVars, workVars, clientVars, engineUnchanged
  \* A scan that has seen every input.
  <2>ScanReachesEndType.
    ASSUME TypeOK, ScanReachesEnd PROVE TypeOK'
    <3> USE <2>ScanReachesEndType
    <3>1. ScanRest \in Seq(ScanRequest) /\ ScanTop.rule \in Keys
      BY ScanTopTypes, Zenon DEF ScanReachesEnd, Scanning
    <3>2. state' \in [Keys -> RuleStates]
      BY <3>1, Zenon DEF TypeOK, ScanReachesEnd, RuleStates
    <3>3. /\ ruleInfosToScan' \in Seq(ScanRequest)
          /\ inputRequests' \in Seq(InputRequest)
          /\ deferredScanRequests' \in [Keys -> Seq(ScanRequest)]
          /\ pausedInputRequests' \in [Keys -> Seq(InputRequest)]
      BY <3>1, <1>FinishScanTypes, Zenon DEF ScanReachesEnd
    <3> QED BY Zenon, <3>2, <3>3 DEF TypeOK, ScanReachesEnd, Scanning, taskVars, workVars,
                              clientVars, engineUnchanged
  <2> QED BY <2>ScanDroppedType, <2>ScanSkipsType, <2>ScanDefersOnScanType, <2>ScanDefersOnTaskType,
       <2>ScanNextInputType, <2>ScanFindsRebuiltInputType, <2>ScanReachesEndType, Zenon
    DEF ProcessRuleScanRequest

\* Every step of the input request loop.
<1>ProcessInputRequestType.
  ASSUME TypeOK, ProcessInputRequest PROVE TypeOK'
  <2> USE <1>ProcessInputRequestType
  \* The results after a dependency has been recorded.
  <2>RecordDependencyType.
    ASSUME NEW results \in [Keys -> Result], Request \in PendingRequest,
           Request.task \in Keys, RequestInput \in Keys
    PROVE  RecordDependency(results) \in [Keys -> Result]
    <3> USE <2>RecordDependencyType
    <3> DEFINE t == Request.task
               d == [key |-> RequestInput, orderOnly |-> Request.orderOnly]
    <3>1. results[t] \in Result /\ d \in Dependency
      BY Zenon DEF PendingRequest, RequestsFrom, Dependency
    <3>2. [results[t] EXCEPT !.singleUse = @ \cup {RequestInput}] \in Result
      BY <3>1, Zenon DEF Result
    <3>3. Append(results[t].dependencies, d) \in Seq(Dependency)
      <4> HIDE DEF d
      <4> QED BY <3>1 DEF Result
    <3>4. [results[t] EXCEPT !.dependencies = Append(@, d)] \in Result
      <4> HIDE DEF d
      <4> QED BY <3>1, <3>3, Zenon DEF Result
    <3> QED BY <3>2, <3>4, Zenon DEF RecordDependency
  \* A request paused until its input has been scanned.
  <2>InputPausesType.
    ASSUME TypeOK, InputPauses PROVE TypeOK'
    <3> USE <2>InputPausesType
    <3>1. /\ Request \in InputRequest /\ RequestInput \in Keys
          /\ Tail(inputRequests) \in Seq(InputRequest)
      BY RequestTypes, Zenon DEF InputPauses, AtRequest
    <3>2. /\ ScanState(RequestInput) \in RuleStates
          /\ ScanResult(RequestInput) \in Result
          /\ ScanForced(RequestInput) \in BOOLEAN
          /\ NewScanRequests(RequestInput) \in Seq(ScanRequest)
      BY <3>1, ScanTypes, Zenon
    <3>3. /\ state' \in [Keys -> RuleStates]
          /\ result' \in [Keys -> Result]
          /\ wasForced' \in [Keys -> BOOLEAN]
      BY <3>1, <3>2, Zenon DEF TypeOK, InputPauses, ScanRule
    <3>4. /\ ruleInfosToScan' \in Seq(ScanRequest)
          /\ pausedInputRequests' \in [Keys -> Seq(InputRequest)]
          /\ inputRequests' \in Seq(InputRequest)
      BY <3>1, <3>2 DEF TypeOK, InputPauses
    <3> QED BY <3>3, <3>4, Zenon DEF TypeOK, InputPauses, AtRequest, taskVars, workVars,
                              clientVars, engineUnchanged
  \* A request that nobody waits for.
  <2>InputIsDummyType.
    ASSUME TypeOK, InputIsDummy PROVE TypeOK'
    <3> USE <2>InputIsDummyType
    <3>1. RequestInput \in Keys /\ Tail(inputRequests) \in Seq(InputRequest)
      BY RequestTypes, Zenon DEF InputIsDummy, AtRequest
    <3>2. /\ DemandResult(RequestInput) \in Result
          /\ StartedRequests(RequestInput) \in Seq(InputRequest)
          /\ StartedTask(RequestInput) \in [Keys -> TaskInfo]
      BY <3>1, DemandTypes, Zenon
    <3>3. /\ state' \in [Keys -> RuleStates]
          /\ wasForced' \in [Keys -> BOOLEAN]
          /\ taskInfos' \subseteq Keys
          /\ readyTaskInfos' \in Seq(Keys)
      BY <3>1, <1>DemandRuleTypes, Zenon DEF InputIsDummy
    <3>4. result' \in [Keys -> Result]
      BY <3>1, <3>2, Zenon DEF TypeOK, InputIsDummy
    <3>5. inputRequests' \in Seq(InputRequest) /\ task' \in [Keys -> TaskInfo]
      BY <3>1, <3>2 DEF InputIsDummy
    <3> QED BY <3>3, <3>4, <3>5, Zenon DEF TypeOK, InputIsDummy, AtRequest, workVars, clientVars,
                              engineUnchanged
  \* A request whose input is up to date.
  <2>InputIsAvailableType.
    ASSUME TypeOK, InputIsAvailable PROVE TypeOK'
    <3> USE <2>InputIsAvailableType
    <3>1. /\ Request \in PendingRequest /\ RequestInput \in Keys /\ Request.task \in Keys
          /\ Tail(inputRequests) \in Seq(InputRequest)
      BY RequestTypes, Zenon DEF InputIsAvailable, AtRequest
    <3>2. DemandResult(RequestInput) \in Result
      BY <3>1, DemandTypes, Zenon
    <3>3. /\ state' \in [Keys -> RuleStates]
          /\ wasForced' \in [Keys -> BOOLEAN]
          /\ taskInfos' \subseteq Keys
          /\ readyTaskInfos' \in Seq(Keys)
      BY <3>1, <1>DemandRuleTypes, Zenon DEF InputIsAvailable
    <3>4. [result EXCEPT ![RequestInput] = DemandResult(RequestInput)] \in [Keys -> Result]
      BY <3>1, <3>2, Zenon DEF TypeOK
    <3>5. result' \in [Keys -> Result]
      BY <3>1, <3>4, <2>RecordDependencyType, Zenon DEF InputIsAvailable
    <3>6. /\ finishedInputRequests' \in Seq(PendingRequest)
          /\ inputRequests' \in Seq(InputRequest)
      BY <3>1 DEF TypeOK, InputIsAvailable
    <3> QED BY Zenon, <3>3, <3>5, <3>6 DEF TypeOK, InputIsAvailable, AtRequest, workVars,
                                    clientVars, engineUnchanged
  \* A request whose input has to be computed.
  <2>InputIsPendingType.
    ASSUME TypeOK, InputIsPending PROVE TypeOK'
    <3> USE <2>InputIsPendingType
    <3>1. /\ Request \in PendingRequest /\ RequestInput \in Keys /\ Request.task \in Keys
          /\ Tail(inputRequests) \in Seq(InputRequest)
      BY RequestTypes, Zenon DEF InputIsPending, AtRequest
    <3>2. /\ DemandResult(RequestInput) \in Result
          /\ StartedRequests(RequestInput) \in Seq(InputRequest)
          /\ StartedTask(RequestInput) \in [Keys -> TaskInfo]
      BY <3>1, DemandTypes, Zenon
    <3>3. /\ state' \in [Keys -> RuleStates]
          /\ wasForced' \in [Keys -> BOOLEAN]
          /\ taskInfos' \subseteq Keys
          /\ readyTaskInfos' \in Seq(Keys)
      BY <3>1, <1>DemandRuleTypes, Zenon DEF InputIsPending
    <3>4. [result EXCEPT ![RequestInput] = DemandResult(RequestInput)] \in [Keys -> Result]
      BY <3>1, <3>2, Zenon DEF TypeOK
    <3>5. result' \in [Keys -> Result]
      BY Zenon, <3>1, <3>4, <2>RecordDependencyType DEF InputIsPending
    <3>6. inputRequests' \in Seq(InputRequest)
      BY <3>1, <3>2 DEF InputIsPending
    <3>7. task' \in [Keys -> TaskInfo]
      BY <3>1, <3>2, <1>TaskAppendTypes, Zenon DEF InputIsPending
    <3> QED BY Zenon, <3>3, <3>5, <3>6, <3>7 DEF TypeOK, InputIsPending, AtRequest, workVars,
                                          clientVars, engineUnchanged
  <2> QED BY <2>InputPausesType, <2>InputIsDummyType, <2>InputIsAvailableType, <2>InputIsPendingType, Zenon
    DEF ProcessInputRequest

\* A value is provided, and the task asks for more.
<1>ProcessFinishedInputType.
  ASSUME TypeOK, ProcessFinishedInput PROVE TypeOK'
  <2> USE <1>ProcessFinishedInputType
  <2> DEFINE request  == Back(finishedInputRequests)
             t        == request.task
             value    == result[request.input].value
             more     == IF request.orderOnly THEN <<>>
                         ELSE AsRequests(t, MoreRequests(t, request.input, value, manifest))
             wait     == WaitCountAfter(t, more)
             provided == IF request.orderOnly THEN task[t].provided
                         ELSE [task[t].provided EXCEPT ![request.input] = value]
  <2>1. /\ request \in PendingRequest
        /\ PopBack(finishedInputRequests) \in Seq(PendingRequest)
    BY BackType, Zenon DEF TypeOK, ProcessFinishedInput
  <2>2. t \in Keys /\ request.input \in Keys
    BY <2>1, Zenon DEF PendingRequest, RequestsFrom
  <2>3. value \in Values \cup {Cancelled, NoValue}
    BY <2>2, Zenon DEF TypeOK, Result, AnyValue
  <2>4. MoreRequests(t, request.input, value, manifest) \in Seq(TaskRequest)
    <3> HIDE DEF t, value, request
    <3> QED BY <2>2, <2>3, ClientAssumption, Zenon DEF TypeOK
  <2>5. more \in Seq(InputRequest)
    BY <2>2, <2>4, AsRequestsType
  <2>6. task[t] \in TaskInfo
    BY <2>2, Zenon DEF TypeOK
  <2>7. wait \in Int
    <3> HIDE DEF more, t
    <3> QED BY <2>5, <2>6 DEF TaskInfo, WaitCountAfter
  <2>8. provided \in Provided
    <3> HIDE DEF t, value, request
    <3> QED BY <2>2, <2>3, <2>6, Zenon DEF TaskInfo, Provided
  <2>9. task' \in [Keys -> TaskInfo]
    <3>1. task' = [task EXCEPT ![t].waitCount = wait, ![t].provided = provided]
      BY Zenon DEF ProcessFinishedInput
    <3> HIDE DEF t, wait, provided
    <3>2. [task[t] EXCEPT !.waitCount = wait, !.provided = provided] \in TaskInfo
      BY Zenon, <2>6, <2>7, <2>8 DEF TaskInfo
    <3> QED BY <2>2, <3>1, <3>2, Zenon DEF TypeOK
  <2>10. inputRequests' \in Seq(InputRequest)
    <3>1. inputRequests' = inputRequests \o more
      BY Zenon DEF ProcessFinishedInput
    <3> HIDE DEF more
    <3> QED BY <2>5, <3>1, SMTT(60) DEF TypeOK
  <2>11. readyTaskInfos' \in Seq(Keys)
    <3>1. readyTaskInfos' = IF BecomesReady(wait) THEN Append(readyTaskInfos, t)
                            ELSE readyTaskInfos
      BY Zenon DEF ProcessFinishedInput
    <3> HIDE DEF t, wait
    <3> QED BY <2>2, <3>1 DEF TypeOK
  <2>12. finishedInputRequests' \in Seq(PendingRequest)
    BY <2>1, Zenon DEF ProcessFinishedInput
  <2> QED BY Zenon, <2>9, <2>10, <2>11, <2>12 DEF TypeOK, ProcessFinishedInput, ruleVars,
                                           workVars, clientVars, engineUnchanged

\* A task starts computing.
<1>ProcessReadyTaskType.
  ASSUME TypeOK, ProcessReadyTask PROVE TypeOK'
  <2> USE <1>ProcessReadyTaskType
  <2>1. Head(readyTaskInfos) \in Keys /\ Tail(readyTaskInfos) \in Seq(Keys)
    BY DEF TypeOK, ProcessReadyTask
  <2>2. /\ state' \in [Keys -> RuleStates]
        /\ worker' \in [Keys -> WorkerStates]
        /\ numOutstanding' \in Int
    <3>1. /\ state \in [Keys -> RuleStates] /\ worker \in [Keys -> WorkerStates]
          /\ numOutstanding \in Int
      BY Zenon DEF TypeOK
    <3>2. "InProgressComputing" \in RuleStates /\ "running" \in WorkerStates
      BY Zenon DEF RuleStates, WorkerStates
    <3> QED
      BY <2>1, <3>1, <3>2 DEF ProcessReadyTask
  <2> QED BY Zenon, <2>1, <2>2 DEF TypeOK, ProcessReadyTask, taskVars, clientVars

\* What a finished task leaves, stored or not.
<1>CompleteRuleTypes.
  ASSUME TypeOK, NEW k \in Keys, finishedTaskInfos # <<>>, CompleteRule(k)
  PROVE  /\ state' \in [Keys -> RuleStates]
         /\ result' \in [Keys -> Result]
         /\ inputRequests' \in Seq(InputRequest)
         /\ finishedTaskInfos' \in Seq(Keys)
         /\ numOutstanding' \in Int
  <2> USE <1>CompleteRuleTypes
  <2> DEFINE discovered == task[k].discovered
  <2>1. discovered \in Seq(Dependency)
    BY Zenon DEF TypeOK, TaskInfo
  <2>2. result[k] \in Result /\ currentEpoch \in Nat
    BY Zenon DEF TypeOK
  <2>3. result[k].dependencies \o discovered \in Seq(Dependency)
    <3> HIDE DEF discovered
    <3> QED BY <2>1, <2>2 DEF Result
  <2>4. result' \in [Keys -> Result]
    <3>1. result' = [result EXCEPT ![k] = CompletedResult(k)]
      BY Zenon DEF CompleteRule
    <3>2. CompletedResult(k) = [result[k] EXCEPT !.builtAt = currentEpoch,
                                                 !.dependencies = @ \o discovered]
      BY Zenon DEF CompletedResult
    <3> HIDE DEF discovered
    <3>3. CompletedResult(k) \in Result
      BY Zenon, <2>2, <2>3, <3>2 DEF Result
    <3> QED BY <3>1, <3>3, Zenon DEF TypeOK
  <2>5. inputRequests' \in Seq(InputRequest)
    <3>1. [n \in DOMAIN discovered |-> DummyRequest(discovered[n].key)] \in Seq(InputRequest)
      BY <2>1, DummyRequestsType, Zenon
    <3> QED BY <3>1, SMTT(60) DEF TypeOK, CompleteRule
  <2>6. finishedTaskInfos' \in Seq(Keys)
    BY BackType, Zenon DEF TypeOK, CompleteRule
  <2>7. state' \in [Keys -> RuleStates]
    BY Zenon DEF TypeOK, CompleteRule, RuleStates
  <2>8. numOutstanding' \in Int
    BY DEF TypeOK, CompleteRule
  <2> QED BY <2>4, <2>5, <2>6, <2>7, <2>8

\* A finished task whose result is stored.
<1>ProcessFinishedTaskType.
  ASSUME TypeOK, ProcessFinishedTask PROVE TypeOK'
  <2> USE <1>ProcessFinishedTaskType
  <2> DEFINE k == Back(finishedTaskInfos)
  <2>1. k \in Keys
    BY BackType, Zenon DEF TypeOK, ProcessFinishedTask
  <2>2. CompleteRule(k) /\ finishedTaskInfos # <<>>
    BY Zenon DEF ProcessFinishedTask
  <2>3. /\ state' \in [Keys -> RuleStates]
        /\ result' \in [Keys -> Result]
        /\ inputRequests' \in Seq(InputRequest)
        /\ finishedTaskInfos' \in Seq(Keys)
        /\ numOutstanding' \in Int
    BY <2>1, <2>2, <1>CompleteRuleTypes, Zenon
  <2>4. /\ task[k].deferredScans \in Seq(ScanRequest)
        /\ task[k].requestedBy \in Seq(PendingRequest)
    <3> HIDE DEF k
    <3> QED BY <2>1, Zenon DEF TypeOK, TaskInfo
  <2>5. tx' \in Database
    <3>1. tx' = [tx EXCEPT !.results[k] = result'[k]]
      BY Zenon DEF ProcessFinishedTask
    <3>2. result'[k] \in Result /\ tx \in Database
      BY <2>1, <2>3, Zenon DEF TypeOK
    <3> HIDE DEF k
    <3>3. [tx.results EXCEPT ![k] = result'[k]] \in [Keys -> Result]
      BY <2>1, <3>2, Zenon DEF Database
    <3> QED BY <3>1, <3>2, <3>3, Zenon DEF Database
  <2>6. /\ ruleInfosToScan' \in Seq(ScanRequest)
        /\ finishedInputRequests' \in Seq(PendingRequest)
    <3>1. /\ ruleInfosToScan' = ruleInfosToScan \o task[k].deferredScans
          /\ finishedInputRequests' = finishedInputRequests \o task[k].requestedBy
      BY Zenon DEF ProcessFinishedTask
    <3> QED BY <2>4, <3>1, SMTT(60) DEF TypeOK
  <2>7. taskInfos' \subseteq Keys /\ task' \in [Keys -> TaskInfo]
    <3>1. /\ taskInfos' = taskInfos \ {k}
          /\ task' = [task EXCEPT ![k] = NewTask]
      BY Zenon DEF ProcessFinishedTask
    <3> QED BY <2>1, <3>1, NewTaskType, Zenon DEF TypeOK
  <2> QED BY Zenon, <2>3, <2>5, <2>6, <2>7 DEF TypeOK, ProcessFinishedTask, clientVars

\* Using up one of a bounded number of failures.
<1>FaultType.
  ASSUME TypeOK, budget.faults > 0, budget' = [budget EXCEPT !.faults = @ - 1]
  PROVE  budget' \in [cancels : Nat, restarts : Nat, faults : Nat]
  <2> USE <1>FaultType
  <2>1. budget.faults - 1 \in Nat
    <3>1. budget.faults \in Nat
      BY Zenon DEF TypeOK
    <3> QED BY <3>1, <1>OneLess, Zenon
  <2> QED BY Zenon, <2>1 DEF TypeOK

\* A finished task whose result the database does not accept.
<1>FinishedTaskNotStoredType.
  ASSUME TypeOK, FinishedTaskNotStored PROVE TypeOK'
  <2> USE <1>FinishedTaskNotStoredType
  <2>1. Back(finishedTaskInfos) \in Keys
    BY BackType, Zenon DEF TypeOK, FinishedTaskNotStored
  <2>2. /\ state' \in [Keys -> RuleStates]
        /\ result' \in [Keys -> Result]
        /\ inputRequests' \in Seq(InputRequest)
        /\ finishedTaskInfos' \in Seq(Keys)
        /\ numOutstanding' \in Int
    BY <2>1, <1>CompleteRuleTypes, Zenon DEF FinishedTaskNotStored
  <2>3. budget' \in [cancels : Nat, restarts : Nat, faults : Nat]
    BY <1>FaultType, Zenon DEF FinishedTaskNotStored
  <2>4. pc' \in PCs
    BY Zenon DEF FinishedTaskNotStored, PCs
  <2> QED BY <2>2, <2>3, <2>4, Zenon DEF TypeOK, FinishedTaskNotStored, taskVars

\* The steps of the loop that only move from one queue to the next.
<1>LoopType.
  ASSUME TypeOK, StartTurn \/ NextQueue \/ EndTurn \/ WaitForTask \/ SpuriousWakeup
  PROVE  TypeOK'
  <2> USE <1>LoopType
  <2>1. pc' \in PCs /\ didWork' \in BOOLEAN
    BY Zenon DEF TypeOK, PCs, StartTurn, NextQueue, EndTurn, WaitForTask, SpuriousWakeup
  <2>2. UNCHANGED loopUnchanged
    BY Zenon DEF StartTurn, NextQueue, EndTurn, WaitForTask, SpuriousWakeup
  <2> QED BY <2>1, <2>2, Zenon DEF TypeOK, loopUnchanged, ruleVars, queueVars, taskVars,
                            workVars, clientVars

\* A build that has nothing left to do.
<1>BuildIsDoneType.
  ASSUME TypeOK, BuildIsDone PROVE TypeOK'
  <2> USE <1>BuildIsDoneType
  <2>1. pc' \in PCs
    BY Zenon DEF BuildIsDone, PCs
  <2>2. success' \in BOOLEAN
    BY Zenon DEF BuildIsDone, IsComplete
  <2> QED BY <2>1, <2>2, Zenon DEF TypeOK, BuildIsDone, ruleVars, queueVars, taskVars,
                            workVars, clientVars

\* Every outcome of a stuck build.
<1>ResolveOrReportCycleType.
  ASSUME TypeOK, ResolveOrReportCycle PROVE TypeOK'
  <2> USE <1>ResolveOrReportCycleType
  \* A cycle broken by forcing a rule to run.
  <2>CycleForcesRuleType.
    ASSUME TypeOK, CycleForcesRule PROVE TypeOK'
    <3> USE <2>CycleForcesRuleType
    <3>1. PICK list \in CycleWalks : \E j \in DOMAIN list :
            /\ FinishScanRequest(list[j], ruleInfosToScan)
            /\ state' = [state EXCEPT ![list[j]] = "NeedsToRun"]
            /\ wasForced' = [wasForced EXCEPT ![list[j]] = TRUE]
      BY Zenon DEF CycleForcesRule
    <3>2. PICK j \in DOMAIN list :
            /\ FinishScanRequest(list[j], ruleInfosToScan)
            /\ state' = [state EXCEPT ![list[j]] = "NeedsToRun"]
            /\ wasForced' = [wasForced EXCEPT ![list[j]] = TRUE]
      BY Zenon, <3>1
    <3>3. list[j] \in Keys
      BY CycleListType, Zenon
    <3>4. state' \in [Keys -> RuleStates] /\ wasForced' \in [Keys -> BOOLEAN]
      BY <3>2, <3>3, Zenon DEF TypeOK, RuleStates
    <3>5. ruleInfosToScan \in Seq(ScanRequest)
      BY Zenon DEF TypeOK
    <3>6. /\ ruleInfosToScan' \in Seq(ScanRequest)
          /\ inputRequests' \in Seq(InputRequest)
          /\ deferredScanRequests' \in [Keys -> Seq(ScanRequest)]
          /\ pausedInputRequests' \in [Keys -> Seq(InputRequest)]
      BY <3>2, <3>3, <3>5, <1>FinishScanTypes, Zenon
    <3>7. pc' \in PCs
      BY Zenon DEF CycleForcesRule, PCs
    <3> QED BY Zenon, <3>4, <3>6, <3>7 DEF TypeOK, CycleForcesRule, taskVars, workVars,
                                    clientVars
  \* A cycle broken by supplying a prior value.
  <2>CycleSuppliesPriorValueType.
    ASSUME TypeOK, CycleSuppliesPriorValue PROVE TypeOK'
    <3> USE <2>CycleSuppliesPriorValueType
    \* Erasing an element.
    <3>EraseType.
      ASSUME NEW S, NEW s \in Seq(S), NEW i \in DOMAIN s
      PROVE  Erase(s, i) \in Seq(S)
      <4> USE <3>EraseType
      <4>1. SubSeq(s, 1, i - 1) \in Seq(S)
        OBVIOUS
      <4>2. SubSeq(s, i + 1, Len(s)) \in Seq(S)
        OBVIOUS
      <4> QED BY <4>1, <4>2 DEF Erase
    <3>1. PICK k \in Keys : \E at \in DOMAIN task[k].requestedBy :
            /\ finishedInputRequests' =
                 Append(finishedInputRequests,
                        [task[k].requestedBy[at] EXCEPT !.forcePriorValue = TRUE])
            /\ task' = [task EXCEPT ![k].requestedBy = Erase(@, at)]
      BY CycleListType, ZenonT(60) DEF CycleSuppliesPriorValue
    <3>2. PICK at \in DOMAIN task[k].requestedBy :
            /\ finishedInputRequests' =
                 Append(finishedInputRequests,
                        [task[k].requestedBy[at] EXCEPT !.forcePriorValue = TRUE])
            /\ task' = [task EXCEPT ![k].requestedBy = Erase(@, at)]
      BY Zenon, <3>1
    <3>3. task[k] \in TaskInfo /\ task[k].requestedBy \in Seq(PendingRequest)
      BY Zenon DEF TypeOK, TaskInfo
    <3>4. [task[k].requestedBy[at] EXCEPT !.forcePriorValue = TRUE] \in PendingRequest
      <4>1. task[k].requestedBy[at] \in PendingRequest
        BY <3>3
      <4> QED BY <4>1, Zenon DEF PendingRequest, RequestsFrom
    <3>5. finishedInputRequests' \in Seq(PendingRequest)
      BY <3>2, <3>4 DEF TypeOK
    <3>6. Erase(task[k].requestedBy, at) \in Seq(PendingRequest)
      BY <3>3, <3>EraseType, Zenon
    <3>7. [task[k] EXCEPT !.requestedBy = Erase(@, at)] \in TaskInfo
      BY Zenon, <3>3, <3>6 DEF TaskInfo
    <3>8. task' \in [Keys -> TaskInfo]
      BY <3>2, <3>7, Zenon DEF TypeOK
    <3>9. pc' \in PCs
      BY Zenon DEF CycleSuppliesPriorValue, PCs
    <3> QED BY Zenon, <3>5, <3>8, <3>9 DEF TypeOK, CycleSuppliesPriorValue, ruleVars,
                                    workVars, clientVars
  <2>1. ASSUME CycleIsReported \/ CycleReadsPastEnd PROVE TypeOK'
    <3>1. pc' \in PCs
      BY Zenon, <2>1 DEF CycleIsReported, CycleReadsPastEnd, PCs
    <3> QED BY Zenon, <2>1, <3>1 DEF TypeOK, CycleIsReported, CycleReadsPastEnd, ruleVars,
                              queueVars, taskVars, workVars, clientVars
  <2> QED BY <2>1, <2>CycleForcesRuleType, <2>CycleSuppliesPriorValueType, Zenon
          DEF ResolveOrReportCycle

\* The wait for the tasks that are computing when a build is given up.
<1>DrainTasksType.
  ASSUME TypeOK, DrainTasks PROVE TypeOK'
  <2> USE <1>DrainTasksType
  <2>1. pc' \in PCs
    BY Zenon DEF TypeOK, DrainTasks, PCs
  <2>2. finishedTaskInfos' \in Seq(Keys)
    <3>1. CASE finishedTaskInfos = <<>>
      BY <3>1, Zenon DEF TypeOK, DrainTasks
    <3>2. CASE finishedTaskInfos # <<>>
      <4>1. finishedTaskInfos' = <<>>
        BY <3>2, Zenon DEF DrainTasks
      <4> QED BY <4>1
    <3> QED BY <3>1, <3>2, Zenon
  <2>3. numOutstanding' \in Int
    <3>1. Len(finishedTaskInfos) \in Nat /\ numOutstanding \in Int
      BY DEF TypeOK
    <3> QED BY <3>1 DEF DrainTasks
  <2> QED BY <2>1, <2>2, <2>3, Zenon DEF TypeOK, DrainTasks, ruleVars, queueVars, taskVars,
                            clientVars

\* A build given up: tasks, scans and queues dropped.
<1>CancelRemainingTasksType.
  ASSUME TypeOK, CancelRemainingTasks PROVE TypeOK'
  <2> USE <1>CancelRemainingTasksType
  <2>1. state' \in [Keys -> RuleStates]
    <3>1. \A k \in Keys : state[k] \in RuleStates /\ "Incomplete" \in RuleStates
      BY Zenon DEF TypeOK, RuleStates
    <3> QED BY <3>1, Zenon DEF CancelRemainingTasks
  <2>2. pc' \in PCs
    BY Zenon DEF CancelRemainingTasks, PCs
  <2> QED BY Zenon, <2>1, <2>2, EmptyTypes DEF TypeOK, CancelRemainingTasks, clientVars

\* A thread reports the value of a task and what it discovered.
<1>TaskIsCompleteType.
  ASSUME TypeOK, NEW k \in Keys, TaskIsComplete(k) PROVE TypeOK'
  <2> USE <1>TaskIsCompleteType
  <2> DEFINE keys == Discovers(k, world)
             deps == [n \in DOMAIN keys |-> [key |-> keys[n], orderOnly |-> FALSE]]
  <2>1. keys \in Seq(Keys)
    BY ClientAssumption, Zenon DEF TypeOK
  <2>2. deps \in Seq(Dependency)
    <3> HIDE DEF keys
    <3>1. Len(keys) \in Nat /\ DOMAIN keys = 1 .. Len(keys)
      BY <2>1
    <3>2. \A n \in 1 .. Len(keys) : keys[n] \in Keys
      BY <2>1
    <3>3. deps \in [1 .. Len(keys) -> Dependency]
      BY <3>1, <3>2, Zenon DEF Dependency
    <3> QED BY <3>1, <3>3, SequenceOf, Zenon
  <2>3. task' \in [Keys -> TaskInfo]
    <3>1. task' = [task EXCEPT ![k].discovered = deps]
      BY Zenon DEF TaskIsComplete
    <3>2. task[k] \in TaskInfo
      BY Zenon DEF TypeOK
    <3> HIDE DEF deps
    <3>3. [task[k] EXCEPT !.discovered = deps] \in TaskInfo
      BY <2>2, <3>2, Zenon DEF TaskInfo
    <3> QED BY <3>1, <3>3, Zenon DEF TypeOK
  <2>4. Compute(k, task[k].provided, manifest, world) \in Values \cup {Cancelled}
    <3>1. task[k].provided \in Provided
      BY Zenon DEF TypeOK, TaskInfo
    <3> QED BY <3>1, ClientAssumption, Zenon DEF TypeOK
  <2>5. PICK value \in Values \cup {Cancelled} :
          result' = [result EXCEPT
                       ![k].signature = Signature(k, manifest),
                       ![k].value = value,
                       ![k].computedAt = IF value = result[k].value /\ ~ForceChange(k)
                                         THEN @ ELSE currentEpoch]
    BY Zenon, <2>4 DEF TaskIsComplete
  <2>6. result' \in [Keys -> Result]
    <3>1. Signature(k, manifest) \in Signatures /\ value \in AnyValue
      <4>1. manifest \in Manifests /\ value \in AnyValue
        BY <2>5, Zenon DEF TypeOK, AnyValue
      <4>2. Signature(k, manifest) \in Signatures
        BY ONLY k \in Keys, <4>1, SMT DEF Signatures
      <4> QED BY <4>1, <4>2, Zenon
    <3>2. result[k] \in Result /\ currentEpoch \in Nat
      BY Zenon DEF TypeOK
    <3>3. PICK epoch \in Nat :
            result' = [result EXCEPT ![k].signature = Signature(k, manifest),
                                     ![k].value = value, ![k].computedAt = epoch]
      BY Zenon, <2>5, <3>2 DEF Result
    <3>4. [result[k] EXCEPT !.signature = Signature(k, manifest), !.value = value,
                            !.computedAt = epoch] \in Result
      BY Zenon, <3>1, <3>2 DEF Result
    <3> QED BY <3>3, <3>4, Zenon DEF TypeOK
  <2>7. worker' \in [Keys -> WorkerStates]
    BY SMTT(60) DEF TypeOK, TaskIsComplete, WorkerStates
  <2> QED BY <2>3, <2>6, <2>7, Zenon DEF TypeOK, TaskIsComplete, workerUnchanged, queueVars,
                                  clientVars

\* Every step of a thread that computes.
<1>WorkerStepType.
  ASSUME TypeOK, NEW k \in Keys, WorkerStep(k) PROVE TypeOK'
  <2> USE <1>WorkerStepType
  <2>1. CASE TaskIsComplete(k)
    BY <2>1, <1>TaskIsCompleteType, Zenon
  <2>2. CASE EnqueueFinishedTask(k)
    <3>1. worker' \in [Keys -> WorkerStates] /\ finishedTaskInfos' \in Seq(Keys)
      BY <2>2 DEF TypeOK, EnqueueFinishedTask, WorkerStates
    <3> QED BY <2>2, <3>1, Zenon DEF TypeOK, EnqueueFinishedTask, workerUnchanged, queueVars,
                              clientVars
  <2>3. CASE NotifyEngine(k)
    <3>1. worker' \in [Keys -> WorkerStates]
      BY <2>3, Zenon DEF TypeOK, NotifyEngine, WorkerStates
    <3>2. pc' \in PCs
      BY <2>3, Zenon DEF TypeOK, NotifyEngine, PCs
    <3> QED BY <2>3, <3>1, <3>2, Zenon DEF TypeOK, NotifyEngine, workerUnchanged, queueVars,
                                    clientVars
  <2> QED BY <2>1, <2>2, <2>3, Zenon DEF WorkerStep

\* build() starts a build.
<1>BuildStartsType.
  ASSUME TypeOK, BuildStarts PROVE TypeOK'
  <2> USE <1>BuildStartsType
  <2>1. buildKey' \in Keys
    BY BoundsAssumption, Zenon DEF BuildStarts
  <2>2. DummyRequest(buildKey') \in InputRequest
    BY <2>1, Zenon DEF DummyRequest, InputRequest, RequestsFrom
  <2>3. inputRequests' \in Seq(InputRequest) /\ finishedInputRequests' \in Seq(PendingRequest)
    <3>1. inputRequests \in Seq(InputRequest)
      BY Zenon DEF TypeOK
    <3>2. inputRequests' = Append(inputRequests, DummyRequest(buildKey'))
      BY Zenon DEF BuildStarts
    <3>3. finishedInputRequests' = <<>>
      BY Zenon DEF BuildStarts
    <3> QED BY <2>2, <3>1, <3>2, <3>3
  <2>4. currentEpoch' \in Nat /\ pc' \in PCs
    BY DEF TypeOK, BuildStarts, PCs
  <2> QED BY <2>1, <2>3, <2>4, Zenon DEF TypeOK, BuildStarts, ruleVars, taskVars, workVars

\* A build that returns at once, and the two calls that only set the flag.
<1>ClientCallsType.
  ASSUME TypeOK,
         BuildIsRefused \/ BuildIsNotStarted \/ CancelBuild \/ ResetForBuild
  PROVE  TypeOK'
  <2> USE <1>ClientCallsType
  <2>1. CASE BuildIsRefused
    BY Zenon, <2>1, BoundsAssumption
    DEF TypeOK, BuildIsRefused, ruleVars, queueVars, taskVars, workVars
  <2>2. CASE BuildIsNotStarted
    <3>1. budget' \in [cancels : Nat, restarts : Nat, faults : Nat]
      BY <2>2, <1>FaultType, Zenon DEF BuildIsNotStarted
    <3> QED BY <2>2, <3>1, BoundsAssumption, Zenon
            DEF TypeOK, BuildIsNotStarted, ruleVars, queueVars, taskVars, workVars
  <2>3. CASE CancelBuild
    <3>1. budget' \in [cancels : Nat, restarts : Nat, faults : Nat]
      <4>1. budget.cancels - 1 \in Nat
        <5>1. budget.cancels \in Nat /\ budget.cancels > 0
          BY <2>3, Zenon DEF TypeOK, CancelBuild
        <5> QED BY <5>1, <1>OneLess, Zenon
      <4> QED BY <2>3, <4>1, Zenon DEF TypeOK, CancelBuild
    <3> QED BY <2>3, <3>1, Zenon DEF TypeOK, CancelBuild, ruleVars, queueVars, taskVars, workVars
  <2>4. CASE ResetForBuild
    BY Zenon, <2>4 DEF TypeOK, ResetForBuild, ruleVars, queueVars, taskVars, workVars, clientVars
  <2> QED BY <2>1, <2>2, <2>3, <2>4, Zenon

\* build() ends, with or without the iteration stored.
<1>BuildEndsType.
  ASSUME TypeOK, BuildEnds \/ BuildEndsIterationNotStored PROVE TypeOK'
  <2> USE <1>BuildEndsType
  <2>1. pc' \in PCs /\ outcome' \in {"none", "success", "empty"}
    BY Zenon DEF BuildEnds, BuildEndsIterationNotStored, PCs
  <2>2. tx \in Database /\ currentEpoch \in Nat
    BY Zenon DEF TypeOK
  <2>3. [tx EXCEPT !.iteration = currentEpoch] \in Database
    BY <2>2, Zenon DEF Database
  <2>4. db' \in Database
    BY <2>2, <2>3, Zenon DEF BuildEnds, BuildEndsIterationNotStored, Committed
  <2>5. budget' \in [cancels : Nat, restarts : Nat, faults : Nat]
    BY Zenon, <1>FaultType DEF TypeOK, BuildEnds, BuildEndsIterationNotStored
  <2> QED BY <2>1, <2>4, <2>5, ZenonT(60) DEF TypeOK, BuildEnds, BuildEndsIterationNotStored,
                                  ruleVars, queueVars, taskVars, workVars

\* A new process starts from the committed database.
<1>RestartType.
  ASSUME TypeOK, Restart PROVE TypeOK'
  <2> USE <1>RestartType
  <2>1. state' \in [Keys -> RuleStates] /\ wasForced' \in [Keys -> BOOLEAN]
    BY Zenon DEF Restart, RuleStates
  <2>2. worker' \in [Keys -> WorkerStates]
    BY Zenon DEF Restart, WorkerStates
  <2>3. pc' \in PCs /\ numOutstanding' \in Int
    BY DEF Restart, PCs
  <2>4. result' \in [Keys -> Result] /\ currentEpoch' \in Nat
    BY Zenon DEF TypeOK, Restart, Database
  <2>5. budget' \in [cancels : Nat, restarts : Nat, faults : Nat]
    <3>1. budget.restarts - 1 \in Nat
      <4>1. budget.restarts \in Nat /\ budget.restarts > 0
        BY Zenon DEF TypeOK, Restart
      <4> QED BY <4>1, <1>OneLess, Zenon
    <3> QED BY <3>1, Zenon DEF TypeOK, Restart
  <2> QED BY <2>1, <2>2, <2>3, <2>4, <2>5, EmptyTypes, Zenon DEF TypeOK, Restart
<1>1. ASSUME EngineStep PROVE TypeOK'
  BY <1>1, <1>LoopType, <1>BuildIsDoneType, <1>ProcessRuleScanRequestType,
     <1>ProcessInputRequestType, <1>ProcessFinishedInputType, <1>ProcessReadyTaskType,
     <1>ProcessFinishedTaskType, <1>FinishedTaskNotStoredType, <1>ResolveOrReportCycleType,
     <1>DrainTasksType, <1>CancelRemainingTasksType, <1>BuildEndsType, Zenon
  DEF EngineStep
<1>2. ASSUME NEW k \in Keys, WorkerStep(k) PROVE TypeOK'
  BY <1>2, <1>WorkerStepType, Zenon
<1>3. ASSUME ClientStep PROVE TypeOK'
  BY <1>3, <1>BuildStartsType, <1>ClientCallsType, <1>RestartType, Zenon DEF ClientStep
<1>4. ASSUME SpuriousWakeup PROVE TypeOK'
  BY <1>4, <1>LoopType, Zenon
<1>5. ASSUME UNCHANGED vars PROVE TypeOK'
  BY <1>5, Zenon DEF TypeOK, vars, ruleVars, queueVars, taskVars, workVars, clientVars
<1> QED BY <1>1, <1>2, <1>3, <1>4, <1>5, Zenon DEF Next, Rest

\* Every state of the engine is well typed, for every build graph and every
\* bound: in particular a request that is answered names a task (a dummy request
\* is never provided a value), through cycles, cancellations and restarts.
THEOREM TypeCorrect == Spec => []TypeOK
<1>1. Init => TypeOK
  BY InitType, Zenon
<1>2. TypeOK /\ [Next]_vars => TypeOK'
  BY NextType, Zenon
<1> QED BY <1>1, <1>2, PTL DEF Spec

-----------------------------------------------------------------------------
(***************************************************************************)
(* No epoch is ahead of the clock it is compared with, for any client, any *)
(* number of builds, cancellations and crashes.                            *)
(*                                                                         *)
(* EpochsAreBounded is inductive once it is known that the budget of       *)
(* database faults never grows back to MaxFaults.                          *)
(***************************************************************************)
FaultsAreSpent == budget.faults <= MaxFaults

EpochInvariant == TypeOK /\ FaultsAreSpent /\ EpochsAreBounded

ResultUpTo(r, epoch) == r.builtAt <= epoch /\ r.computedAt <= epoch

\* Recording a dependency leaves the epochs of every result alone.
LEMMA RecordUpTo ==
  ASSUME TypeOK, AtRequest, Request.task # NoKey,
         NEW results \in [Keys -> Result], NEW epoch, ResultsUpTo(results, epoch)
  PROVE  ResultsUpTo(RecordDependency(results), epoch)
<1>1. Request.task \in Keys
  BY RequestTypes, Zenon DEF AtRequest
<1>2. results[Request.task] \in Result
  BY <1>1, Zenon
<1>3. CASE Request.singleUse
  BY <1>1, <1>2, <1>3, Zenon DEF ResultsUpTo, RecordDependency, Result
<1>4. CASE ~Request.singleUse
  BY <1>1, <1>2, <1>4, Zenon DEF ResultsUpTo, RecordDependency, Result
<1> QED BY <1>3, <1>4, Zenon

\* Steps that touch no result, no epoch and no database.
EpochVars == <<result, tx, db, currentEpoch, budget>>

\* Faults are spent, never gained.
LEMMA FaultsStep ==
  ASSUME TypeOK, FaultsAreSpent, [Next]_vars PROVE FaultsAreSpent'
<1>1. \/ UNCHANGED budget
      \/ budget' = [budget EXCEPT !.faults = @ - 1] /\ budget.faults > 0
      \/ budget' = [budget EXCEPT !.cancels = @ - 1]
      \/ budget' = [budget EXCEPT !.restarts = @ - 1]
  <2>1. ASSUME EngineStep
        PROVE  \/ UNCHANGED budget
               \/ budget' = [budget EXCEPT !.faults = @ - 1] /\ budget.faults > 0
    BY <2>1, Zenon DEF EngineStep, StartTurn, NextQueue, EndTurn, WaitForTask, BuildIsDone,
      ProcessRuleScanRequest, ScanDropped, ScanSkips, ScanDefersOnScan,
      ScanDefersOnTask, ScanNextInput, ScanFindsRebuiltInput, ScanReachesEnd,
      ProcessInputRequest, InputPauses, InputIsDummy, InputIsAvailable,
      InputIsPending, ProcessFinishedInput, ProcessReadyTask, ProcessFinishedTask,
      FinishedTaskNotStored, ResolveOrReportCycle, CycleForcesRule,
      CycleSuppliesPriorValue, CycleIsReported, CycleReadsPastEnd, DrainTasks,
      CancelRemainingTasks, BuildEnds, BuildEndsIterationNotStored, loopUnchanged,
      engineUnchanged, clientVars
  <2>2. ASSUME NEW k \in Keys, WorkerStep(k) PROVE UNCHANGED budget
    BY <2>2, Zenon DEF WorkerStep, TaskIsComplete, EnqueueFinishedTask, NotifyEngine,
                workerUnchanged, clientVars
  <2>3. ASSUME SpuriousWakeup \/ UNCHANGED vars PROVE UNCHANGED budget
    BY <2>3, Zenon DEF SpuriousWakeup, loopUnchanged, vars, clientVars
  <2>4. ASSUME ClientStep PROVE <1>1!1 \/ <1>1!2 \/ <1>1!3 \/ <1>1!4
    BY <2>4, Zenon DEF ClientStep, BuildStarts, BuildIsRefused, BuildIsNotStarted,
                CancelBuild, ResetForBuild, Restart, clientVars
  <2> QED BY <2>1, <2>2, <2>3, <2>4, Zenon DEF Next, Rest
<1>2. budget \in [cancels : Nat, restarts : Nat, faults : Nat]
  BY Zenon DEF TypeOK
<1>3. budget'.faults \in {budget.faults, budget.faults - 1}
  BY <1>1, <1>2, Zenon
<1>4. budget.faults \in Nat /\ MaxFaults \in Nat
  BY <1>2, BoundsAssumption, Zenon
<1> QED BY <1>3, <1>4 DEF FaultsAreSpent

\* Every step of the engine, of its threads and of its client keeps the epochs
\* bounded.
LEMMA EpochStep ==
  ASSUME EpochInvariant, [Next]_vars PROVE EpochsAreBounded'

\* The epochs a result is given by scanRule and demandRule are not in the future.
<1>DemandUpTo.
  ASSUME TypeOK, NEW k \in Keys, ResultUpTo(result[k], currentEpoch)
  PROVE  /\ ResultUpTo(ScanResult(k), currentEpoch)
         /\ ResultUpTo(DemandResult(k), currentEpoch)
  <2> USE <1>DemandUpTo
  <2>1. result[k] \in Result /\ currentEpoch \in Nat
    BY Zenon DEF TypeOK
  <2>2. ResultUpTo(ScanResult(k), currentEpoch)
    BY <2>1, Zenon DEF ScanResult, Result, ResultUpTo
  <2>3. ScanResult(k) \in Result
    BY ScanTypes, Zenon
  <2>4. ResultUpTo(DemandResult(k), currentEpoch)
    BY <2>1, <2>2, <2>3 DEF DemandResult, Result, ResultUpTo
  <2> QED BY <2>2, <2>4, Zenon

\* Replacing one result by one that is not from the future.
<1>ReplaceUpTo.
  ASSUME NEW results \in [Keys -> Result], NEW epoch, NEW k \in Keys, NEW r,
         ResultsUpTo(results, epoch), ResultUpTo(r, epoch)
  PROVE  ResultsUpTo([results EXCEPT ![k] = r], epoch)
    BY <1>ReplaceUpTo, Zenon DEF ResultsUpTo, ResultUpTo

\* A step that changes neither results nor clocks keeps the epochs bounded.
<1>UnchangedEpochs.
  ASSUME EpochsAreBounded, UNCHANGED EpochVars PROVE EpochsAreBounded'
    BY <1>UnchangedEpochs, Zenon DEF EpochsAreBounded, ResultsUpTo, EpochVars

\* A step of the engine or of a thread that changes results in memory only.
<1>ResultsOnly.
  ASSUME EpochsAreBounded, UNCHANGED <<tx, db, currentEpoch, budget>>,
         ResultsUpTo(result, currentEpoch) => ResultsUpTo(result', currentEpoch)
  PROVE  EpochsAreBounded'
    BY <1>ResultsOnly, Zenon DEF EpochsAreBounded, ResultsUpTo

\* The scan loop gives an input at most the epoch of this build.
<1>ScanEpochs.
  ASSUME TypeOK, EpochsAreBounded, ProcessRuleScanRequest PROVE EpochsAreBounded'
  <2> USE <1>ScanEpochs
  <2>1. CASE ScanDropped \/ ScanSkips \/ ScanReachesEnd
    <3>1. UNCHANGED EpochVars
      BY <2>1, Zenon DEF ScanDropped, ScanSkips, ScanReachesEnd, engineUnchanged, ruleVars,
                  clientVars, EpochVars
    <3> QED BY <3>1, <1>UnchangedEpochs, Zenon
  <2>2. CASE ScanDefersOnScan \/ ScanDefersOnTask \/ ScanNextInput \/ ScanFindsRebuiltInput
    <3>1. ScanInput \in Keys
      BY <2>2, ScanTopTypes, Zenon DEF ScanDefersOnScan, ScanDefersOnTask, ScanNextInput,
                                ScanFindsRebuiltInput, AtInput, Scanning
    <3>2. UNCHANGED <<tx, db, currentEpoch, budget>>
      BY <2>2, Zenon DEF ScanDefersOnScan, ScanDefersOnTask, ScanNextInput,
                  ScanFindsRebuiltInput, engineUnchanged, clientVars
    <3>3. \/ result' = [result EXCEPT ![ScanInput] = ScanResult(ScanInput)]
          \/ result' = [result EXCEPT ![ScanInput] = DemandResult(ScanInput)]
      BY <2>2, Zenon DEF ScanDefersOnScan, ScanDefersOnTask, ScanNextInput,
                  ScanFindsRebuiltInput, ScanRule
    <3>4. ASSUME ResultsUpTo(result, currentEpoch)
          PROVE  ResultsUpTo(result', currentEpoch)
      <4>1. ResultUpTo(result[ScanInput], currentEpoch)
        BY <3>1, <3>4, Zenon DEF ResultsUpTo, ResultUpTo
      <4>2. /\ ResultUpTo(ScanResult(ScanInput), currentEpoch)
            /\ ResultUpTo(DemandResult(ScanInput), currentEpoch)
        BY <3>1, <4>1, <1>DemandUpTo, Zenon
      <4>3. result \in [Keys -> Result]
        BY Zenon DEF TypeOK
      <4> QED BY <3>1, <3>3, <3>4, <4>2, <4>3, <1>ReplaceUpTo
    <3> QED BY <3>2, <3>4, <1>ResultsOnly, Zenon
  <2> QED BY <2>1, <2>2, Zenon DEF ProcessRuleScanRequest

\* The input request loop gives an input at most the epoch of this build.
<1>InputEpochs.
  ASSUME TypeOK, EpochsAreBounded, ProcessInputRequest PROVE EpochsAreBounded'
  <2> USE <1>InputEpochs
  <2> DEFINE demanded == [result EXCEPT ![RequestInput] = DemandResult(RequestInput)]
  <2>1. RequestInput \in Keys /\ AtRequest
    BY RequestTypes, Zenon DEF ProcessInputRequest, InputPauses, InputIsDummy, InputIsAvailable,
                        InputIsPending, AtRequest
  <2>2. UNCHANGED <<tx, db, currentEpoch, budget>>
    BY Zenon DEF ProcessInputRequest, InputPauses, InputIsDummy, InputIsAvailable,
           InputIsPending, engineUnchanged, clientVars
  <2>3. ASSUME ResultsUpTo(result, currentEpoch)
        PROVE  ResultsUpTo(result', currentEpoch)
    <3>1. ResultUpTo(result[RequestInput], currentEpoch)
      BY <2>1, <2>3, Zenon DEF ResultsUpTo, ResultUpTo
    <3>2. /\ ResultUpTo(ScanResult(RequestInput), currentEpoch)
          /\ ResultUpTo(DemandResult(RequestInput), currentEpoch)
      BY <2>1, <3>1, <1>DemandUpTo, Zenon
    <3>3. result \in [Keys -> Result]
      BY Zenon DEF TypeOK
    <3>4. demanded \in [Keys -> Result] /\ ResultsUpTo(demanded, currentEpoch)
      <4>1. DemandResult(RequestInput) \in Result
        BY <2>1, DemandTypes, Zenon
      <4> QED BY <2>1, <2>3, <3>2, <3>3, <4>1, <1>ReplaceUpTo, Zenon
    <3>5. CASE InputPauses
      <4>1. result' = [result EXCEPT ![RequestInput] = ScanResult(RequestInput)]
        BY <3>5, Zenon DEF InputPauses, ScanRule
      <4> QED BY <2>1, <2>3, <3>2, <3>3, <4>1, <1>ReplaceUpTo, Zenon
    <3>6. CASE InputIsDummy
      BY <3>4, <3>6, Zenon DEF InputIsDummy
    <3>7. CASE InputIsAvailable \/ InputIsPending
      <4>1. result' = RecordDependency(demanded) /\ Request.task # NoKey
        BY <3>7, Zenon DEF InputIsAvailable, InputIsPending
      <4> HIDE DEF demanded
      <4> QED BY <2>1, <3>4, <4>1, RecordUpTo, Zenon
    <3> QED BY <3>5, <3>6, <3>7, Zenon DEF ProcessInputRequest
  <2> QED BY <2>2, <2>3, <1>ResultsOnly, Zenon

\* A finished task is built now, in memory and in the open transaction.
<1>FinishedTaskEpochs.
  ASSUME TypeOK, EpochsAreBounded, ProcessFinishedTask PROVE EpochsAreBounded'
  <2> USE <1>FinishedTaskEpochs
  <2> DEFINE k == Back(finishedTaskInfos)
  <2>1. k \in Keys
    BY BackType, Zenon DEF TypeOK, ProcessFinishedTask
  <2>2. CompleteRule(k) /\ tx' = [tx EXCEPT !.results[k] = result'[k]]
    BY Zenon DEF ProcessFinishedTask
  <2>3. UNCHANGED <<db, currentEpoch, budget>>
    BY Zenon DEF ProcessFinishedTask, clientVars
  <2> HIDE DEF k
  <2>4. ASSUME ResultsUpTo(result, currentEpoch)
        PROVE  ResultsUpTo(result', currentEpoch) /\ ResultUpTo(result'[k], currentEpoch)
    <3>1. result \in [Keys -> Result] /\ currentEpoch \in Nat
      BY Zenon DEF TypeOK
    <3>2. result' = [result EXCEPT ![k] = CompletedResult(k)]
      BY <2>2, Zenon DEF CompleteRule
    <3>3. /\ result'[k].builtAt = currentEpoch
          /\ result'[k].computedAt = result[k].computedAt
      BY <2>1, <3>1, <3>2 DEF Result, CompletedResult
    <3>4. \A i \in Keys \ {k} : result'[i] = result[i]
      BY <2>1, <3>1, <3>2, Zenon
    <3> QED BY <2>1, <2>4, <3>1, <3>3, <3>4 DEF ResultsUpTo, ResultUpTo
  <2>5. ASSUME ResultsUpTo(tx.results, currentEpoch), ResultUpTo(result'[k], currentEpoch)
        PROVE  ResultsUpTo(tx'.results, currentEpoch)
    <3>1. tx.results \in [Keys -> Result] /\ tx \in Database
      BY Zenon DEF TypeOK, Database
    <3>2. tx'.results = [tx.results EXCEPT ![k] = result'[k]]
      BY <2>2, <3>1, Zenon DEF Database
    <3> QED BY <2>1, <2>5, <3>1, <3>2, <1>ReplaceUpTo
  <2> QED BY <2>3, <2>4, <2>5, Zenon DEF EpochsAreBounded, ResultsUpTo

\* A thread reports: the result is computed now, or was not changed.
<1>ReportEpochs.
  ASSUME TypeOK, EpochsAreBounded, NEW k \in Keys, TaskIsComplete(k)
  PROVE  EpochsAreBounded'
  <2> USE <1>ReportEpochs
  <2>1. UNCHANGED <<tx, db, currentEpoch, budget>>
    BY Zenon DEF TaskIsComplete, workerUnchanged, clientVars
  <2>2. PICK value, epoch :
          /\ epoch \in {result[k].computedAt, currentEpoch}
          /\ result' = [result EXCEPT ![k].signature = Signature(k, manifest),
                                      ![k].value = value, ![k].computedAt = epoch]
    BY Zenon DEF TaskIsComplete
  <2>3. ASSUME ResultsUpTo(result, currentEpoch)
        PROVE  ResultsUpTo(result', currentEpoch)
    <3>1. result \in [Keys -> Result] /\ currentEpoch \in Nat
      BY Zenon DEF TypeOK
    <3>2. result'[k].builtAt = result[k].builtAt /\ result'[k].computedAt = epoch
      BY <2>2, <3>1 DEF Result
    <3>3. \A i \in Keys \ {k} : result'[i] = result[i]
      BY <2>2, <3>1, Zenon
    <3> QED BY <2>2, <2>3, <3>1, <3>2, <3>3 DEF ResultsUpTo
  <2> QED BY <2>1, <2>3, <1>ResultsOnly, Zenon

\* A step on which a database operation fails ends the claim.
<1>FaultEpochs.
  ASSUME TypeOK, FaultsAreSpent, budget.faults > 0,
         budget' = [budget EXCEPT !.faults = @ - 1]
  PROVE  EpochsAreBounded' /\ FaultsAreSpent'
  <2> USE <1>FaultEpochs
  <2>1. budget'.faults = budget.faults - 1 /\ budget.faults \in Nat
    BY Zenon DEF TypeOK
  <2>2. MaxFaults \in Nat
    BY BoundsAssumption, Zenon
  <2> QED BY <2>1, <2>2 DEF FaultsAreSpent, EpochsAreBounded

\* build() starts: the clock advances, the transaction opens on what is committed.
<1>BuildStartsEpochs.
  ASSUME TypeOK, EpochsAreBounded, BuildStarts PROVE EpochsAreBounded'
  <2> USE <1>BuildStartsEpochs
  <2>1. /\ UNCHANGED <<result, db, budget>>
        /\ tx' = db /\ currentEpoch' = currentEpoch + 1
    BY Zenon DEF BuildStarts, ruleVars
  <2>2. /\ currentEpoch \in Nat /\ db.iteration \in Nat
        /\ \A k \in Keys : /\ result[k].builtAt \in Nat /\ result[k].computedAt \in Nat
                           /\ db.results[k].builtAt \in Nat
                           /\ db.results[k].computedAt \in Nat
    BY Zenon DEF TypeOK, Database, Result
  <2> QED BY <2>1, <2>2 DEF EpochsAreBounded, ResultsUpTo

\* build() ends: the transaction is committed with the clock of the build.
<1>BuildEndsEpochs.
  ASSUME TypeOK, EpochsAreBounded, BuildEnds PROVE EpochsAreBounded'
  <2> USE <1>BuildEndsEpochs
  <2>1. /\ UNCHANGED <<result, tx, currentEpoch, budget>>
        /\ db' = [tx EXCEPT !.iteration = currentEpoch]
    BY Zenon DEF BuildEnds, Committed, ruleVars
  <2>2. tx \in Database /\ currentEpoch \in Nat
    BY Zenon DEF TypeOK
  <2>3. db'.results = tx.results /\ db'.iteration = currentEpoch
    BY <2>1, <2>2, Zenon DEF Database
  <2> QED BY <2>1, <2>2, <2>3 DEF EpochsAreBounded, ResultsUpTo

\* A new process takes results and clock from the same commit.
<1>RestartEpochs.
  ASSUME TypeOK, EpochsAreBounded, Restart PROVE EpochsAreBounded'
  <2> USE <1>RestartEpochs
  <2>1. /\ result' = db.results /\ tx' = db /\ currentEpoch' = db.iteration
        /\ UNCHANGED db
        /\ budget' = [budget EXCEPT !.restarts = @ - 1]
    BY Zenon DEF Restart
  <2>2. budget'.faults = budget.faults
    BY <2>1, Zenon DEF TypeOK
  <2>3. db.iteration \in Nat
    BY Zenon DEF TypeOK, Database
  <2> QED BY <2>1, <2>2, <2>3 DEF EpochsAreBounded, ResultsUpTo
<1> USE DEF EpochInvariant
<1>1. ASSUME EngineStep PROVE EpochsAreBounded'
  <2>1. CASE ProcessRuleScanRequest
    BY <2>1, <1>ScanEpochs, Zenon
  <2>2. CASE ProcessInputRequest
    BY <2>2, <1>InputEpochs, Zenon
  <2>3. CASE ProcessFinishedTask
    BY <2>3, <1>FinishedTaskEpochs, Zenon
  <2>4. CASE FinishedTaskNotStored \/ BuildEndsIterationNotStored
    BY <2>4, <1>FaultEpochs, Zenon DEF FinishedTaskNotStored, BuildEndsIterationNotStored
  <2>5. CASE BuildEnds
    BY <2>5, <1>BuildEndsEpochs, Zenon
  <2>6. CASE StartTurn \/ NextQueue \/ EndTurn \/ WaitForTask \/ BuildIsDone
    <3>1. UNCHANGED EpochVars
      BY <2>6, Zenon DEF StartTurn, NextQueue, EndTurn, WaitForTask, BuildIsDone,
                  loopUnchanged, ruleVars, clientVars, EpochVars
    <3> QED BY <3>1, <1>UnchangedEpochs, Zenon
  <2>7. CASE ProcessFinishedInput \/ ProcessReadyTask
    <3>1. UNCHANGED EpochVars
      BY <2>7, Zenon DEF ProcessFinishedInput, ProcessReadyTask, engineUnchanged, ruleVars,
                  clientVars, EpochVars
    <3> QED BY <3>1, <1>UnchangedEpochs, Zenon
  <2>8. CASE ResolveOrReportCycle
    <3>1. UNCHANGED EpochVars
      BY <2>8, Zenon DEF ResolveOrReportCycle, CycleForcesRule, CycleSuppliesPriorValue,
                  CycleIsReported, CycleReadsPastEnd, ruleVars, clientVars, EpochVars
    <3> QED BY <3>1, <1>UnchangedEpochs, Zenon
  <2>9. CASE DrainTasks \/ CancelRemainingTasks
    <3>1. UNCHANGED EpochVars
      BY <2>9, Zenon DEF DrainTasks, CancelRemainingTasks, ruleVars, clientVars, EpochVars
    <3> QED BY <3>1, <1>UnchangedEpochs, Zenon
  <2> QED BY <1>1, <2>1, <2>2, <2>3, <2>4, <2>5, <2>6, <2>7, <2>8, <2>9, Zenon DEF EngineStep
<1>2. ASSUME NEW k \in Keys, WorkerStep(k) PROVE EpochsAreBounded'
  <2>1. CASE TaskIsComplete(k)
    BY <2>1, <1>ReportEpochs, Zenon
  <2>2. CASE EnqueueFinishedTask(k) \/ NotifyEngine(k)
    <3>1. UNCHANGED EpochVars
      BY <2>2, Zenon DEF EnqueueFinishedTask, NotifyEngine, workerUnchanged, clientVars,
                  EpochVars
    <3> QED BY <3>1, <1>UnchangedEpochs, Zenon
  <2> QED BY <1>2, <2>1, <2>2, Zenon DEF WorkerStep
<1>3. ASSUME ClientStep PROVE EpochsAreBounded'
  <2>1. CASE BuildStarts
    BY <2>1, <1>BuildStartsEpochs, Zenon
  <2>2. CASE BuildIsNotStarted
    BY <2>2, <1>FaultEpochs, Zenon DEF BuildIsNotStarted
  <2>3. CASE BuildIsRefused \/ ResetForBuild
    <3>1. UNCHANGED EpochVars
      BY <2>3, Zenon DEF BuildIsRefused, ResetForBuild, ruleVars, clientVars, EpochVars
    <3> QED BY <3>1, <1>UnchangedEpochs, Zenon
  <2>4. CASE CancelBuild
    <3>1. budget'.faults = budget.faults /\ UNCHANGED <<result, tx, db, currentEpoch>>
      BY <2>4, Zenon DEF TypeOK, CancelBuild, ruleVars
    <3> QED BY <3>1, Zenon DEF EpochsAreBounded, ResultsUpTo
  <2>5. CASE Restart
    BY <2>5, <1>RestartEpochs, Zenon
  <2> QED BY <1>3, <2>1, <2>2, <2>3, <2>4, <2>5, Zenon DEF ClientStep
<1>4. ASSUME SpuriousWakeup \/ UNCHANGED vars PROVE EpochsAreBounded'
  <2>1. UNCHANGED EpochVars
    BY <1>4, Zenon DEF SpuriousWakeup, loopUnchanged, vars, ruleVars, clientVars, EpochVars
  <2> QED BY <2>1, <1>UnchangedEpochs, Zenon
<1> QED BY <1>1, <1>2, <1>3, <1>4, Zenon DEF Next, Rest

\* The inductive invariant holds in every state.
LEMMA EpochInvariantHolds == Spec => []EpochInvariant
<1>1. Init => EpochInvariant
  <2>1. ASSUME Init PROVE EpochsAreBounded /\ FaultsAreSpent
    <3>1. /\ \A k \in Keys : result[k].builtAt = 0 /\ result[k].computedAt = 0
          /\ \A k \in Keys : db.results[k].builtAt = 0 /\ db.results[k].computedAt = 0
          /\ tx = db /\ db.iteration = 0 /\ currentEpoch = 0
          /\ budget.faults = MaxFaults
      BY <2>1, Zenon DEF Init, NoResult
    <3>2. MaxFaults \in Nat
      BY BoundsAssumption, Zenon
    <3> QED BY <3>1, <3>2 DEF EpochsAreBounded, ResultsUpTo, FaultsAreSpent
  <2> QED BY <2>1, InitType, Zenon DEF EpochInvariant
<1>2. EpochInvariant /\ [Next]_vars => EpochInvariant'
  BY NextType, FaultsStep, EpochStep, Zenon DEF EpochInvariant
<1> QED BY <1>1, <1>2, PTL DEF Spec

\* As long as no database operation fails, no result, in memory, in the open
\* transaction or committed, is from a later build than the clock it is compared
\* with, whatever build is interrupted, cancelled or killed: the comparison of
\* builtAt with the computedAt of an input can be trusted.
THEOREM EpochBound == Spec => []EpochsAreBounded
<1>1. EpochInvariant => EpochsAreBounded
  BY Zenon DEF EpochInvariant
<1> QED BY <1>1, EpochInvariantHolds, PTL

-----------------------------------------------------------------------------
(***************************************************************************)
(* The state of the loop                                                   *)
(***************************************************************************)

\* A leaf of the proofs below that names no prover is left to Zenon.
USE Zenon

Draining == {"drain", "drainWaiting"}
IsReady(k) == state[k] = "InProgressWaiting" /\ task[k].waitCount = 0

\* A task that is not in progress is a new one; one that computes waits for nothing,
\* and only such a one has a thread.  (A task whose result was not stored is left in
\* taskInfos for cancelRemainingTasks.)
Live ==
  \A k \in Keys :
    /\ InProgress(k) => k \in taskInfos
    /\ k \in taskInfos => InProgress(k) \/ pc \in {"drain", "drainWaiting"}
    /\ k \notin taskInfos => task[k] = NewTask
    /\ state[k] # "InProgressWaiting" => task[k].waitCount = 0

Computing(k) == worker[k] \in {"running", "reported"}

\* The threads, and the tasks they have queued.
Threads ==
  /\ \A k \in Keys : Computing(k) => state[k] = "InProgressComputing"
  /\ \A n \in DOMAIN finishedTaskInfos :
       /\ state[finishedTaskInfos[n]] = "InProgressComputing"
       /\ ~Computing(finishedTaskInfos[n])
       /\ \A m \in DOMAIN finishedTaskInfos :
            finishedTaskInfos[m] = finishedTaskInfos[n] => m = n

\* What a turn of the loop that has not done anything has found empty, and what is
\* over when a build is.
Turn ==
  /\ ~didWork =>
       /\ pc \in {"input", "provide", "ready", "finish", "wait"} => ruleInfosToScan = <<>>
       /\ pc \in {"provide", "ready", "finish", "wait"} => inputRequests = <<>>
       /\ pc \in {"ready", "finish", "wait"} => finishedInputRequests = <<>>
       /\ pc \in {"finish", "wait"} => readyTaskInfos = <<>>
  /\ pc \in {"teardown", "idle"} =>
       /\ taskInfos = {} /\ numOutstanding = 0
       /\ ruleInfosToScan = <<>> /\ inputRequests = <<>>
  /\ pc = "idle" => \A k \in Keys : worker[k] = "none"

\* What the steps rely on: the tasks and the threads are as they should be, and so is
\* the task that is next to start computing.
Sound ==
  /\ Live /\ Threads
  /\ readyTaskInfos # <<>> => IsReady(Head(readyTaskInfos))

\* The task that starts computing is ready.
LEMMA NextIsReady ==
  ASSUME TypeOK, Sound, ProcessReadyTask
  PROVE  Head(readyTaskInfos) \in Keys /\ IsReady(Head(readyTaskInfos))
<1>1. readyTaskInfos \in Seq(Keys) /\ readyTaskInfos # <<>>
  BY DEF TypeOK, ProcessReadyTask
<1>2. Head(readyTaskInfos) \in Keys
  BY ONLY <1>1, SMT
<1> QED BY <1>1, <1>2 DEF Sound

\* What demandRule leaves of the state of a rule that has been scanned.
LEMMA DemandIs ==
  ASSUME TypeOK, NEW k \in Keys, ScanState(k) # "IsScanning"
  PROVE  /\ Starts(k) => DemandState(k) = "InProgressWaiting" /\ ~InProgress(k)
         /\ ~Starts(k) => \/ DemandState(k) = state[k]
                          \/ DemandState(k) = "Complete" /\ ~InProgress(k)
         /\ Available(k) => ~Starts(k)
         /\ ~Starts(k) /\ ~Available(k) => InProgress(k) /\ DemandState(k) = state[k]
<1>1. state[k] \in RuleStates
  BY DEF TypeOK
<1>2. CASE StartsScan(k)
  <2>1. ScanState(k) \in {"NeedsToRun", "DoesNotNeedToRun", "IsScanning"}
    BY <1>2 DEF ScanState
  <2>2. ~InProgress(k)
    BY <1>2 DEF StartsScan, IsScanned, InProgress
  <2> QED BY <2>1, <2>2 DEF Starts, DemandState, Available
<1>3. CASE ~StartsScan(k)
  <2>1. ScanState(k) = state[k]
    BY <1>3 DEF ScanState
  <2>2. state[k] # "Incomplete"
    BY <1>3 DEF StartsScan, IsScanned, IsScanning
  <2>3. state[k] \in {"NeedsToRun", "DoesNotNeedToRun", "InProgressWaiting",
                      "InProgressComputing", "Complete"}
    BY <1>1, <2>1, <2>2 DEF RuleStates
  <2>4. DemandState(k) = CASE state[k] = "DoesNotNeedToRun" -> "Complete"
                           [] state[k] = "NeedsToRun"       -> "InProgressWaiting"
                           [] OTHER                         -> state[k]
    BY <2>1 DEF DemandState
  <2> QED BY <2>1, <2>3, <2>4 DEF Starts, Available, InProgress
<1> QED BY <1>2, <1>3

\* What a started task leaves of the tasks.
LEMMA StartedIs ==
  ASSUME TypeOK, Live, pc \notin Draining, NEW k \in Keys, ScanState(k) # "IsScanning"
  PROVE  /\ \A j \in Keys : /\ StartedTask(k)[j].requestedBy = task[j].requestedBy
                            /\ StartedTask(k)[j].deferredScans = task[j].deferredScans
                            /\ j # k => StartedTask(k)[j] = task[j]
         /\ ~Starts(k) => StartedTask(k) = task /\ StartedRequests(k) = <<>>
         /\ Starts(k) => /\ k \notin taskInfos /\ task[k].waitCount = 0
                         /\ StartedTask(k)[k].waitCount = Len(StartedRequests(k))
<1>1. CASE ~Starts(k)
  <2>1. StartedTask(k) = task /\ StartedRequests(k) = <<>>
    BY <1>1 DEF StartedTask, StartedRequests
  <2> QED BY <1>1, <2>1
<1>2. CASE Starts(k)
  <2>1. k \notin taskInfos
    BY <1>2, DemandIs DEF Live, Draining
  <2>2. task[k] = NewTask
    BY <2>1 DEF Live
  <2>3. PICK n : n = Len(StartedRequests(k))
    OBVIOUS
  <2>4. StartedTask(k) = [task EXCEPT ![k] = [NewTask EXCEPT !.waitCount = n]]
    BY <1>2, <2>3 DEF StartedTask
  <2>5. /\ [NewTask EXCEPT !.waitCount = n].waitCount = n
        /\ [NewTask EXCEPT !.waitCount = n].requestedBy = NewTask.requestedBy
        /\ [NewTask EXCEPT !.waitCount = n].deferredScans = NewTask.deferredScans
        /\ NewTask.waitCount = 0
    BY DEF NewTask
  <2>6. /\ StartedTask(k)[k] = [NewTask EXCEPT !.waitCount = n]
        /\ \A j \in Keys : j # k => StartedTask(k)[j] = task[j]
    BY <2>4 DEF TypeOK
  <2> QED BY <1>2, <2>1, <2>2, <2>3, <2>5, <2>6
<1> QED BY <1>1, <1>2

\* The states scanRule may leave to a scan request, or finds available.
LEMMA NotInProgress ==
  ASSUME TypeOK, NEW k \in Keys
  PROVE  /\ ScanState(k) = "IsScanning" => ~InProgress(k)
         /\ Available(k) => ~InProgress(k) /\ ScanState(k) # "IsScanning"
         /\ IsScanning(k) => ~InProgress(k)
<1>1. IsScanning(k) => ~InProgress(k)
  BY DEF IsScanning, InProgress
<1>2. ScanState(k) = "IsScanning" => ~InProgress(k)
  <2>1. StartsScan(k) => ~InProgress(k)
    BY DEF StartsScan, IsScanned, InProgress
  <2> QED BY <2>1 DEF ScanState, InProgress
<1>3. Available(k) => ScanState(k) # "IsScanning"
  BY DEF Available, DemandState
<1>4. Available(k) => ~InProgress(k)
  <2>1. Available(k) => ~Starts(k) /\ (~Starts(k) => DemandState(k) = state[k] \/ ~InProgress(k))
    BY <1>3, DemandIs
  <2> QED BY <2>1 DEF Available, InProgress
<1> QED BY <1>1, <1>2, <1>3, <1>4

\* A step that leaves the threads, and the rules they compute, as they are.
Undisturbed ==
  /\ \A k \in Keys : state[k] = "InProgressComputing" => state'[k] = state[k]
  /\ UNCHANGED <<worker, finishedTaskInfos, numOutstanding>>

\* The finished tasks are a list of rules.
LEMMA FinishedTypes ==
  ASSUME TypeOK
  PROVE  /\ finishedTaskInfos \in Seq(Keys) /\ Len(finishedTaskInfos) \in Nat
         /\ \A n \in DOMAIN finishedTaskInfos : finishedTaskInfos[n] \in Keys
<1>1. finishedTaskInfos \in Seq(Keys)
  BY DEF TypeOK
<1> QED BY ONLY <1>1, SMT

\* The steps that leave the threads and the rules they compute alone keep both.
LEMMA UndisturbedThreads ==
  ASSUME TypeOK, Threads, OutstandingIsExact, Undisturbed
  PROVE  Threads' /\ OutstandingIsExact'
<1>1. OutstandingIsExact'
  BY DEF OutstandingIsExact, Undisturbed
<1>2. \A n \in DOMAIN finishedTaskInfos : finishedTaskInfos[n] \in Keys
  BY FinishedTypes
<1>3. /\ worker' = worker /\ finishedTaskInfos' = finishedTaskInfos
      /\ \A k \in Keys : Computing(k)' <=> Computing(k)
  BY DEF Undisturbed, Computing
<1>4. \A k \in Keys : Computing(k)' => state'[k] = "InProgressComputing"
  BY <1>3 DEF Threads, Undisturbed
<1>5. \A n \in DOMAIN finishedTaskInfos :
        /\ state'[finishedTaskInfos[n]] = "InProgressComputing"
        /\ ~Computing(finishedTaskInfos[n])'
        /\ \A m \in DOMAIN finishedTaskInfos :
             finishedTaskInfos[m] = finishedTaskInfos[n] => m = n
  <2> TAKE n \in DOMAIN finishedTaskInfos
  <2>1. /\ state[finishedTaskInfos[n]] = "InProgressComputing"
        /\ ~Computing(finishedTaskInfos[n])
        /\ \A m \in DOMAIN finishedTaskInfos :
             finishedTaskInfos[m] = finishedTaskInfos[n] => m = n
    BY DEF Threads
  <2>2. state'[finishedTaskInfos[n]] = "InProgressComputing"
    BY <1>2, <2>1 DEF Undisturbed
  <2> QED BY <1>3, <2>1, <2>2 DEF Computing
<1>6. Threads'
  BY <1>3, <1>4, <1>5 DEF Threads, Computing
<1> QED BY <1>1, <1>6

\* Neither the scan nor the input request loop touches a rule that is computing.
LEMMA LoopsAreUndisturbing ==
  ASSUME TypeOK, ProcessRuleScanRequest \/ ProcessInputRequest
  PROVE  Undisturbed
<1>1. UNCHANGED <<worker, finishedTaskInfos, numOutstanding>>
  BY DEF ProcessRuleScanRequest, ProcessInputRequest, ScanDropped, ScanSkips,
     ScanDefersOnScan, ScanDefersOnTask, ScanNextInput, ScanFindsRebuiltInput, ScanReachesEnd,
     InputPauses, InputIsDummy, InputIsAvailable, InputIsPending, engineUnchanged, workVars
<1>2. ASSUME NEW i \in Keys, NEW k \in Keys, state[k] = "InProgressComputing"
      PROVE  /\ ScanRule(i) => state'[k] = state[k]
             /\ ScanState(i) # "IsScanning" /\ DemandRule(i) => state'[k] = state[k]
  <2>1. InProgress(k) /\ state \in [Keys -> RuleStates]
    BY <1>2 DEF InProgress, TypeOK
  <2>2. i = k => ScanState(i) = state[i]
    BY <1>2 DEF ScanState, StartsScan, IsScanned
  <2>3. i = k /\ ScanState(i) # "IsScanning" => DemandState(i) = state[i]
    BY <2>1, DemandIs
  <2> QED BY <2>1, <2>2, <2>3 DEF ScanRule, DemandRule
<1>3. ASSUME NEW k \in Keys, state[k] = "InProgressComputing"
      PROVE  state'[k] = state[k]
  <2>1. CASE ScanDropped \/ ScanSkips
    BY <2>1 DEF ScanDropped, ScanSkips, ruleVars
  <2>2. CASE ProcessInputRequest
    <3>1. RequestInput \in Keys
      BY <2>2, RequestTypes DEF ProcessInputRequest, InputPauses, InputIsDummy,
         InputIsAvailable, InputIsPending, AtRequest
    <3> QED BY <1>2, <1>3, <2>2, <3>1 DEF ProcessInputRequest, InputPauses, InputIsDummy,
         InputIsAvailable, InputIsPending
  <2>3. ASSUME Scanning PROVE ScanTop.rule \in Keys /\ (ScanTop.inputIndex <= Len(ScanDeps) => ScanInput \in Keys)
    BY <2>3, ScanTopTypes DEF Scanning
  <2>4. CASE ScanDefersOnScan \/ ScanDefersOnTask
    <3>1. ScanInput \in Keys
      BY <2>3, <2>4 DEF ScanDefersOnScan, ScanDefersOnTask, AtInput
    <3> QED BY <1>2, <1>3, <2>4, <3>1 DEF ScanDefersOnScan, ScanDefersOnTask
  <2>5. CASE ScanNextInput
    <3>1. ScanInput \in Keys
      BY <2>3, <2>5 DEF ScanNextInput, AtInput
    <3>2. ScanState(ScanInput) # "IsScanning"
      BY <2>5, <3>1, NotInProgress DEF ScanNextInput
    <3> QED BY <1>2, <1>3, <2>5, <3>1, <3>2 DEF ScanNextInput
  <2>6. CASE ScanFindsRebuiltInput
    <3>1. ScanInput \in Keys /\ ScanTop.rule \in Keys
      BY <2>3, <2>6 DEF ScanFindsRebuiltInput, AtInput
    <3>2. ScanInput # k /\ ScanTop.rule # k
      <4>1. InProgress(k)
        BY <1>3 DEF InProgress
      <4> QED BY <2>6, <3>1, <4>1, NotInProgress DEF ScanFindsRebuiltInput, AtInput
    <3>3. PICK one : one = [state EXCEPT ![ScanInput] = "Complete"]
      OBVIOUS
    <3>4. state' = [one EXCEPT ![ScanTop.rule] = "NeedsToRun"]
      BY <2>6, <3>3 DEF ScanFindsRebuiltInput
    <3>5. DOMAIN one = Keys /\ one[k] = state[k]
      BY <3>2, <3>3 DEF TypeOK
    <3> QED BY <3>2, <3>4, <3>5
  <2>7. CASE ScanReachesEnd
    <3>1. ScanTop.rule # k
      BY <1>3, <2>7 DEF ScanReachesEnd, IsScanning
    <3> QED BY <2>7, <3>1 DEF ScanReachesEnd, TypeOK
  <2> QED BY <2>1, <2>2, <2>4, <2>5, <2>6, <2>7 DEF ProcessRuleScanRequest
<1> QED BY <1>1, <1>3 DEF Undisturbed

\* Nor do the steps that neither start nor finish a task.
LEMMA OthersAreUndisturbing ==
  ASSUME TypeOK,
         \/ ProcessFinishedInput \/ ResolveOrReportCycle
         \/ StartTurn \/ NextQueue \/ EndTurn \/ WaitForTask \/ BuildIsDone
         \/ BuildEnds \/ BuildEndsIterationNotStored
         \/ BuildStarts \/ BuildIsRefused \/ BuildIsNotStarted \/ CancelBuild \/ ResetForBuild
         \/ SpuriousWakeup \/ UNCHANGED vars
  PROVE  Undisturbed
<1>1. CASE CycleForcesRule
  <2>1. PICK i \in Keys : IsScanning(i) /\ state' = [state EXCEPT ![i] = "NeedsToRun"]
    BY <1>1, CycleListType DEF CycleForcesRule
  <2>2. UNCHANGED <<worker, finishedTaskInfos, numOutstanding>>
    BY <1>1 DEF CycleForcesRule, workVars
  <2> QED BY <2>1, <2>2 DEF Undisturbed, IsScanning, TypeOK
<1>2. CASE CycleSuppliesPriorValue \/ CycleIsReported \/ CycleReadsPastEnd
  BY <1>2 DEF CycleSuppliesPriorValue, CycleIsReported, CycleReadsPastEnd, ruleVars,
     workVars, Undisturbed
<1>3. CASE ProcessFinishedInput
  BY <1>3 DEF ProcessFinishedInput, ruleVars, workVars, engineUnchanged, Undisturbed
<1>4. CASE StartTurn \/ NextQueue \/ EndTurn \/ WaitForTask \/ SpuriousWakeup
  BY <1>4 DEF StartTurn, NextQueue, EndTurn, WaitForTask, SpuriousWakeup,
     loopUnchanged, ruleVars, workVars, Undisturbed
<1>5. CASE BuildIsDone \/ BuildEnds \/ BuildEndsIterationNotStored \/ BuildStarts
  BY <1>5 DEF BuildIsDone, BuildEnds, BuildEndsIterationNotStored, BuildStarts,
     ruleVars, workVars, Undisturbed
<1>6. CASE BuildIsRefused \/ BuildIsNotStarted \/ CancelBuild \/ ResetForBuild \/ UNCHANGED vars
  BY <1>6 DEF BuildIsRefused, BuildIsNotStarted, CancelBuild, ResetForBuild, vars,
     ruleVars, workVars, Undisturbed
<1> QED BY <1>1, <1>2, <1>3, <1>4, <1>5, <1>6 DEF ResolveOrReportCycle

-----------------------------------------------------------------------------
(***************************************************************************)
(* What a turn has found empty                                             *)
(***************************************************************************)

\* The steps of the five queues.
LEMMA WorkTurn ==
  ASSUME \/ ProcessRuleScanRequest \/ ProcessInputRequest \/ ProcessFinishedInput
         \/ ProcessReadyTask \/ ProcessFinishedTask \/ FinishedTaskNotStored
  PROVE  didWork' = TRUE /\ pc' \in {"scan", "input", "provide", "ready", "finish", "drain"}
<1>1. CASE ProcessRuleScanRequest
  <2>1. didWork' = TRUE /\ pc' = pc /\ pc = "scan"
    BY <1>1 DEF ProcessRuleScanRequest, ScanDropped, ScanSkips, ScanDefersOnScan,
       ScanDefersOnTask, ScanNextInput, ScanFindsRebuiltInput, ScanReachesEnd, AtInput, Scanning,
       engineUnchanged
  <2> QED BY <2>1
<1>2. CASE ProcessInputRequest
  <2>1. didWork' = TRUE /\ pc' = pc /\ pc = "input"
    BY <1>2 DEF ProcessInputRequest, InputPauses, InputIsDummy, InputIsAvailable,
       InputIsPending, AtRequest, engineUnchanged
  <2> QED BY <2>1
<1>3. CASE ProcessFinishedInput
  <2>1. didWork' = TRUE /\ pc' = pc /\ pc = "provide"
    BY <1>3 DEF ProcessFinishedInput, engineUnchanged
  <2> QED BY <2>1
<1>4. CASE ProcessReadyTask \/ ProcessFinishedTask
  BY <1>4 DEF ProcessReadyTask, ProcessFinishedTask
<1>5. CASE FinishedTaskNotStored
  BY <1>5 DEF FinishedTaskNotStored
<1> QED BY <1>1, <1>2, <1>3, <1>4, <1>5

\* The steps in between builds that leave the engine as it is.
Aside == BuildIsRefused \/ BuildIsNotStarted \/ CancelBuild \/ ResetForBuild \/ UNCHANGED vars

\* Such a step changes nothing that a turn has looked at.
LEMMA AsideIs ==
  ASSUME Aside
  PROVE  UNCHANGED <<pc, didWork, ruleInfosToScan, inputRequests, finishedInputRequests,
                     readyTaskInfos, taskInfos, numOutstanding, worker>>
BY DEF Aside, BuildIsRefused, BuildIsNotStarted, CancelBuild, ResetForBuild, vars,
   queueVars, taskVars, workVars

\* Every step keeps what the turn has found.
LEMMA NextTurn ==
  ASSUME TypeOK, Turn, Next
  PROVE  Turn'

\* A turn that has done something is past nothing yet, and neither is one that is
\* not in the loop.
<1>TurnOfWork.
  ASSUME didWork' = TRUE, pc' \notin {"teardown", "idle"}
  PROVE  Turn'
  BY <1>TurnOfWork DEF Turn

\* Outside of a turn there is nothing that it has found empty.
<1>TurnOutside.
  ASSUME pc' \in {"top", "scan", "waiting", "drain", "drainWaiting", "crashed"}
  PROVE  Turn'
  <2> USE <1>TurnOutside
  <2>1. /\ pc' \notin {"input", "provide", "ready", "finish", "wait"}
        /\ pc' \notin {"provide", "ready", "finish", "wait"} /\ pc' \notin {"ready", "finish", "wait"}
        /\ pc' \notin {"finish", "wait"} /\ pc' \notin {"teardown", "idle"} /\ pc' # "idle"
    OBVIOUS
  <2> QED BY <2>1 DEF Turn

\* The steps that leave the loop for its top, for cancelRemainingTasks() or to wait.
<1>OutsideTurn.
  ASSUME StartTurn \/ EndTurn \/ WaitForTask \/ ResolveOrReportCycle \/ DrainTasks
         \/ BuildStarts \/ SpuriousWakeup
  PROVE  pc' \in {"top", "scan", "waiting", "drain", "drainWaiting", "crashed"}
  <2> USE <1>OutsideTurn
  <2>1. CASE StartTurn \/ EndTurn \/ WaitForTask \/ BuildStarts \/ SpuriousWakeup
    BY <2>1 DEF StartTurn, EndTurn, WaitForTask, BuildStarts, SpuriousWakeup
  <2>2. CASE ResolveOrReportCycle
    BY <2>2 DEF ResolveOrReportCycle, CycleForcesRule, CycleSuppliesPriorValue,
       CycleIsReported, CycleReadsPastEnd
  <2>3. CASE DrainTasks
    BY <2>3 DEF DrainTasks
  <2> QED BY <2>1, <2>2, <2>3

\* The turn goes on to the next queue once it has found the one before it empty.
<1>NextQueueTurn.
  ASSUME Turn, NextQueue
  PROVE  Turn'
  <2> USE <1>NextQueueTurn
  <2>1. UNCHANGED <<didWork, ruleInfosToScan, inputRequests, finishedInputRequests, readyTaskInfos>>
    BY DEF NextQueue, loopUnchanged, queueVars
  <2>2. pc' # "idle" /\ pc' \notin {"teardown", "idle"}
    BY DEF NextQueue
  <2>3. ~didWork => /\ pc' \in {"input", "provide", "ready", "finish", "wait"} => ruleInfosToScan = <<>>
                    /\ pc' \in {"provide", "ready", "finish", "wait"} => inputRequests = <<>>
                    /\ pc' \in {"ready", "finish", "wait"} => finishedInputRequests = <<>>
                    /\ pc' \in {"finish", "wait"} => readyTaskInfos = <<>>
    BY DEF NextQueue, Turn
  <2> QED BY <2>1, <2>2, <2>3 DEF Turn

\* The steps of a thread add to no queue but that of the finished tasks.
<1>WorkerTurn.
  ASSUME TypeOK, Turn, NEW k \in Keys, WorkerStep(k)
  PROVE  Turn'
  <2> USE <1>WorkerTurn
  <2>1. UNCHANGED <<didWork, ruleInfosToScan, inputRequests, finishedInputRequests, readyTaskInfos,
                    taskInfos, numOutstanding>>
    BY DEF WorkerStep, TaskIsComplete, EnqueueFinishedTask, NotifyEngine, workerUnchanged,
       queueVars
  <2>2. worker[k] # "none"
    BY DEF WorkerStep, TaskIsComplete, EnqueueFinishedTask, NotifyEngine
  <2>3. pc # "idle"
    BY <2>2 DEF Turn
  <2>4. pc' = pc \/ pc' \in {"top", "drain"}
    BY DEF WorkerStep, TaskIsComplete, EnqueueFinishedTask, NotifyEngine
  <2>5. CASE pc' = pc
    BY <2>1, <2>3, <2>5 DEF Turn
  <2>6. CASE pc' \in {"top", "drain"}
    BY <2>6, <1>TurnOutside
  <2> QED BY <2>4, <2>5, <2>6
<1>1. Turn
  OBVIOUS
<1>2. CASE \/ ProcessRuleScanRequest \/ ProcessInputRequest \/ ProcessFinishedInput
           \/ ProcessReadyTask \/ ProcessFinishedTask \/ FinishedTaskNotStored
  BY <1>2, WorkTurn, <1>TurnOfWork
<1>3. CASE StartTurn \/ EndTurn \/ WaitForTask \/ ResolveOrReportCycle \/ DrainTasks
           \/ BuildStarts \/ SpuriousWakeup
  BY <1>3, <1>OutsideTurn, <1>TurnOutside
<1>4. CASE NextQueue
  BY <1>1, <1>4, <1>NextQueueTurn
<1>5. CASE \E k \in Keys : WorkerStep(k)
  BY <1>1, <1>5, <1>WorkerTurn
<1>6. CASE Aside
  BY <1>1, <1>6, AsideIs DEF Turn
<1>7. CASE BuildIsDone
  <2>1. /\ pc = "wait" /\ ~didWork /\ numOutstanding = 0 /\ taskInfos = {}
        /\ UNCHANGED <<ruleInfosToScan, inputRequests, taskInfos, numOutstanding>>
        /\ pc' \in {"teardown", "drain"}
    BY <1>7 DEF BuildIsDone, NoWorkLeft, queueVars, taskVars
  <2>2. ruleInfosToScan = <<>> /\ inputRequests = <<>>
    BY <1>1, <2>1 DEF Turn
  <2>3. CASE pc' = "drain"
    BY <2>3, <1>TurnOutside
  <2>4. CASE pc' = "teardown"
    BY <2>1, <2>2, <2>4 DEF Turn
  <2> QED BY <2>1, <2>3, <2>4
<1>8. CASE CancelRemainingTasks
  BY <1>8 DEF CancelRemainingTasks, Turn
<1>9. CASE BuildEnds \/ BuildEndsIterationNotStored
  <2>1. /\ pc = "teardown" /\ \A k \in Keys : worker[k] = "none"
        /\ UNCHANGED <<ruleInfosToScan, inputRequests, taskInfos, numOutstanding, worker>>
        /\ pc' = "idle"
    BY <1>9 DEF BuildEnds, BuildEndsIterationNotStored, queueVars, taskVars, workVars
  <2> QED BY <1>1, <2>1 DEF Turn
<1>10. CASE Restart
  <2>1. /\ pc' = "idle" /\ taskInfos' = {} /\ numOutstanding' = 0
        /\ ruleInfosToScan' = <<>> /\ inputRequests' = <<>>
        /\ worker' = [k \in Keys |-> "none"]
    BY <1>10 DEF Restart
  <2> QED BY <2>1 DEF Turn
<1> QED BY <1>2, <1>3, <1>4, <1>5, <1>6, <1>7, <1>8, <1>9, <1>10
        DEF Next, EngineStep, ClientStep, Rest, Aside

-----------------------------------------------------------------------------
(***************************************************************************)
(* What a step may do to one rule                                          *)
(***************************************************************************)
\* Rule k comes to have state s and result r: it keeps its value, and unless it keeps
\* its state and its epoch too it was not up to date before, and is built now if it is
\* complete now.
SameValue(r, q) == r.value = q.value /\ r.computedAt = q.computedAt

RuleBecomes(k, s, r) ==
  /\ SameValue(r, result[k])
  /\ \/ s = state[k] /\ r.builtAt = result[k].builtAt
     \/ ~IsComplete(k) /\ r.builtAt = IF s = "Complete" THEN currentEpoch ELSE result[k].builtAt

RuleStep(k) == RuleBecomes(k, state'[k], result'[k])

\* Recording a dependency leaves the values and the epochs alone.
LEMMA RecordKeeps ==
  ASSUME TypeOK, inputRequests # <<>>, Request.task # NoKey, NEW results \in [Keys -> Result]
  PROVE  \A k \in Keys : /\ SameValue(RecordDependency(results)[k], results[k])
                         /\ RecordDependency(results)[k].builtAt = results[k].builtAt
<1>1. PICK t \in Keys : t = Request.task
  BY RequestTypes
<1>2. results[t] \in Result
  OBVIOUS
<1>3. CASE Request.singleUse
  BY <1>1, <1>2, <1>3 DEF RecordDependency, Result, SameValue
<1>4. CASE ~Request.singleUse
  BY <1>1, <1>2, <1>4 DEF RecordDependency, Result, SameValue
<1> QED BY <1>3, <1>4

\* Every step but the four that are about more: a new process, a new build, a build
\* that is given up, and the report of a thread.
OfLoop ==
  /\ Next
  /\ ~(Restart \/ BuildStarts \/ CancelRemainingTasks \/ \E k \in Keys : TaskIsComplete(k))

\* Such a step takes every rule only the way RuleStep allows, and the epoch stays.
LEMMA LoopRules ==
  ASSUME TypeOK, TypeOK', Sound, OfLoop
  PROVE  /\ \A k \in Keys : RuleStep(k)
         /\ currentEpoch' = currentEpoch

\* scanRule() keeps the value of a rule and the epochs of it.
<1>ScanBecomes.
  ASSUME TypeOK, NEW k \in Keys
  PROVE  RuleBecomes(k, ScanState(k), ScanResult(k))
  <2> USE <1>ScanBecomes
  <2>1. SameValue(ScanResult(k), result[k]) /\ ScanResult(k).builtAt = result[k].builtAt
    <3>1. result[k] \in Result
      BY DEF TypeOK
    <3> QED BY <3>1 DEF ScanResult, SameValue, Result
  <2>2. CASE StartsScan(k)
    <3>1. ~IsComplete(k) /\ ScanState(k) # "Complete"
      BY <2>2 DEF StartsScan, IsScanned, ScanState, IsComplete
    <3> QED BY <2>1, <3>1 DEF RuleBecomes
  <2>3. CASE ~StartsScan(k)
    BY <2>1, <2>3 DEF ScanState, RuleBecomes
  <2> QED BY <2>2, <2>3

\* Demanding a rule completes it with its own value, or starts it.
<1>DemandBecomes.
  ASSUME TypeOK, NEW k \in Keys
  PROVE  RuleBecomes(k, DemandState(k), DemandResult(k))
  <2> USE <1>DemandBecomes
  <2>1. RuleBecomes(k, ScanState(k), ScanResult(k)) /\ ScanResult(k) \in Result /\ currentEpoch \in Nat
    BY <1>ScanBecomes, ScanTypes DEF TypeOK
  <2>2. CASE ScanState(k) = "DoesNotNeedToRun"
    <3>1. DemandState(k) = "Complete" /\ DemandResult(k) = [ScanResult(k) EXCEPT !.builtAt = currentEpoch]
      BY <2>2 DEF DemandState, DemandResult
    <3>2. SameValue(DemandResult(k), ScanResult(k)) /\ DemandResult(k).builtAt = currentEpoch
      BY <2>1, <3>1 DEF Result, SameValue
    <3>3. ~IsComplete(k)
      BY <2>2 DEF ScanState, StartsScan, IsScanned, IsComplete
    <3> QED BY <2>1, <3>1, <3>2, <3>3 DEF RuleBecomes, SameValue
  <2>3. CASE ScanState(k) = "NeedsToRun"
    <3>1. /\ DemandState(k) = "InProgressWaiting"
          /\ DemandResult(k) = [ScanResult(k) EXCEPT !.dependencies = <<>>, !.singleUse = {}]
      BY <2>3 DEF DemandState, DemandResult
    <3>2. SameValue(DemandResult(k), ScanResult(k)) /\ DemandResult(k).builtAt = ScanResult(k).builtAt
      BY <2>1, <3>1 DEF Result, SameValue
    <3>3. ~IsComplete(k)
      BY <2>3 DEF ScanState, StartsScan, IsScanned, IsComplete
    <3>4. ScanResult(k).builtAt = result[k].builtAt
      BY <2>1, <2>3 DEF RuleBecomes
    <3> QED BY <2>1, <3>1, <3>2, <3>3, <3>4 DEF RuleBecomes, SameValue
  <2>4. CASE ScanState(k) # "DoesNotNeedToRun" /\ ScanState(k) # "NeedsToRun"
    BY <2>1, <2>4 DEF DemandState, DemandResult
  <2> QED BY <2>2, <2>3, <2>4

\* A step that changes one rule in such a way is a step of every rule;
<1>OneRuleStep.
  ASSUME TypeOK, NEW i \in Keys, NEW s, NEW r, RuleBecomes(i, s, r),
         state' = [state EXCEPT ![i] = s], result' = [result EXCEPT ![i] = r]
  PROVE  \A k \in Keys : RuleStep(k)
  <2> USE <1>OneRuleStep
  <2>1. /\ \A k \in Keys : state'[k] = IF k = i THEN s ELSE state[k]
        /\ \A k \in Keys : result'[k] = IF k = i THEN r ELSE result[k]
    BY DEF TypeOK
  <2> QED BY <2>1 DEF RuleStep, RuleBecomes, SameValue

\* A step that changes no rule is a step of each,
<1>NoRuleStep.
  ASSUME state' = state, result' = result
  PROVE  \A k \in Keys : RuleStep(k)
  BY <1>NoRuleStep DEF RuleStep, RuleBecomes, SameValue

\* and so is one that moves a rule that is not complete to another state.
<1>StateStep.
  ASSUME TypeOK, NEW i \in Keys, NEW s, ~IsComplete(i), s # "Complete",
         state' = [state EXCEPT ![i] = s], result' = result
  PROVE  \A k \in Keys : RuleStep(k)
  <2> USE <1>StateStep
  <2>1. \A k \in Keys : state'[k] = IF k = i THEN s ELSE state[k]
    BY DEF TypeOK
  <2> QED BY <2>1 DEF RuleStep, RuleBecomes, SameValue

\* The steps of the scanning loop only take rules the way RuleStep allows,
<1>ScanLoopRules.
  ASSUME TypeOK, ProcessRuleScanRequest
  PROVE  \A k \in Keys : RuleStep(k)
  <2> USE <1>ScanLoopRules
  <2>1. CASE ScanDropped \/ ScanSkips
    BY <2>1, <1>NoRuleStep DEF ScanDropped, ScanSkips, ruleVars
  <2>2. CASE ScanReachesEnd
    <3>1. PICK i, s : /\ i = ScanTop.rule
                      /\ s = IF ScanTop.needsToRun THEN "NeedsToRun" ELSE "DoesNotNeedToRun"
      OBVIOUS
    <3>2. i \in Keys /\ IsScanning(i) /\ state' = [state EXCEPT ![i] = s] /\ result' = result
      BY <2>2, <3>1, ScanTopTypes DEF ScanReachesEnd, Scanning
    <3>3. ~IsComplete(i) /\ s # "Complete"
      BY <3>1, <3>2 DEF IsComplete, IsScanning
    <3> QED BY <3>2, <3>3, <1>StateStep
  <2>3. CASE ScanDefersOnScan \/ ScanDefersOnTask \/ ScanNextInput \/ ScanFindsRebuiltInput
    <3>1. PICK i \in Keys : i = ScanInput
      BY <2>3, ScanTopTypes DEF ScanDefersOnScan, ScanDefersOnTask, ScanNextInput,
         ScanFindsRebuiltInput, AtInput, Scanning
    <3>2. CASE ScanDefersOnScan
      BY <3>1, <3>2, <1>ScanBecomes, <1>OneRuleStep DEF ScanDefersOnScan, ScanRule
    <3>3. CASE ScanDefersOnTask \/ ScanNextInput
      BY <3>1, <3>3, <1>DemandBecomes, <1>OneRuleStep
         DEF ScanDefersOnTask, ScanNextInput, DemandRule
    <3>4. CASE ScanFindsRebuiltInput
      <4>1. PICK j \in Keys : j = ScanTop.rule /\ IsScanning(j)
        BY <3>4, ScanTopTypes DEF ScanFindsRebuiltInput, AtInput, Scanning
      <4>2. /\ state' = [state EXCEPT ![i] = "Complete", ![j] = "NeedsToRun"]
            /\ result' = [result EXCEPT ![i] = DemandResult(i)] /\ DemandState(i) = "Complete"
        BY <3>1, <3>4, <4>1 DEF ScanFindsRebuiltInput, Available
      <4>3. i # j
        BY <4>1, <4>2 DEF DemandState, ScanState, StartsScan, IsScanning
      <4>4. /\ \A k \in Keys : state'[k] = IF k = i THEN "Complete"
                                           ELSE IF k = j THEN "NeedsToRun" ELSE state[k]
            /\ \A k \in Keys : result'[k] = IF k = i THEN DemandResult(i) ELSE result[k]
        BY <4>2, <4>3 DEF TypeOK
      <4>5. RuleStep(i)
        BY <4>2, <4>4, <1>DemandBecomes DEF RuleStep
      <4>6. RuleStep(j)
        BY <4>1, <4>3, <4>4 DEF RuleStep, RuleBecomes, SameValue, IsComplete, IsScanning
      <4>7. \A k \in Keys : k # i /\ k # j => RuleStep(k)
        BY <4>4 DEF RuleStep, RuleBecomes, SameValue
      <4> QED BY <4>5, <4>6, <4>7
    <3> QED BY <2>3, <3>2, <3>3, <3>4
  <2> QED BY <2>1, <2>2, <2>3 DEF ProcessRuleScanRequest

\* and so do those of the loop over the input requests.
<1>InputLoopRules.
  ASSUME TypeOK, ProcessInputRequest
  PROVE  \A k \in Keys : RuleStep(k)
  <2> USE <1>InputLoopRules
  <2>1. inputRequests # <<>>
    BY DEF ProcessInputRequest, InputPauses, InputIsDummy, InputIsAvailable, InputIsPending,
       AtRequest
  <2>2. PICK i \in Keys : i = RequestInput
    BY <2>1, RequestTypes
  <2>3. CASE InputPauses
    BY <2>2, <2>3, <1>ScanBecomes, <1>OneRuleStep DEF InputPauses, ScanRule
  <2>4. CASE InputIsDummy
    BY <2>2, <2>4, <1>DemandBecomes, <1>OneRuleStep DEF InputIsDummy, DemandRule
  <2>5. CASE InputIsAvailable \/ InputIsPending
    <3>1. PICK results : results = [result EXCEPT ![i] = DemandResult(i)]
      OBVIOUS
    <3>2. /\ state' = [state EXCEPT ![i] = DemandState(i)] /\ Request.task # NoKey
          /\ result' = RecordDependency(results)
      BY <2>2, <2>5, <3>1 DEF InputIsAvailable, InputIsPending, DemandRule
    <3>3. results \in [Keys -> Result] /\ \A k \in Keys : results[k] = IF k = i THEN DemandResult(i) ELSE result[k]
      BY <3>1, DemandTypes DEF TypeOK
    <3>4. \A k \in Keys : state'[k] = IF k = i THEN DemandState(i) ELSE state[k]
      BY <3>2 DEF TypeOK
    <3>5. ASSUME NEW k \in Keys
          PROVE  RuleBecomes(k, state'[k], results[k])
      <4>1. CASE k = i
        <5>1. state'[k] = DemandState(k) /\ results[k] = DemandResult(k)
          BY <3>3, <3>4, <4>1
        <5>2. RuleBecomes(k, DemandState(k), DemandResult(k))
          BY <1>DemandBecomes
        <5> QED BY <5>1, <5>2
      <4>2. CASE k # i
        <5>1. state'[k] = state[k] /\ results[k] = result[k]
          BY <3>3, <3>4, <4>2
        <5> QED BY <5>1 DEF RuleBecomes, SameValue
      <4> QED BY <4>1, <4>2
    <3>6. \A k \in Keys : SameValue(result'[k], results[k]) /\ result'[k].builtAt = results[k].builtAt
      BY <2>1, <3>2, <3>3, RecordKeeps
    <3> QED BY <3>5, <3>6 DEF RuleStep, RuleBecomes, SameValue
  <2> QED BY <2>3, <2>4, <2>5 DEF ProcessInputRequest

\* The rule of a finished task is built now.
<1>CompleteRuleRules.
  ASSUME TypeOK, Threads, ProcessFinishedTask \/ FinishedTaskNotStored
  PROVE  \A k \in Keys : RuleStep(k)
  <2> USE <1>CompleteRuleRules
  <2>1. PICK i : i = Back(finishedTaskInfos)
    OBVIOUS
  <2>2. finishedTaskInfos # <<>> /\ CompleteRule(i)
    BY <2>1 DEF ProcessFinishedTask, FinishedTaskNotStored
  <2>3. finishedTaskInfos \in Seq(Keys) /\ i \in Keys /\ result[i] \in Result
    BY <2>1, <2>2, BackType DEF TypeOK
  <2>4. PICK n : n \in DOMAIN finishedTaskInfos /\ finishedTaskInfos[n] = i
    BY ONLY <2>1, <2>2, <2>3, SMT DEF Back
  <2>5. ~IsComplete(i)
    BY <2>4 DEF Threads, IsComplete
  <2>6. PICK r : r = CompletedResult(i)
    OBVIOUS
  <2>7. SameValue(r, result[i]) /\ r.builtAt = currentEpoch
    BY <2>3, <2>6 DEF CompletedResult, Result, SameValue
  <2>8. RuleBecomes(i, "Complete", r)
    BY <2>5, <2>7 DEF RuleBecomes
  <2> QED BY <2>2, <2>3, <2>6, <2>8, <1>OneRuleStep DEF CompleteRule
<1>1. CASE ProcessRuleScanRequest \/ ProcessInputRequest
  <2>1. currentEpoch' = currentEpoch
    BY <1>1 DEF ProcessRuleScanRequest, ScanDropped, ScanSkips, ScanDefersOnScan,
       ScanDefersOnTask, ScanNextInput, ScanFindsRebuiltInput, ScanReachesEnd,
       ProcessInputRequest, InputPauses, InputIsDummy, InputIsAvailable, InputIsPending,
       engineUnchanged, clientVars
  <2> QED BY <1>1, <2>1, <1>ScanLoopRules, <1>InputLoopRules
<1>2. CASE ProcessFinishedTask \/ FinishedTaskNotStored
  <2>1. Threads /\ currentEpoch' = currentEpoch
    BY <1>2 DEF Sound, ProcessFinishedTask, FinishedTaskNotStored, clientVars
  <2> QED BY <1>2, <2>1, <1>CompleteRuleRules
<1>3. CASE ProcessReadyTask
  <2>1. PICK i : i = Head(readyTaskInfos)
    OBVIOUS
  <2>2. i \in Keys /\ state[i] = "InProgressWaiting"
    BY <1>3, <2>1, NextIsReady DEF IsReady
  <2>3. /\ state' = [state EXCEPT ![i] = "InProgressComputing"] /\ result' = result
        /\ currentEpoch' = currentEpoch
    BY <1>3, <2>1 DEF ProcessReadyTask, clientVars
  <2>4. ~IsComplete(i)
    BY <2>2 DEF IsComplete
  <2> QED BY <2>2, <2>3, <2>4, <1>StateStep
<1>4. CASE CycleForcesRule
  <2>1. PICK i \in Keys : IsScanning(i) /\ state' = [state EXCEPT ![i] = "NeedsToRun"]
    BY <1>4, CycleListType DEF CycleForcesRule
  <2>2. result' = result /\ currentEpoch' = currentEpoch
    BY <1>4 DEF CycleForcesRule, clientVars
  <2>3. ~IsComplete(i)
    BY <2>1 DEF IsComplete, IsScanning
  <2> QED BY <2>1, <2>2, <2>3, <1>StateStep
<1>5. CASE \/ CycleSuppliesPriorValue \/ CycleIsReported \/ CycleReadsPastEnd
           \/ ProcessFinishedInput \/ BuildIsDone \/ DrainTasks
           \/ BuildEnds \/ BuildEndsIterationNotStored
  <2>1. UNCHANGED <<state, result, currentEpoch>>
    BY <1>5 DEF CycleSuppliesPriorValue, CycleIsReported, CycleReadsPastEnd,
       ProcessFinishedInput, BuildIsDone, DrainTasks, BuildEnds, BuildEndsIterationNotStored,
       ruleVars, clientVars, engineUnchanged
  <2> QED BY <2>1, <1>NoRuleStep
<1>6. CASE \/ StartTurn \/ NextQueue \/ EndTurn \/ WaitForTask \/ SpuriousWakeup
           \/ Aside \/ \E k \in Keys : EnqueueFinishedTask(k) \/ NotifyEngine(k)
  <2>1. UNCHANGED <<state, result, currentEpoch>>
    BY <1>6 DEF StartTurn, NextQueue, EndTurn, WaitForTask, SpuriousWakeup, Aside,
       BuildIsRefused, BuildIsNotStarted, CancelBuild, ResetForBuild, vars, EnqueueFinishedTask,
       NotifyEngine, loopUnchanged, workerUnchanged, ruleVars, clientVars
  <2> QED BY <2>1, <1>NoRuleStep
<1> QED BY <1>1, <1>2, <1>3, <1>4, <1>5, <1>6
        DEF OfLoop, Next, EngineStep, ClientStep, WorkerStep, ResolveOrReportCycle, Rest, Aside

\* A thread reports the result of its own rule, and leaves when it was built.
LEMMA ReportedIs ==
  ASSUME TypeOK, NEW i \in Keys, TaskIsComplete(i)
  PROVE  /\ \A k \in Keys : k # i => result'[k] = result[k]
         /\ result'[i].builtAt = result[i].builtAt
         /\ result'[i].dependencies = result[i].dependencies
         /\ result'[i].singleUse = result[i].singleUse
<1>1. PICK value, epoch :
        /\ epoch \in {result[i].computedAt, currentEpoch}
        /\ result' = [result EXCEPT ![i].signature = Signature(i, manifest),
                                    ![i].value = value, ![i].computedAt = epoch]
  BY DEF TaskIsComplete
<1>2. result[i] \in Result /\ result \in [Keys -> Result]
  BY DEF TypeOK
<1>3. \A k \in Keys : k # i => result'[k] = result[k]
  BY <1>1, <1>2
<1> QED BY ONLY <1>1, <1>2, <1>3, i \in Keys, SMT DEF Result

\* A value that was handed to other tasks is not changed: a thread reports only while
\* its rule is computing.
LEMMA ValuesAreKept ==
  ASSUME TypeOK, TypeOK', Sound, Next, NEW k \in Keys, IsComplete(k), IsComplete(k)'
  PROVE  SameValue(result'[k], result[k])
<1>1. CASE OfLoop
  BY <1>1, LoopRules DEF RuleStep, RuleBecomes
<1>2. CASE Restart
  BY <1>2 DEF Restart, IsComplete
<1>3. CASE BuildStarts \/ CancelRemainingTasks
  BY <1>3 DEF BuildStarts, CancelRemainingTasks, ruleVars, SameValue
<1>4. ASSUME NEW i \in Keys, TaskIsComplete(i)
      PROVE  SameValue(result'[k], result[k])
  <2>1. state[i] = "InProgressComputing"
    BY <1>4 DEF TaskIsComplete, Sound, Threads, Computing
  <2>2. i # k
    BY <2>1 DEF IsComplete
  <2>3. result'[k] = result[k]
    BY <1>4, <2>2, ReportedIs
  <2> QED BY <2>3 DEF SameValue
<1> QED BY <1>1, <1>2, <1>3, <1>4 DEF OfLoop

\* A rule that is not complete was last built in an earlier build.
BuiltBefore ==
  pc \notin {"idle", "teardown"} =>
    \A k \in Keys : state[k] # "Complete" => result[k].builtAt < currentEpoch

\* Every step keeps that what is not complete was built in an earlier epoch.
LEMMA NextBuiltBefore ==
  ASSUME TypeOK, TypeOK', Sound, BuiltBefore, ResultsUpTo(result, currentEpoch), Next
  PROVE  BuiltBefore'

\* No step of the loop starts a build.
<1>LoopStaysIdle.
  ASSUME OfLoop, pc \in {"idle", "teardown"}
  PROVE  pc' \in {"idle", "teardown"}
  <2> USE <1>LoopStaysIdle
  <2>1. ~ProcessRuleScanRequest /\ ~ProcessInputRequest
    BY DEF ProcessRuleScanRequest, ScanDropped, ScanSkips, ScanDefersOnScan,
       ScanDefersOnTask, ScanNextInput, ScanFindsRebuiltInput, ScanReachesEnd, AtInput, Scanning,
       ProcessInputRequest, InputPauses, InputIsDummy, InputIsAvailable, InputIsPending, AtRequest
  <2>2. /\ ~ProcessFinishedInput /\ ~ProcessReadyTask /\ ~ProcessFinishedTask
        /\ ~FinishedTaskNotStored /\ ~StartTurn /\ ~NextQueue /\ ~EndTurn /\ ~WaitForTask
        /\ ~SpuriousWakeup /\ ~BuildIsDone /\ ~DrainTasks
    BY DEF ProcessFinishedInput, ProcessReadyTask, ProcessFinishedTask,
       FinishedTaskNotStored, StartTurn, NextQueue, EndTurn, WaitForTask, SpuriousWakeup,
       BuildIsDone, NoWorkLeft, DrainTasks
  <2>3. ~ResolveOrReportCycle
    BY DEF ResolveOrReportCycle, CycleForcesRule, CycleSuppliesPriorValue, CycleIsReported,
       CycleReadsPastEnd, Stuck, NoWorkLeft
  <2>4. CASE BuildEnds \/ BuildEndsIterationNotStored
    BY <2>4 DEF BuildEnds, BuildEndsIterationNotStored
  <2>5. CASE Aside
    BY <2>5, AsideIs
  <2>6. CASE \E k \in Keys : EnqueueFinishedTask(k) \/ NotifyEngine(k)
    BY <2>6 DEF EnqueueFinishedTask, NotifyEngine
  <2> QED BY <2>1, <2>2, <2>3, <2>4, <2>5, <2>6
          DEF OfLoop, Next, EngineStep, ClientStep, WorkerStep, Rest, Aside
<1> SUFFICES ASSUME pc' \notin {"idle", "teardown"}, NEW k \in Keys, state'[k] # "Complete"
             PROVE  result'[k].builtAt < currentEpoch'
  BY DEF BuiltBefore
<1>1. PICK b, e : b = result[k].builtAt /\ e = currentEpoch
  OBVIOUS
<1>2. b \in Nat /\ e \in Nat /\ b <= e
  BY <1>1 DEF TypeOK, Result, ResultsUpTo
<1>3. CASE OfLoop
  <2>1. pc \notin {"idle", "teardown"}
    BY <1>3, <1>LoopStaysIdle
  <2>2. RuleStep(k) /\ currentEpoch' = e
    BY <1>1, <1>3, LoopRules
  <2>3. result'[k].builtAt = b /\ (state'[k] = state[k] \/ ~IsComplete(k))
    BY <1>1, <2>2 DEF RuleStep, RuleBecomes
  <2>4. CASE state[k] # "Complete"
    BY <1>1, <2>1, <2>2, <2>3, <2>4 DEF BuiltBefore
  <2>5. CASE state[k] = "Complete"
    <3>1. b # e
      BY <1>1, <2>3, <2>5 DEF IsComplete
    <3>2. b < e
      BY ONLY <1>2, <3>1, SMT
    <3> QED BY <2>2, <2>3, <3>2
  <2> QED BY <2>4, <2>5
<1>4. CASE BuildStarts
  <2>1. result' = result /\ currentEpoch' = e + 1
    BY <1>1, <1>4 DEF BuildStarts, ruleVars
  <2>2. b < e + 1
    BY ONLY <1>2, SMT
  <2> QED BY <1>1, <2>1, <2>2
<1>5. CASE Restart \/ CancelRemainingTasks
  BY <1>5 DEF Restart, CancelRemainingTasks
<1>6. ASSUME NEW i \in Keys, TaskIsComplete(i)
      PROVE  result'[k].builtAt < currentEpoch'
  <2>1. state' = state /\ currentEpoch' = currentEpoch /\ pc' = pc
    BY <1>6 DEF TaskIsComplete, workerUnchanged, clientVars
  <2>2. result'[k].builtAt = result[k].builtAt
    BY <1>6, ReportedIs
  <2> QED BY <2>1, <2>2 DEF BuiltBefore
<1> QED BY <1>3, <1>4, <1>5, <1>6 DEF OfLoop

\* A task starts computing when it has waited for everything, and only if its rule was
\* not built in this build.
LEMMA ComputesAfterWaiting ==
  ASSUME TypeOK, TypeOK', Sound, BuiltBefore, Next,
         NEW k \in Keys, worker[k] # "running", worker'[k] = "running"
  PROVE  state[k] = "InProgressWaiting" /\ result[k].builtAt # currentEpoch
<1>1. CASE ProcessReadyTask
  <2>1. /\ IsReady(Head(readyTaskInfos)) /\ Head(readyTaskInfos) \in Keys
        /\ worker' = [worker EXCEPT ![Head(readyTaskInfos)] = "running"] /\ pc = "ready"
    BY <1>1, NextIsReady DEF ProcessReadyTask
  <2>2. k = Head(readyTaskInfos)
    BY <2>1 DEF TypeOK
  <2>3. state[k] = "InProgressWaiting"
    BY <2>1, <2>2 DEF IsReady
  <2>4. result[k].builtAt < currentEpoch
    BY <2>1, <2>3 DEF BuiltBefore
  <2>5. result[k].builtAt \in Nat /\ currentEpoch \in Nat
    BY DEF TypeOK, Result
  <2>6. result[k].builtAt # currentEpoch
    BY ONLY <2>4, <2>5, SMT
  <2> QED BY <2>3, <2>6
<1>2. ASSUME NEW i \in Keys, WorkerStep(i) PROVE FALSE
  <2>1. PICK w : w # "running" /\ worker' = [worker EXCEPT ![i] = w]
    BY <1>2 DEF WorkerStep, TaskIsComplete, EnqueueFinishedTask, NotifyEngine
  <2> QED BY <2>1 DEF TypeOK
<1>3. CASE Restart
  BY <1>3 DEF Restart
<1>4. CASE \/ ProcessRuleScanRequest \/ ProcessInputRequest \/ ProcessFinishedTask
           \/ FinishedTaskNotStored \/ DrainTasks \/ CancelRemainingTasks
           \/ \/ ProcessFinishedInput \/ ResolveOrReportCycle
              \/ StartTurn \/ NextQueue \/ EndTurn \/ WaitForTask \/ BuildIsDone
              \/ BuildEnds \/ BuildEndsIterationNotStored
              \/ BuildStarts \/ BuildIsRefused \/ BuildIsNotStarted \/ CancelBuild \/ ResetForBuild
              \/ SpuriousWakeup \/ UNCHANGED vars
  <2>1. worker' = worker
    BY <1>4, LoopsAreUndisturbing, OthersAreUndisturbing
       DEF Undisturbed, ProcessFinishedTask, FinishedTaskNotStored, DrainTasks,
           CancelRemainingTasks
  <2> QED BY <2>1
<1> QED BY <1>1, <1>2, <1>3, <1>4 DEF Next, EngineStep, ClientStep, Rest

-----------------------------------------------------------------------------
(***************************************************************************)
(* A rule computes after its inputs                                        *)
(***************************************************************************)
\* Every input recorded for a rule in progress is up to date, or a request of its
\* task is pending at the task of that input.
Recorded(r, i) ==
  (\E n \in DOMAIN r.dependencies : r.dependencies[n].key = i) \/ i \in r.singleUse
WaitsAt(k, i) == \E n \in DOMAIN task[i].requestedBy : task[i].requestedBy[n].task = k

InputsInv ==
  \A k, i \in Keys : InProgress(k) /\ Recorded(result[k], i) => IsComplete(i) \/ WaitsAt(k, i)

\* It is enough that what is recorded, complete or pending is so for good.
Grows ==
  \A k, i \in Keys : InProgress(k)' /\ Recorded(result'[k], i) =>
    \/ InProgress(k) /\ Recorded(result[k], i)
    \/ IsComplete(i)' \/ WaitsAt(k, i)'
StaysComplete == \A i \in Keys : IsComplete(i) => IsComplete(i)'
StaysWaiting == \A k, i \in Keys : WaitsAt(k, i) => WaitsAt(k, i)' \/ IsComplete(i)'

\* scanRule() and demandRule() give a rule in progress no input.
OfProgress(s) == s \in {"InProgressWaiting", "InProgressComputing"}

\* Starting a scan records nothing for a task,
LEMMA ScanRecords ==
  ASSUME NEW k \in Keys, NEW i, OfProgress(ScanState(k)),
         Recorded(ScanResult(k), i)
  PROVE  InProgress(k) /\ Recorded(result[k], i)
<1>1. ~StartsScan(k)
  BY DEF ScanState, OfProgress
<1> QED BY <1>1 DEF ScanState, ScanResult, InProgress, OfProgress

\* Every step keeps the invariant.
LEMMA NextInputs ==
  ASSUME TypeOK, TypeOK', Sound, Sound', Turn, InputsInv, TRUE \notin ResolveCycle, [Next]_vars
  PROVE  InputsInv'

\* What a step has to do to keep the invariant.
<1>InputsStep.
  ASSUME InputsInv, Grows, StaysComplete, StaysWaiting
  PROVE  InputsInv'
  <2> USE <1>InputsStep
  <2> SUFFICES ASSUME NEW k \in Keys, NEW i \in Keys, InProgress(k)', Recorded(result'[k], i)
               PROVE  IsComplete(i)' \/ WaitsAt(k, i)'
    BY DEF InputsInv, Recorded
  <2>1. (InProgress(k) /\ Recorded(result[k], i)) \/ IsComplete(i)' \/ WaitsAt(k, i)'
    BY DEF Grows
  <2>2. CASE InProgress(k) /\ Recorded(result[k], i)
    BY <2>2 DEF InputsInv, StaysComplete, StaysWaiting
  <2> QED BY <2>1, <2>2

\* Within a build, what is complete stays complete.
<1>LoopStaysComplete.
  ASSUME TypeOK, TypeOK', Sound, OfLoop
  PROVE  StaysComplete
  <2> USE <1>LoopStaysComplete
  <2> SUFFICES ASSUME NEW i \in Keys, IsComplete(i)
               PROVE  IsComplete(i)'
    BY DEF StaysComplete
  <2>1. RuleStep(i) /\ currentEpoch' = currentEpoch
    BY LoopRules
  <2>2. state'[i] = state[i] /\ result'[i].builtAt = result[i].builtAt
    BY <2>1 DEF RuleStep, RuleBecomes
  <2> QED BY <2>1, <2>2 DEF IsComplete

\* The pending requests are where they were.
<1>SameWaiting.
  ASSUME \A i \in Keys : task'[i].requestedBy = task[i].requestedBy
  PROVE  StaysWaiting
  BY <1>SameWaiting DEF StaysWaiting, WaitsAt

\* Every step of a build records only what is complete or waited for.
<1>OtherInputs.
  ASSUME TypeOK, TypeOK', Sound, TRUE \notin ResolveCycle, OfLoop
  PROVE  Grows /\ StaysWaiting
  <2> USE <1>OtherInputs
  \* and neither does demanding a rule: a task that starts has recorded nothing.
  <2>DemandRecords.
    ASSUME TypeOK, NEW k \in Keys, NEW i, OfProgress(DemandState(k)), Recorded(DemandResult(k), i)
    PROVE  InProgress(k) /\ Recorded(result[k], i)
    <3> USE <2>DemandRecords
    <3>1. ScanResult(k) \in Result
      BY ScanTypes
    <3>2. ScanState(k) # "DoesNotNeedToRun"
      BY DEF DemandState, OfProgress
    <3>3. ScanState(k) # "NeedsToRun"
      <4> SUFFICES ASSUME ScanState(k) = "NeedsToRun"
                   PROVE  FALSE
        OBVIOUS
      <4>1. DemandResult(k) = [ScanResult(k) EXCEPT !.dependencies = <<>>, !.singleUse = {}]
        BY DEF DemandResult
      <4>2. DemandResult(k).dependencies = <<>> /\ DemandResult(k).singleUse = {}
        BY <3>1, <4>1 DEF Result
      <4>3. DOMAIN <<>> = {}
        BY SMT
      <4> QED BY <4>2, <4>3 DEF Recorded
    <3>4. DemandState(k) = ScanState(k) /\ DemandResult(k) = ScanResult(k)
      BY <3>2, <3>3 DEF DemandState, DemandResult
    <3>5. OfProgress(ScanState(k)) /\ Recorded(ScanResult(k), i)
      BY <3>4
    <3> QED BY <3>5, ScanRecords
  \* A step that demands one rule, and records nothing.
  <2>DemandGrows.
    ASSUME TypeOK, NEW j \in Keys,
           state' = [state EXCEPT ![j] = DemandState(j)],
           result' = [result EXCEPT ![j] = DemandResult(j)]
    PROVE  Grows
    <3> USE <2>DemandGrows
    <3> SUFFICES ASSUME NEW k \in Keys, NEW i \in Keys, InProgress(k)', Recorded(result'[k], i)
                 PROVE  InProgress(k) /\ Recorded(result[k], i)
      BY DEF Grows
    <3>1. /\ state'[k] = IF k = j THEN DemandState(j) ELSE state[k]
          /\ result'[k] = IF k = j THEN DemandResult(j) ELSE result[k]
      BY DEF TypeOK
    <3>2. CASE k = j
      <4>1. OfProgress(DemandState(j))
        BY <3>1, <3>2 DEF InProgress, OfProgress
      <4>2. Recorded(DemandResult(j), i)
        BY <3>1, <3>2
      <4> QED BY <3>2, <4>1, <4>2, <2>DemandRecords
    <3>3. CASE k # j
      BY <3>1, <3>3 DEF InProgress
    <3> QED BY <3>2, <3>3
  \* A step that changes rules that are not in progress, and does not put them there.
  <2>QuietGrows.
    ASSUME \A k \in Keys : InProgress(k)' => InProgress(k) /\ result'[k] = result[k]
    PROVE  Grows
    BY <2>QuietGrows DEF Grows
  \* The steps of the scanning loop record nothing.
  <2>ScanLoopInputs.
    ASSUME TypeOK, TypeOK', Sound, ProcessRuleScanRequest
    PROVE  Grows /\ StaysWaiting
    <3> USE <2>ScanLoopInputs
    <3>1. /\ ruleInfosToScan # <<>> /\ pc \notin Draining /\ Live
          /\ state \in [Keys -> RuleStates] /\ result \in [Keys -> Result]
      BY DEF ProcessRuleScanRequest, ScanDropped, ScanSkips, ScanDefersOnScan,
         ScanDefersOnTask, ScanNextInput, ScanFindsRebuiltInput, ScanReachesEnd, AtInput, Scanning,
         Draining, Sound, TypeOK
    <3>2. CASE ScanDropped \/ ScanSkips
      <4>1. UNCHANGED <<state, result, task>>
        BY <3>2 DEF ScanDropped, ScanSkips, ruleVars, taskVars
      <4> QED BY <4>1, <2>QuietGrows, <1>SameWaiting DEF InProgress
    <3>3. CASE ScanReachesEnd
      <4>1. UNCHANGED <<result, task>>
        BY <3>3 DEF ScanReachesEnd, taskVars
      <4>2. PICK j \in Keys, s \in {"NeedsToRun", "DoesNotNeedToRun"} : state' = [state EXCEPT ![j] = s]
        BY <3>1, <3>3, ScanTopTypes DEF ScanReachesEnd
      <4>3. \A k \in Keys : InProgress(k)' => InProgress(k)
        BY <3>1, <4>2 DEF InProgress
      <4> QED BY <4>1, <4>3, <2>QuietGrows, <1>SameWaiting
    <3>4. CASE ScanDefersOnScan \/ ScanDefersOnTask \/ ScanNextInput \/ ScanFindsRebuiltInput
      <4>1. PICK j \in Keys : j = ScanInput
        BY <3>1, <3>4, ScanTopTypes DEF ScanDefersOnScan, ScanDefersOnTask, ScanNextInput,
           ScanFindsRebuiltInput, AtInput, Scanning
      <4>2. CASE ScanDefersOnScan
        <5>1. /\ state' = [state EXCEPT ![j] = "IsScanning"] /\ task' = task
              /\ result' = [result EXCEPT ![j] = ScanResult(j)]
          BY <4>1, <4>2 DEF ScanDefersOnScan, ScanRule, taskVars
        <5>2. \A k \in Keys : InProgress(k)' => InProgress(k) /\ result'[k] = result[k]
          BY <3>1, <5>1 DEF InProgress
        <5> QED BY <5>1, <5>2, <2>QuietGrows, <1>SameWaiting
      <4>3. CASE ScanDefersOnTask
        <5>1. /\ state' = [state EXCEPT ![j] = DemandState(j)] /\ ScanState(j) # "IsScanning"
              /\ result' = [result EXCEPT ![j] = DemandResult(j)]
          BY <4>1, <4>3 DEF ScanDefersOnTask, DemandRule
        <5>2. PICK new, q : new = StartedTask(j) /\ task' = [new EXCEPT ![j].deferredScans = q]
          BY <4>1, <4>3 DEF ScanDefersOnTask
        <5>3. new \in [Keys -> TaskInfo] /\ \A k \in Keys : new[k].requestedBy = task[k].requestedBy
          BY <3>1, <5>1, <5>2, DemandTypes, StartedIs
        <5>4. \A k \in Keys : task'[k].requestedBy = new[k].requestedBy
          <6>1. task'[j] = [new[j] EXCEPT !.deferredScans = q] /\ \A k \in Keys : k # j => task'[k] = new[k]
            BY <5>2, <5>3
          <6>2. [new[j] EXCEPT !.deferredScans = q].requestedBy = new[j].requestedBy
            BY <5>3 DEF TaskInfo
          <6> QED BY <6>1, <6>2
        <5> QED BY <5>1, <5>3, <5>4, <2>DemandGrows, <1>SameWaiting
      <4>4. CASE ScanNextInput
        <5>1. /\ state' = [state EXCEPT ![j] = DemandState(j)] /\ task' = task
              /\ result' = [result EXCEPT ![j] = DemandResult(j)]
          BY <4>1, <4>4 DEF ScanNextInput, DemandRule
        <5> QED BY <5>1, <2>DemandGrows, <1>SameWaiting
      <4>5. CASE ScanFindsRebuiltInput
        <5>1. PICK h \in Keys : h = ScanTop.rule
          BY <3>1, ScanTopTypes
        <5>2. /\ state' = [state EXCEPT ![j] = "Complete", ![h] = "NeedsToRun"] /\ task' = task
              /\ result' = [result EXCEPT ![j] = DemandResult(j)]
          BY <4>1, <4>5, <5>1 DEF ScanFindsRebuiltInput, taskVars
        <5>3. \A k \in Keys : InProgress(k)' => k # j /\ InProgress(k)
          <6>1. PICK one : one = [state EXCEPT ![j] = "Complete"]
            OBVIOUS
          <6>2. DOMAIN one = Keys /\ \A k \in Keys : one[k] = IF k = j THEN "Complete" ELSE state[k]
            BY <3>1, <6>1
          <6>3. \A k \in Keys : state'[k] = IF k = h THEN "NeedsToRun" ELSE one[k]
            BY <5>2, <6>1, <6>2
          <6> QED BY <6>2, <6>3 DEF InProgress
        <5>4. \A k \in Keys : k # j => result'[k] = result[k]
          BY <3>1, <5>2
        <5> QED BY <5>2, <5>3, <5>4, <2>QuietGrows, <1>SameWaiting
      <4> QED BY <3>4, <4>2, <4>3, <4>4, <4>5
    <3> QED BY <3>2, <3>3, <3>4 DEF ProcessRuleScanRequest
  \* A request is recorded as it is answered, or as it starts to wait.
  <2>InputLoopInputs.
    ASSUME TypeOK, TypeOK', Sound, ProcessInputRequest
    PROVE  Grows /\ StaysWaiting
    <3> USE <2>InputLoopInputs
    \* What is available is up to date once it has been demanded.
    <3>AvailableIsComplete.
      ASSUME TypeOK, NEW j \in Keys, Available(j)
      PROVE  DemandResult(j).builtAt = currentEpoch
      <4> USE <3>AvailableIsComplete
      <4>1. CASE ScanState(j) = "DoesNotNeedToRun"
        <5>1. DemandResult(j) = [ScanResult(j) EXCEPT !.builtAt = currentEpoch] /\ ScanResult(j) \in Result
          BY <4>1, ScanTypes DEF DemandResult
        <5> QED BY <5>1 DEF Result
      <4>2. CASE ScanState(j) # "DoesNotNeedToRun"
        <5>1. ScanState(j) = "Complete" /\ DemandResult(j) = ScanResult(j)
          BY <4>2 DEF Available, DemandState, DemandResult
        <5>2. ~StartsScan(j) /\ state[j] = "Complete"
          BY <5>1 DEF ScanState
        <5>3. IsComplete(j)
          BY <5>2 DEF StartsScan, IsScanned, IsScanning
        <5> QED BY <5>1, <5>2, <5>3 DEF ScanResult, IsComplete
      <4> QED BY <4>1, <4>2
    \* Recording the input of a request records nothing else.
    <3>RecordRecords.
      ASSUME TypeOK, inputRequests # <<>>, NEW t \in Keys, t = Request.task,
             NEW results \in [Keys -> Result],
             NEW k \in Keys, NEW i \in Keys, Recorded(RecordDependency(results)[k], i)
      PROVE  Recorded(results[k], i) \/ (k = t /\ i = RequestInput)
      <4> USE <3>RecordRecords
      <4>1. results[t] \in Result
        OBVIOUS
      <4>2. CASE k # t
        <5>1. RecordDependency(results)[k] = results[k]
          BY <4>2 DEF RecordDependency
        <5> QED BY <5>1
      <4>3. CASE k = t /\ Request.singleUse
        <5>1. /\ RecordDependency(results)[t].singleUse = results[t].singleUse \cup {RequestInput}
              /\ RecordDependency(results)[t].dependencies = results[t].dependencies
          BY <4>1, <4>3 DEF RecordDependency, Result
        <5> QED BY <4>3, <5>1 DEF Recorded
      <4>4. CASE k = t /\ ~Request.singleUse
        <5>1. PICK d, old : /\ d = [key |-> RequestInput, orderOnly |-> Request.orderOnly]
                            /\ old = results[t].dependencies
          OBVIOUS
        <5>2. /\ RecordDependency(results)[t].dependencies = Append(old, d)
              /\ RecordDependency(results)[t].singleUse = results[t].singleUse
          BY <4>1, <4>4, <5>1 DEF RecordDependency, Result
        <5>3. old \in Seq(Dependency) /\ d.key = RequestInput
          BY <4>1, <5>1 DEF Result
        <5>4. \A n \in DOMAIN Append(old, d) :
                (n \in DOMAIN old /\ Append(old, d)[n] = old[n]) \/ Append(old, d)[n] = d
          BY ONLY <5>3, SMT
        <5>5. (\E n \in DOMAIN Append(old, d) : Append(old, d)[n].key = i) =>
                (\E n \in DOMAIN old : old[n].key = i) \/ i = RequestInput
          BY <5>3, <5>4
        <5> QED BY <4>4, <5>1, <5>2, <5>5 DEF Recorded
      <4> QED BY <4>2, <4>3, <4>4
    <3>1. /\ inputRequests # <<>> /\ pc \notin Draining /\ Live
          /\ state \in [Keys -> RuleStates] /\ result \in [Keys -> Result]
          /\ currentEpoch' = currentEpoch
      BY DEF ProcessInputRequest, InputPauses, InputIsDummy, InputIsAvailable, InputIsPending,
         AtRequest, Draining, Sound, TypeOK, engineUnchanged, clientVars
    <3>2. PICK j \in Keys : j = RequestInput
      BY <3>1, RequestTypes
    <3>3. CASE InputPauses
      <4>1. /\ state' = [state EXCEPT ![j] = "IsScanning"] /\ task' = task
            /\ result' = [result EXCEPT ![j] = ScanResult(j)]
        BY <3>2, <3>3 DEF InputPauses, ScanRule, taskVars
      <4>2. \A k \in Keys : InProgress(k)' => InProgress(k) /\ result'[k] = result[k]
        BY <3>1, <4>1 DEF InProgress
      <4> QED BY <4>1, <4>2, <2>QuietGrows, <1>SameWaiting
    <3>4. CASE InputIsDummy
      <4>1. /\ state' = [state EXCEPT ![j] = DemandState(j)] /\ ScanState(j) # "IsScanning"
            /\ result' = [result EXCEPT ![j] = DemandResult(j)] /\ task' = StartedTask(j)
        BY <3>2, <3>4 DEF InputIsDummy, DemandRule
      <4>2. \A k \in Keys : task'[k].requestedBy = task[k].requestedBy
        BY <3>1, <4>1, StartedIs
      <4> QED BY <4>1, <4>2, <2>DemandGrows, <1>SameWaiting
    <3>5. CASE InputIsAvailable \/ InputIsPending
      <4>1. PICK results : results = [result EXCEPT ![j] = DemandResult(j)]
        OBVIOUS
      <4>2. PICK t \in Keys : t = Request.task
        BY <3>1, <3>5, RequestTypes DEF InputIsAvailable, InputIsPending
      <4>3. /\ state' = [state EXCEPT ![j] = DemandState(j)] /\ ScanState(j) # "IsScanning"
            /\ result' = RecordDependency(results)
        BY <3>2, <3>5, <4>1 DEF InputIsAvailable, InputIsPending, DemandRule
      <4>4. results \in [Keys -> Result] /\ \A k \in Keys : results[k] = IF k = j THEN DemandResult(j) ELSE result[k]
        BY <3>1, <4>1, DemandTypes
      <4>5. \A k \in Keys : state'[k] = IF k = j THEN DemandState(j) ELSE state[k]
        BY <3>1, <4>3
      <4>6. ASSUME IsComplete(j)' \/ WaitsAt(t, j)'
            PROVE  Grows
        <5> SUFFICES ASSUME NEW k \in Keys, NEW i \in Keys, InProgress(k)', Recorded(result'[k], i),
                            ~(k = t /\ i = j)
                     PROVE  InProgress(k) /\ Recorded(result[k], i)
          BY <4>6 DEF Grows
        <5>0. Recorded(RecordDependency(results)[k], i)
          BY <4>3
        <5>1. Recorded(results[k], i)
          <6>1. TypeOK /\ inputRequests # <<>> /\ results \in [Keys -> Result]
            BY <3>1, <4>4
          <6>2. Recorded(results[k], i) \/ (k = t /\ i = RequestInput)
            BY <4>2, <5>0, <6>1, <3>RecordRecords
          <6> QED BY <6>2, <3>2
        <5>2. CASE k = j
          <6>1. OfProgress(DemandState(j))
            BY <4>5, <5>2 DEF InProgress, OfProgress
          <6>2. Recorded(DemandResult(j), i)
            BY <4>4, <5>1, <5>2
          <6> QED BY <5>2, <6>1, <6>2, <2>DemandRecords
        <5>3. CASE k # j
          BY <4>4, <4>5, <5>1, <5>3 DEF InProgress
        <5> QED BY <5>2, <5>3
      <4>7. CASE InputIsAvailable
        <5>1. Available(j) /\ task' = task
          BY <3>2, <4>7 DEF InputIsAvailable
        <5>2. result'[j].builtAt = results[j].builtAt
          BY <3>1, <4>2, <4>3, <4>4, RecordKeeps, KeysAssumption
        <5>3. IsComplete(j)'
          BY <3>1, <4>4, <4>5, <5>1, <5>2, <3>AvailableIsComplete DEF IsComplete, Available
        <5> QED BY <4>6, <5>1, <5>3, <1>SameWaiting
      <4>8. CASE InputIsPending
        <5>1. PICK new, q : /\ new = StartedTask(j) /\ q = Append(new[j].requestedBy, Request)
                            /\ task' = [new EXCEPT ![j].requestedBy = q]
          BY <3>2, <4>8 DEF InputIsPending
        <5>2. new \in [Keys -> TaskInfo] /\ \A k \in Keys : new[k].requestedBy = task[k].requestedBy
          BY <3>1, <4>3, <5>1, DemandTypes, StartedIs
        <5>3. /\ task'[j].requestedBy = q
              /\ \A k \in Keys : k # j => task'[k].requestedBy = task[k].requestedBy
          <6>1. task'[j] = [new[j] EXCEPT !.requestedBy = q] /\ \A k \in Keys : k # j => task'[k] = new[k]
            BY <5>1, <5>2
          <6>2. [new[j] EXCEPT !.requestedBy = q].requestedBy = q
            BY <5>2 DEF TaskInfo
          <6> QED BY <5>2, <6>1, <6>2
        <5>4. PICK old, x : old = task[j].requestedBy /\ x = Request
          OBVIOUS
        <5>5. q = Append(old, x) /\ old \in Seq(PendingRequest)
          BY <5>1, <5>2, <5>4 DEF TypeOK, TaskInfo
        <5>6. /\ \A n \in DOMAIN old : n \in DOMAIN q /\ q[n] = old[n]
              /\ \E n \in DOMAIN q : q[n] = x
          BY ONLY <5>5, SMT
        <5>7. WaitsAt(t, j)'
          BY <4>2, <5>3, <5>4, <5>6 DEF WaitsAt
        <5>8. StaysWaiting
          BY <5>3, <5>4, <5>6 DEF StaysWaiting, WaitsAt
        <5> QED BY <4>6, <5>7, <5>8
      <4> QED BY <3>5, <4>7, <4>8
    <3> QED BY <3>3, <3>4, <3>5 DEF ProcessInputRequest
  \* A task that finishes leaves its inputs behind, and is up to date.
  <2>CompleteRuleInputs.
    ASSUME TypeOK, TypeOK', Sound, ProcessFinishedTask \/ FinishedTaskNotStored
    PROVE  Grows /\ StaysWaiting
    <3> USE <2>CompleteRuleInputs
    <3>1. PICK j : j = Back(finishedTaskInfos)
      OBVIOUS
    <3>2. finishedTaskInfos # <<>> /\ CompleteRule(j) /\ currentEpoch' = currentEpoch
      BY <3>1 DEF ProcessFinishedTask, FinishedTaskNotStored, clientVars
    <3>3. j \in Keys /\ state \in [Keys -> RuleStates] /\ result \in [Keys -> Result]
      BY <3>1, <3>2, BackType DEF TypeOK
    <3>4. /\ \A k \in Keys : state'[k] = IF k = j THEN "Complete" ELSE state[k]
          /\ \A k \in Keys : result'[k] = IF k = j THEN CompletedResult(j) ELSE result[k]
      BY <3>2, <3>3 DEF CompleteRule
    <3>5. Grows
      <4>1. \A k \in Keys : InProgress(k)' => InProgress(k) /\ result'[k] = result[k]
        BY <3>4 DEF InProgress
      <4> QED BY <4>1, <2>QuietGrows
    <3>6. IsComplete(j)'
      <4>1. result[j] \in Result
        BY <3>3
      <4>2. CompletedResult(j).builtAt = currentEpoch
        BY <4>1 DEF CompletedResult, Result
      <4> QED BY <3>2, <3>3, <3>4, <4>2 DEF IsComplete
    <3>7. \A k \in Keys : k # j => task'[k] = task[k]
      BY <3>1, <3>3 DEF ProcessFinishedTask, FinishedTaskNotStored, taskVars, TypeOK
    <3>8. StaysWaiting
      BY <3>6, <3>7 DEF StaysWaiting, WaitsAt
    <3> QED BY <3>5, <3>8
  <2>1. CASE ProcessRuleScanRequest \/ ProcessInputRequest
    BY <2>1, <2>ScanLoopInputs, <2>InputLoopInputs
  <2>2. CASE ProcessFinishedTask \/ FinishedTaskNotStored
    BY <2>2, <2>CompleteRuleInputs
  <2>3. CASE ProcessReadyTask
    <3>1. PICK j : j = Head(readyTaskInfos)
      OBVIOUS
    <3>2. j \in Keys /\ state[j] = "InProgressWaiting"
      BY <2>3, <3>1, NextIsReady DEF IsReady
    <3>3. state' = [state EXCEPT ![j] = "InProgressComputing"] /\ UNCHANGED <<result, task>>
      BY <2>3, <3>1 DEF ProcessReadyTask, taskVars
    <3>4. \A k \in Keys : state'[k] = IF k = j THEN "InProgressComputing" ELSE state[k]
      BY <3>2, <3>3 DEF TypeOK
    <3>5. \A k \in Keys : InProgress(k)' => InProgress(k)
      BY <3>2, <3>4 DEF InProgress
    <3> QED BY <3>3, <3>5, <2>QuietGrows, <1>SameWaiting
  <2>4. CASE ProcessFinishedInput
    <3>1. PICK t, wait, provided :
            /\ t = Back(finishedInputRequests).task
            /\ task' = [task EXCEPT ![t].waitCount = wait, ![t].provided = provided]
      BY <2>4 DEF ProcessFinishedInput
    <3>2. t \in Keys
      <4>1. Back(finishedInputRequests) \in PendingRequest
        BY <2>4, BackType DEF ProcessFinishedInput, TypeOK
      <4> QED BY <3>1, <4>1 DEF PendingRequest, RequestsFrom
    <3>3. task \in [Keys -> TaskInfo] /\ task[t] \in TaskInfo
      BY <3>2 DEF TypeOK
    <3>4. /\ task'[t] = [task[t] EXCEPT !.waitCount = wait, !.provided = provided]
          /\ \A k \in Keys : k # t => task'[k] = task[k]
      BY <3>1, <3>2, <3>3
    <3>5. task'[t].requestedBy = task[t].requestedBy
      BY <3>3, <3>4 DEF TaskInfo
    <3>6. UNCHANGED <<state, result>>
      BY <2>4 DEF ProcessFinishedInput, ruleVars
    <3>7. \A k \in Keys : task'[k].requestedBy = task[k].requestedBy
      BY <3>4, <3>5
    <3> QED BY <3>6, <3>7, <2>QuietGrows, <1>SameWaiting DEF InProgress
  <2>5. ~CycleForcesRule /\ ~CycleSuppliesPriorValue
    BY DEF CycleForcesRule, CycleSuppliesPriorValue
  <2>6. CASE \/ CycleIsReported \/ CycleReadsPastEnd \/ BuildIsDone \/ DrainTasks
             \/ BuildEnds \/ BuildEndsIterationNotStored
    <3>1. UNCHANGED <<state, result, task>>
      BY <2>6 DEF CycleIsReported, CycleReadsPastEnd, BuildIsDone, DrainTasks, BuildEnds,
         BuildEndsIterationNotStored, ruleVars, taskVars
    <3> QED BY <3>1, <2>QuietGrows, <1>SameWaiting DEF InProgress
  <2>7. CASE \/ StartTurn \/ NextQueue \/ EndTurn \/ WaitForTask \/ SpuriousWakeup
             \/ Aside \/ \E k \in Keys : EnqueueFinishedTask(k) \/ NotifyEngine(k)
    <3>1. UNCHANGED <<state, result, task>>
      BY <2>7 DEF StartTurn, NextQueue, EndTurn, WaitForTask, SpuriousWakeup, Aside,
         BuildIsRefused, BuildIsNotStarted, CancelBuild, ResetForBuild, vars, EnqueueFinishedTask,
         NotifyEngine, loopUnchanged, workerUnchanged, ruleVars, taskVars
    <3> QED BY <3>1, <2>QuietGrows, <1>SameWaiting DEF InProgress
  <2> QED BY <2>1, <2>2, <2>3, <2>4, <2>5, <2>6, <2>7
          DEF OfLoop, Next, EngineStep, ClientStep, WorkerStep, ResolveOrReportCycle, Rest, Aside
<1>1. CASE OfLoop
  BY <1>1, <1>LoopStaysComplete, <1>OtherInputs, <1>InputsStep
<1>2. CASE Restart \/ CancelRemainingTasks \/ BuildStarts
  <2>1. taskInfos' = {}
    BY <1>2 DEF Restart, CancelRemainingTasks, BuildStarts, taskVars, Turn
  <2>2. pc' \in {"idle", "teardown", "top"}
    BY <1>2 DEF Restart, CancelRemainingTasks, BuildStarts
  <2>3. \A k \in Keys : InProgress(k)' => k \in taskInfos'
    BY DEF Sound, Live
  <2> QED BY <2>1, <2>3 DEF InputsInv
<1>3. ASSUME NEW j \in Keys, TaskIsComplete(j)
      PROVE  InputsInv'
  <2>1. UNCHANGED <<state, currentEpoch>>
    BY <1>3 DEF TaskIsComplete, workerUnchanged, clientVars
  <2>2. \A k \in Keys : /\ result'[k].builtAt = result[k].builtAt
                        /\ result'[k].dependencies = result[k].dependencies
                        /\ result'[k].singleUse = result[k].singleUse
    BY <1>3, ReportedIs
  <2>3. PICK found : task' = [task EXCEPT ![j].discovered = found]
    BY <1>3 DEF TaskIsComplete
  <2>4. task \in [Keys -> TaskInfo] /\ task[j] \in TaskInfo
    BY DEF TypeOK
  <2>5. task'[j] = [task[j] EXCEPT !.discovered = found] /\ \A k \in Keys : k # j => task'[k] = task[k]
    BY <2>3, <2>4
  <2>6. task'[j].requestedBy = task[j].requestedBy
    BY <2>4, <2>5 DEF TaskInfo
  <2>7. \A k \in Keys : task'[k].requestedBy = task[k].requestedBy
    BY <2>5, <2>6
  <2>8. StaysComplete
    BY <2>1, <2>2 DEF StaysComplete, IsComplete
  <2>9. Grows
    BY <2>1, <2>2 DEF Grows, Recorded, InProgress
  <2> QED BY <2>7, <2>8, <2>9, <1>SameWaiting, <1>InputsStep
<1>4. CASE UNCHANGED vars
  <2>1. UNCHANGED <<state, result, task, currentEpoch>>
    BY <1>4 DEF vars, ruleVars, taskVars, clientVars
  <2> QED BY <2>1 DEF InputsInv, InProgress, IsComplete, WaitsAt, Recorded
<1> QED BY <1>1, <1>2, <1>3, <1>4 DEF OfLoop

-----------------------------------------------------------------------------
(***************************************************************************)
(* What a step leaves of the scan of a rule                                *)
(***************************************************************************)
\* A rule that is scanned is not taken back, nor what forced it to run forgotten.
Leaves(k) ==
  /\ state'[k] = state[k] \/ StartsScan(k) \/ state'[k] \notin {"Incomplete", "IsScanning"}
  /\ ~StartsScan(k) /\ wasForced[k] => wasForced'[k]

SameScanning == \A k \in Keys : IsScanning(k)' <=> IsScanning(k)

\* A step that moves one rule in that way leaves the scans of all.
LEMMA OneLeaves ==
  ASSUME TypeOK, NEW i \in Keys, NEW s, NEW f, state' = [state EXCEPT ![i] = s],
         wasForced' = [wasForced EXCEPT ![i] = f],
         s = state[i] \/ StartsScan(i) \/ s \notin {"Incomplete", "IsScanning"},
         ~StartsScan(i) /\ wasForced[i] => f
  PROVE  \A k \in Keys : /\ Leaves(k)
                         /\ k # i => (IsScanning(k)' <=> IsScanning(k))
                         /\ k = i => (IsScanning(k)' <=> s = "IsScanning") /\ (wasForced'[k] <=> f)
<1>1. \A k \in Keys : state'[k] = IF k = i THEN s ELSE state[k]
  BY DEF TypeOK
<1>2. \A k \in Keys : wasForced'[k] = IF k = i THEN f ELSE wasForced[k]
  BY DEF TypeOK
<1> QED BY <1>1, <1>2 DEF Leaves, IsScanning

\* A rule scanRule leaves scanning.
LEMMA ScanLeaves ==
  ASSUME TypeOK, NEW i \in Keys, ScanState(i) = "IsScanning", ScanRule(i)
  PROVE  /\ \A k \in Keys : Leaves(k) /\ (k # i => (IsScanning(k)' <=> IsScanning(k)))
         /\ IsScanning(i)' /\ (~StartsScan(i) => IsScanning(i)) /\ (StartsScan(i) => ~IsScanning(i))
<1>1. PICK s, f : s = ScanState(i) /\ f = ScanForced(i)
  OBVIOUS
<1>2. state' = [state EXCEPT ![i] = s] /\ wasForced' = [wasForced EXCEPT ![i] = f]
  BY <1>1 DEF ScanRule
<1>3. /\ s = state[i] \/ StartsScan(i)
      /\ ~StartsScan(i) /\ wasForced[i] => f
  BY <1>1 DEF ScanState, ScanForced
<1>4. ~StartsScan(i) => IsScanning(i)
  BY DEF ScanState, IsScanning
<1>5. StartsScan(i) => ~IsScanning(i)
  BY DEF StartsScan
<1> QED BY <1>1, <1>2, <1>3, <1>4, <1>5, OneLeaves

\* A rule demandRule takes on.
LEMMA DemandLeaves ==
  ASSUME TypeOK, NEW i \in Keys, ScanState(i) # "IsScanning", DemandRule(i)
  PROVE  (\A k \in Keys : Leaves(k)) /\ SameScanning /\ ~IsScanning(i)
<1>1. PICK s, f : s = DemandState(i) /\ f = ScanForced(i)
  OBVIOUS
<1>2. state' = [state EXCEPT ![i] = s] /\ wasForced' = [wasForced EXCEPT ![i] = f]
  BY <1>1 DEF DemandRule
<1>3. s = state[i] \/ s \in {"InProgressWaiting", "Complete"}
  BY <1>1, DemandIs
<1>4. s = state[i] \/ s \notin {"Incomplete", "IsScanning"}
  BY <1>3
<1>5. ~StartsScan(i) /\ wasForced[i] => f
  BY <1>1 DEF ScanForced
<1>6. ~IsScanning(i)
  BY DEF ScanState, StartsScan, IsScanning
<1>7. s # "IsScanning"
  BY <1>4, <1>6 DEF IsScanning
<1> QED BY <1>2, <1>4, <1>5, <1>6, <1>7, OneLeaves DEF SameScanning

\* Rules that are left alone.
LEMMA NoneLeaves ==
  ASSUME state' = state, wasForced' = wasForced
  PROVE  (\A k \in Keys : Leaves(k)) /\ SameScanning
BY DEF Leaves, SameScanning, IsScanning

\* No rule was forced to run.
NoForced == \A k \in Keys : ~wasForced[k]

\* Where the delegate breaks no cycle, no rule is forced to run.
LEMMA NextNoForced ==
  ASSUME TypeOK, TypeOK', TRUE \notin ResolveCycle, NoForced, [Next]_vars
  PROVE  NoForced'
<1>1. ASSUME NEW i \in Keys, wasForced' = [wasForced EXCEPT ![i] = ScanForced(i)]
      PROVE  NoForced'
  <2>1. \A k \in Keys : wasForced'[k] = IF k = i THEN ScanForced(i) ELSE wasForced[k]
    BY <1>1 DEF TypeOK
  <2>2. ~ScanForced(i)
    BY DEF ScanForced, NoForced
  <2> QED BY <2>1, <2>2 DEF NoForced
<1>2. CASE wasForced' = wasForced
  BY <1>2 DEF NoForced
<1>3. CASE ProcessRuleScanRequest
  <2>1. CASE ScanDropped \/ ScanSkips \/ ScanReachesEnd
    BY <1>2, <2>1 DEF ScanDropped, ScanSkips, ScanReachesEnd, ruleVars
  <2>2. CASE ScanDefersOnScan \/ ScanDefersOnTask \/ ScanNextInput \/ ScanFindsRebuiltInput
    <3>1. PICK i \in Keys : i = ScanInput
      BY <2>2, ScanTopTypes DEF ScanDefersOnScan, ScanDefersOnTask, ScanNextInput,
         ScanFindsRebuiltInput, AtInput, Scanning
    <3>2. wasForced' = [wasForced EXCEPT ![i] = ScanForced(i)]
      BY <2>2, <3>1 DEF ScanDefersOnScan, ScanDefersOnTask, ScanNextInput,
         ScanFindsRebuiltInput, ScanRule, DemandRule
    <3> QED BY <1>1, <3>2
  <2> QED BY <1>3, <2>1, <2>2 DEF ProcessRuleScanRequest
<1>4. CASE ProcessInputRequest
  <2>1. PICK i \in Keys : i = RequestInput
    BY <1>4, RequestTypes DEF ProcessInputRequest, InputPauses, InputIsDummy,
       InputIsAvailable, InputIsPending, AtRequest
  <2>2. wasForced' = [wasForced EXCEPT ![i] = ScanForced(i)]
    BY <1>4, <2>1 DEF ProcessInputRequest, InputPauses, InputIsDummy, InputIsAvailable,
       InputIsPending, ScanRule, DemandRule
  <2> QED BY <1>1, <2>2
<1>5. CASE Restart
  BY <1>5 DEF Restart, NoForced
<1>6. CASE \/ ProcessFinishedInput \/ ProcessReadyTask \/ ProcessFinishedTask
           \/ FinishedTaskNotStored \/ ResolveOrReportCycle \/ CancelRemainingTasks
           \/ BuildIsDone \/ DrainTasks \/ BuildEnds \/ BuildEndsIterationNotStored
  BY <1>2, <1>6 DEF ProcessFinishedInput, ProcessReadyTask, ProcessFinishedTask,
     FinishedTaskNotStored, ResolveOrReportCycle, CycleForcesRule, CycleSuppliesPriorValue,
     CycleIsReported, CycleReadsPastEnd, CancelRemainingTasks, BuildIsDone, DrainTasks,
     BuildEnds, BuildEndsIterationNotStored, ruleVars
<1>7. CASE \/ StartTurn \/ NextQueue \/ EndTurn \/ WaitForTask \/ SpuriousWakeup
           \/ Aside \/ BuildStarts \/ \E k \in Keys : WorkerStep(k)
  BY <1>2, <1>7 DEF StartTurn, NextQueue, EndTurn, WaitForTask, SpuriousWakeup, Aside,
     BuildIsRefused, BuildIsNotStarted, CancelBuild, ResetForBuild, BuildStarts, vars,
     WorkerStep, TaskIsComplete, EnqueueFinishedTask, NotifyEngine, loopUnchanged,
     workerUnchanged, ruleVars
<1> QED BY <1>3, <1>4, <1>5, <1>6, <1>7
        DEF Next, EngineStep, ClientStep, Rest, Aside

=============================================================================
