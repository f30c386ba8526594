---------------------------- MODULE BuildEngine ----------------------------
(***************************************************************************)
(* The incremental build engine of llbuild (lib/Core/BuildEngine.cpp).     *)
(*                                                                         *)
(* One engine thread runs executeTasks(): a loop over five queues, one     *)
(* action per kind of queue item below.  Tasks compute on other threads    *)
(* and report back through taskIsComplete(); a client may cancel at any    *)
(* time; the process may die at any time and a new engine then starts from *)
(* what the database had committed.                                        *)
(*                                                                         *)
(* A rule has at most one task at a time, so a task is named by the key of *)
(* its rule.                                                               *)
(*                                                                         *)
(* A definition D_X in front of D is D with the mistake X: a run repeated  *)
(* with D_X for D has to fail, which shows that it would find the mistake. *)
(***************************************************************************)
EXTENDS BuildClient, Functions

CONSTANTS
  MaxEpoch,      \* bound on the number of builds
  MaxCancels,    \* bound on the number of cancelBuild() calls
  MaxRestarts,   \* bound on the number of process restarts (or crashes)
  MaxFaults,     \* bound on the number of failing database operations
  BuildKeys,     \* the keys a client asks for
  ResolveCycle   \* the answers shouldResolveCycle may give

ASSUME BoundsAssumption ==
  /\ {MaxEpoch, MaxCancels, MaxRestarts, MaxFaults} \subseteq Nat
  /\ BuildKeys \subseteq Keys
  /\ ResolveCycle \subseteq BOOLEAN

VARIABLES
  \* RuleInfo
  state,                 \* RuleInfo::state
  wasForced,             \* RuleInfo::wasForced
  result,                \* RuleInfo::result
  \* RuleScanRecord of a rule that is scanning
  pausedInputRequests, deferredScanRequests,
  \* queues of the engine loop
  ruleInfosToScan, inputRequests, finishedInputRequests,
  readyTaskInfos, finishedTaskInfos,
  \* TaskInfo and the threads that compute
  taskInfos,             \* the keys whose rule has a live task
  task,                  \* the TaskInfo of each key
  numOutstanding,        \* numOutstandingUnfinishedTasks
  worker,                \* where the thread computing the task of a key is
  \* the engine thread
  pc, didWork, buildKey, success,
  \* the engine object and its client
  currentEpoch, buildCancelled, outcome,
  world, manifest,       \* the external state; changes between builds only
  \* the database: what is committed, and the open transaction
  db, tx,
  budget                 \* what is left of each bound

ruleVars   == <<state, wasForced, result, pausedInputRequests, deferredScanRequests>>
queueVars  == <<ruleInfosToScan, inputRequests, finishedInputRequests, readyTaskInfos>>
taskVars   == <<taskInfos, task>>
workVars   == <<finishedTaskInfos, worker>>
clientVars == <<currentEpoch, outcome, world, manifest, db, budget>>
vars == <<ruleVars, queueVars, taskVars, workVars, numOutstanding, pc, didWork,
          buildKey, success, buildCancelled, tx, clientVars>>

-----------------------------------------------------------------------------
\* The last element of a vector, the vector without it, and without element i.
Back(s) == s[Len(s)]
PopBack(s) == SubSeq(s, 1, Len(s) - 1)
Erase_Nothing(s, i) == s
Erase(s, i) == SubSeq(s, 1, i - 1) \o SubSeq(s, i + 1, Len(s))

RuleStates == {"Incomplete", "IsScanning", "NeedsToRun", "DoesNotNeedToRun",
               "InProgressWaiting", "InProgressComputing", "Complete"}

AnyValue == Values \cup {Cancelled, NoValue}
Signatures == {Signature(k, m) : k \in Keys, m \in Manifests} \cup {NoValue}

\* The code keeps the single use inputs in the list of dependencies, flagged;
\* they are dropped before any other build looks at the list.
Result == [value : AnyValue, signature : Signatures, computedAt : Nat,
           builtAt : Nat, dependencies : Seq(Dependency), singleUse : SUBSET Keys]

NoResult == [value |-> NoValue, signature |-> NoValue, computedAt |-> 0,
             builtAt |-> 0, dependencies |-> <<>>, singleUse |-> {}]

\* TaskInputRequest; task is NoKey for a dummy request, which nobody waits for.
RequestsFrom(T) == [task : T, input : Keys, orderOnly : BOOLEAN,
                    singleUse : BOOLEAN, forcePriorValue : BOOLEAN]
InputRequest == RequestsFrom(Keys \cup {NoKey})
PendingRequest == RequestsFrom(Keys)

\* RuleScanRequest; the input is the dependency of the rule at inputIndex.
ScanRequest == [rule : Keys, inputIndex : Nat \ {0}, needsToRun : BOOLEAN]

TaskInfo == [waitCount : Int, requestedBy : Seq(PendingRequest),
             deferredScans : Seq(ScanRequest), discovered : Seq(Dependency),
             provided : Provided]

NewTask == [waitCount |-> 0, requestedBy |-> <<>>, deferredScans |-> <<>>,
            discovered |-> <<>>, provided |-> [k \in Keys |-> NoValue]]

WorkerStates == {"none", "running", "reported", "queued"}

PCs == {"idle", "top", "scan", "input", "provide", "ready", "finish", "wait",
        "waiting", "drain", "drainWaiting", "teardown", "crashed"}

Database == [results : [Keys -> Result], iteration : Nat]

TypeOK ==
  /\ state \in [Keys -> RuleStates]
  /\ wasForced \in [Keys -> BOOLEAN]
  /\ result \in [Keys -> Result]
  /\ pausedInputRequests \in [Keys -> Seq(InputRequest)]
  /\ deferredScanRequests \in [Keys -> Seq(ScanRequest)]
  /\ ruleInfosToScan \in Seq(ScanRequest)
  /\ inputRequests \in Seq(InputRequest)
  /\ finishedInputRequests \in Seq(PendingRequest)
  /\ readyTaskInfos \in Seq(Keys)
  /\ finishedTaskInfos \in Seq(Keys)
  /\ taskInfos \subseteq Keys
  /\ task \in [Keys -> TaskInfo]
  /\ numOutstanding \in Int
  /\ worker \in [Keys -> WorkerStates]
  /\ pc \in PCs
  /\ didWork \in BOOLEAN
  /\ buildKey \in Keys \cup {NoKey}
  /\ success \in BOOLEAN
  /\ currentEpoch \in Nat
  /\ buildCancelled \in BOOLEAN
  /\ outcome \in {"none", "success", "empty"}
  /\ world \in Worlds
  /\ manifest \in Manifests
  /\ db \in Database
  /\ tx \in Database
  /\ budget \in [cancels : Nat, restarts : Nat, faults : Nat]

Init ==
  /\ state = [k \in Keys |-> "Incomplete"]
  /\ wasForced = [k \in Keys |-> FALSE]
  /\ result = [k \in Keys |-> NoResult]
  /\ pausedInputRequests = [k \in Keys |-> <<>>]
  /\ deferredScanRequests = [k \in Keys |-> <<>>]
  /\ ruleInfosToScan = <<>>
  /\ inputRequests = <<>>
  /\ finishedInputRequests = <<>>
  /\ readyTaskInfos = <<>>
  /\ finishedTaskInfos = <<>>
  /\ taskInfos = {}
  /\ task = [k \in Keys |-> NewTask]
  /\ numOutstanding = 0
  /\ worker = [k \in Keys |-> "none"]
  /\ pc = "idle"
  /\ didWork = FALSE
  /\ buildKey = NoKey
  /\ success = FALSE
  /\ currentEpoch = 0
  /\ buildCancelled = FALSE
  /\ outcome = "none"
  /\ world \in Worlds
  /\ manifest \in Manifests
  /\ db = [results |-> [k \in Keys |-> NoResult], iteration |-> 0]
  /\ tx = db
  /\ budget = [cancels |-> MaxCancels, restarts |-> MaxRestarts,
               faults |-> MaxFaults]

-----------------------------------------------------------------------------
(***************************************************************************)
(* scanRule and demandRule                                                 *)
(***************************************************************************)
IsComplete(k) == state[k] = "Complete" /\ result[k].builtAt = currentEpoch

IsScanned(k) ==
  IF state[k] = "Complete" THEN IsComplete(k)
  ELSE state[k] \notin {"Incomplete", "IsScanning"}

IsScanning(k) == state[k] = "IsScanning"

InProgress(k) == state[k] \in {"InProgressWaiting", "InProgressComputing"}

\* scanRule(k) has to look at the rule: it is neither scanned nor scanning.
StartsScan(k) == ~IsScanned(k) /\ ~IsScanning(k)

\* The result of k is known to be out of date before any input is looked at.
OutOfDate_NoSignature(k) == ~IsResultValid(k, result[k].value, world)

OutOfDate(k) ==
  \/ result[k].signature # Signature(k, manifest)
  \/ ~IsResultValid(k, result[k].value, world)

\* The inputs of a result that is valid by itself are not looked at.
ScanState_NoScan(k) ==
  IF ~StartsScan(k) THEN state[k]
  ELSE IF result[k].builtAt = 0 \/ OutOfDate(k) THEN "NeedsToRun"
  ELSE "DoesNotNeedToRun"

\* The rule state scanRule(k) leaves; the rule is left to its scan request when
\* that is IsScanning, and scanRule() then returns false.
ScanState(k) ==
  IF ~StartsScan(k) THEN state[k]
  ELSE IF result[k].builtAt = 0 THEN "NeedsToRun"
  ELSE IF result[k].dependencies # <<>> /\ (OutOfDate(k) => ChecksBefore(k))
       THEN "IsScanning"
  ELSE IF OutOfDate(k) THEN "NeedsToRun"
  ELSE "DoesNotNeedToRun"

\* cleanSingleUseDependencies()
ScanResult(k) ==
  IF StartsScan(k) THEN [result[k] EXCEPT !.singleUse = {}] ELSE result[k]

NewScanRequests_FromZero(k) ==
  IF StartsScan(k) /\ ScanState(k) = "IsScanning"
  THEN <<[rule |-> k, inputIndex |-> 0, needsToRun |-> OutOfDate(k)]>> ELSE <<>>

NewScanRequests(k) ==
  IF StartsScan(k) /\ ScanState(k) = "IsScanning"
  THEN <<[rule |-> k, inputIndex |-> 1, needsToRun |-> OutOfDate(k)]>> ELSE <<>>

ScanForced(k) == IF StartsScan(k) THEN FALSE ELSE wasForced[k]

\* scanRule(k), where the rule is left scanning.
ScanRule(k) ==
  /\ state' = [state EXCEPT ![k] = ScanState(k)]
  /\ result' = [result EXCEPT ![k] = ScanResult(k)]
  /\ wasForced' = [wasForced EXCEPT ![k] = ScanForced(k)]

\* What demandRule(k) leaves, called right after scanRule(k) returned true.
DemandState(k) ==
  CASE ScanState(k) = "DoesNotNeedToRun" -> "Complete"
    [] ScanState(k) = "NeedsToRun"       -> "InProgressWaiting"
    [] OTHER                             -> ScanState(k)

DemandResult(k) ==
  CASE ScanState(k) = "DoesNotNeedToRun" ->
         [ScanResult(k) EXCEPT !.builtAt = currentEpoch]
    [] ScanState(k) = "NeedsToRun"       ->
         [ScanResult(k) EXCEPT !.dependencies = <<>>, !.singleUse = {}]
    [] OTHER                             -> ScanResult(k)

Available(k) == DemandState(k) = "Complete"

\* addTaskInputRequest, for the calls a task makes in one callback.
AsRequests(k, requests) ==
  [n \in DOMAIN requests |-> [task |-> k, input |-> requests[n].key,
                              orderOnly |-> requests[n].orderOnly,
                              singleUse |-> requests[n].singleUse,
                              forcePriorValue |-> FALSE]]

\* A dummy request for a key.
DummyRequest(k) == [task |-> NoKey, input |-> k, orderOnly |-> FALSE,
                    singleUse |-> FALSE, forcePriorValue |-> FALSE]

\* demandRule(k) creates and starts the task of k.
Starts(k) == ScanState(k) = "NeedsToRun"

StartedRequests(k) ==
  IF Starts(k) THEN AsRequests(k, StartRequests(k, manifest, world)) ELSE <<>>

StartedTask(k) ==
  IF Starts(k)
  THEN [task EXCEPT ![k] = [NewTask EXCEPT !.waitCount = Len(StartedRequests(k))]]
  ELSE task

\* The part of demandRule(k) that is the same for every caller.
DemandRule(k) ==
  /\ state' = [state EXCEPT ![k] = DemandState(k)]
  /\ wasForced' = [wasForced EXCEPT ![k] = ScanForced(k)]
  /\ taskInfos' = IF Starts(k) THEN taskInfos \cup {k} ELSE taskInfos
  /\ readyTaskInfos' = IF Starts(k) /\ StartedRequests(k) = <<>>
                       THEN Append(readyTaskInfos, k) ELSE readyTaskInfos

-----------------------------------------------------------------------------
(***************************************************************************)
(* The scan loop.  processRuleScanRequest() walks over the inputs of one   *)
(* rule; a step here looks at one input, and leaves the request on top of  *)
(* the stack, with the next index, when the walk goes on.                  *)
(***************************************************************************)
ScanTop == Back(ruleInfosToScan)
ScanRest == PopBack(ruleInfosToScan)
ScanDeps == result[ScanTop.rule].dependencies
ScanDep == ScanDeps[ScanTop.inputIndex]
ScanInput == ScanDep.key

Scanning == pc = "scan" /\ ruleInfosToScan # <<>> /\ didWork' = TRUE

\* The walk is at an input that has to be scanned and demanded.
AtInput ==
  /\ Scanning
  /\ IsScanning(ScanTop.rule)
  /\ ScanTop.inputIndex <= Len(ScanDeps)
  /\ ScanTop.needsToRun => MustCheck(ScanTop.rule, ScanInput)

engineUnchanged == <<workVars, pc, buildKey, success, buildCancelled, tx, clientVars>>

\* finishScanRequest(k, newState), less the assignment of the state; rest is
\* what is left of ruleInfosToScan.
FinishScanRequest_DropsScans(k, rest) ==
  /\ ruleInfosToScan' = rest
  /\ inputRequests' = inputRequests \o pausedInputRequests[k]
  /\ deferredScanRequests' = [deferredScanRequests EXCEPT ![k] = <<>>]
  /\ pausedInputRequests' = [pausedInputRequests EXCEPT ![k] = <<>>]

FinishScanRequest(k, rest) ==
  /\ ruleInfosToScan' = rest \o deferredScanRequests[k]
  /\ inputRequests' = inputRequests \o pausedInputRequests[k]
  /\ deferredScanRequests' = [deferredScanRequests EXCEPT ![k] = <<>>]
  /\ pausedInputRequests' = [pausedInputRequests EXCEPT ![k] = <<>>]

\* The rule was forced to run while its scan request was deferred.
ScanDropped ==
  /\ Scanning
  /\ ~IsScanning(ScanTop.rule)
  /\ ruleInfosToScan' = ScanRest
  /\ UNCHANGED <<ruleVars, inputRequests, finishedInputRequests, readyTaskInfos,
                 taskVars, numOutstanding, engineUnchanged>>

\* The rule already has to run, and does not want this input checked first.
ScanSkips ==
  /\ Scanning
  /\ IsScanning(ScanTop.rule)
  /\ ScanTop.inputIndex <= Len(ScanDeps)
  /\ ScanTop.needsToRun /\ ~MustCheck(ScanTop.rule, ScanInput)
  /\ ruleInfosToScan' = Append(ScanRest, [ScanTop EXCEPT !.inputIndex = @ + 1])
  /\ UNCHANGED <<ruleVars, inputRequests, finishedInputRequests, readyTaskInfos,
                 taskVars, numOutstanding, engineUnchanged>>

\* The input is being scanned: wait for its scan.
ScanDefersOnScan ==
  /\ AtInput
  /\ ScanState(ScanInput) = "IsScanning"
  /\ ScanRule(ScanInput)
  /\ ruleInfosToScan' = ScanRest \o NewScanRequests(ScanInput)
  /\ deferredScanRequests' = [deferredScanRequests EXCEPT
                                ![ScanInput] = Append(@, ScanTop)]
  /\ UNCHANGED <<pausedInputRequests, inputRequests, finishedInputRequests,
                 readyTaskInfos, taskVars, numOutstanding, engineUnchanged>>

\* The input has to run, or is running: wait for its task.
ScanDefersOnTask ==
  /\ AtInput
  /\ ScanState(ScanInput) # "IsScanning"
  /\ ~Available(ScanInput)
  /\ DemandRule(ScanInput)
  /\ result' = [result EXCEPT ![ScanInput] = DemandResult(ScanInput)]
  /\ inputRequests' = inputRequests \o StartedRequests(ScanInput)
  /\ task' = [StartedTask(ScanInput) EXCEPT
                ![ScanInput].deferredScans = Append(@, ScanTop)]
  /\ ruleInfosToScan' = ScanRest
  /\ UNCHANGED <<pausedInputRequests, deferredScanRequests, finishedInputRequests,
                 numOutstanding, engineUnchanged>>

\* The available input was computed after the rule was last built.
InputRebuilt_SameBuild ==
  /\ ~ScanDep.orderOnly
  /\ ~ScanTop.needsToRun
  /\ result[ScanTop.rule].builtAt <= DemandResult(ScanInput).computedAt

InputRebuilt ==
  /\ ~ScanDep.orderOnly
  /\ ~ScanTop.needsToRun
  /\ result[ScanTop.rule].builtAt < DemandResult(ScanInput).computedAt

\* The input is available: the walk goes on, or the rule has to run.
ScanNextInput ==
  /\ AtInput
  /\ Available(ScanInput)
  /\ \/ ~InputRebuilt
     \/ ChecksBefore(ScanTop.rule)
  /\ DemandRule(ScanInput)
  /\ result' = [result EXCEPT ![ScanInput] = DemandResult(ScanInput)]
  /\ ruleInfosToScan' =
       Append(ScanRest, [ScanTop EXCEPT !.inputIndex = @ + 1,
                                        !.needsToRun = @ \/ InputRebuilt])
  /\ UNCHANGED <<pausedInputRequests, deferredScanRequests, inputRequests,
                 finishedInputRequests, task, numOutstanding, engineUnchanged>>

ScanFindsRebuiltInput ==
  /\ AtInput
  /\ Available(ScanInput)
  /\ InputRebuilt
  /\ ~ChecksBefore(ScanTop.rule)
  /\ FinishScanRequest(ScanTop.rule, ScanRest)
  /\ state' = [state EXCEPT ![ScanInput] = "Complete",
                            ![ScanTop.rule] = "NeedsToRun"]
  /\ result' = [result EXCEPT ![ScanInput] = DemandResult(ScanInput)]
  /\ wasForced' = [wasForced EXCEPT ![ScanInput] = ScanForced(ScanInput)]
  /\ UNCHANGED <<finishedInputRequests, readyTaskInfos, taskVars,
                 numOutstanding, engineUnchanged>>

ScanReachesEnd ==
  /\ Scanning
  /\ IsScanning(ScanTop.rule)
  /\ ScanTop.inputIndex > Len(ScanDeps)
  /\ FinishScanRequest(ScanTop.rule, ScanRest)
  /\ state' = [state EXCEPT ![ScanTop.rule] =
                 IF ScanTop.needsToRun THEN "NeedsToRun" ELSE "DoesNotNeedToRun"]
  /\ UNCHANGED <<wasForced, result, finishedInputRequests, readyTaskInfos,
                 taskVars, numOutstanding, engineUnchanged>>

ProcessRuleScanRequest ==
  \/ ScanDropped \/ ScanSkips \/ ScanDefersOnScan \/ ScanDefersOnTask
  \/ ScanNextInput \/ ScanFindsRebuiltInput \/ ScanReachesEnd

-----------------------------------------------------------------------------
(***************************************************************************)
(* The input request loop                                                  *)
(***************************************************************************)
Request == Head(inputRequests)
RequestInput == Request.input

AtRequest == pc = "input" /\ inputRequests # <<>> /\ didWork' = TRUE

\* result.dependencies.push_back for the rule whose task made the request.
RecordDependency(results) ==
  IF Request.singleUse
  THEN [results EXCEPT ![Request.task].singleUse = @ \cup {RequestInput}]
  ELSE [results EXCEPT ![Request.task].dependencies =
          Append(@, [key |-> RequestInput, orderOnly |-> Request.orderOnly])]

\* The input is being scanned: pause the request until it has been.
InputPauses ==
  /\ AtRequest
  /\ ScanState(RequestInput) = "IsScanning"
  /\ ScanRule(RequestInput)
  /\ ruleInfosToScan' = ruleInfosToScan \o NewScanRequests(RequestInput)
  /\ pausedInputRequests' = [pausedInputRequests EXCEPT
                               ![RequestInput] = Append(@, Request)]
  /\ inputRequests' = Tail(inputRequests)
  /\ UNCHANGED <<deferredScanRequests, finishedInputRequests, readyTaskInfos,
                 taskVars, numOutstanding, engineUnchanged>>

\* A dummy request, for the key to build or a discovered dependency.
InputIsDummy ==
  /\ AtRequest
  /\ ScanState(RequestInput) # "IsScanning"
  /\ Request.task = NoKey
  /\ DemandRule(RequestInput)
  /\ result' = [result EXCEPT ![RequestInput] = DemandResult(RequestInput)]
  /\ inputRequests' = Tail(inputRequests) \o StartedRequests(RequestInput)
  /\ task' = StartedTask(RequestInput)
  /\ UNCHANGED <<pausedInputRequests, deferredScanRequests, ruleInfosToScan,
                 finishedInputRequests, numOutstanding, engineUnchanged>>

InputIsAvailable ==
  /\ AtRequest
  /\ ScanState(RequestInput) # "IsScanning"
  /\ Request.task # NoKey
  /\ Available(RequestInput)
  /\ DemandRule(RequestInput)
  /\ result' = RecordDependency([result EXCEPT
                                   ![RequestInput] = DemandResult(RequestInput)])
  /\ finishedInputRequests' = Append(finishedInputRequests, Request)
  /\ inputRequests' = Tail(inputRequests)
  /\ UNCHANGED <<pausedInputRequests, deferredScanRequests, ruleInfosToScan,
                 task, numOutstanding, engineUnchanged>>

InputIsPending ==
  /\ AtRequest
  /\ ScanState(RequestInput) # "IsScanning"
  /\ Request.task # NoKey
  /\ ~Available(RequestInput)
  /\ DemandRule(RequestInput)
  /\ result' = RecordDependency([result EXCEPT
                                   ![RequestInput] = DemandResult(RequestInput)])
  /\ inputRequests' = Tail(inputRequests) \o StartedRequests(RequestInput)
  /\ task' = [StartedTask(RequestInput) EXCEPT
                ![RequestInput].requestedBy = Append(@, Request)]
  /\ UNCHANGED <<pausedInputRequests, deferredScanRequests, ruleInfosToScan,
                 finishedInputRequests, numOutstanding, engineUnchanged>>

ProcessInputRequest ==
  InputPauses \/ InputIsDummy \/ InputIsAvailable \/ InputIsPending

-----------------------------------------------------------------------------
(***************************************************************************)
(* The finished input, ready task and finished task loops                  *)
(***************************************************************************)
\* The wait count of a task that was provided a value and made more requests
\* (addTaskInputRequest and decrementTaskWaitCount).
WaitCountAfter_MoreNotCounted(t, more) == task[t].waitCount - 1

WaitCountAfter(t, more) == task[t].waitCount + Len(more) - 1

BecomesReady_Early(wait) == wait <= 1

BecomesReady(wait) == wait = 0

\* provideValue(), the requests the task makes from it, and
\* decrementTaskWaitCount().
ProcessFinishedInput ==
  /\ pc = "provide"
  /\ finishedInputRequests # <<>>
  /\ didWork' = TRUE
  /\ LET request  == Back(finishedInputRequests)
         t        == request.task
         value    == result[request.input].value
         more     == IF request.orderOnly THEN <<>>
                     ELSE AsRequests(t, MoreRequests(t, request.input, value, manifest))
         wait     == WaitCountAfter(t, more)
         provided == IF request.orderOnly THEN task[t].provided
                     ELSE [task[t].provided EXCEPT ![request.input] = value]
     IN  /\ finishedInputRequests' = PopBack(finishedInputRequests)
         /\ inputRequests' = inputRequests \o more
         /\ task' = [task EXCEPT ![t].waitCount = wait, ![t].provided = provided]
         /\ readyTaskInfos' = IF BecomesReady(wait) THEN Append(readyTaskInfos, t)
                              ELSE readyTaskInfos
  /\ UNCHANGED <<ruleVars, ruleInfosToScan, taskInfos, numOutstanding,
                 engineUnchanged>>

\* setComputing() and inputsAvailable(), from where another thread takes over.
ProcessReadyTask ==
  /\ pc = "ready"
  /\ readyTaskInfos # <<>>
  /\ didWork' = TRUE
  /\ LET k == Head(readyTaskInfos)
     IN  /\ state' = [state EXCEPT ![k] = "InProgressComputing"]
         /\ worker' = [worker EXCEPT ![k] = "running"]
  /\ readyTaskInfos' = Tail(readyTaskInfos)
  /\ numOutstanding' = numOutstanding + 1
  /\ UNCHANGED <<wasForced, result, pausedInputRequests, deferredScanRequests,
                 ruleInfosToScan, inputRequests, finishedInputRequests, taskVars,
                 finishedTaskInfos, pc, buildKey, success, buildCancelled, tx,
                 clientVars>>

\* setComplete(), and the discovered dependencies added to the others.
CompletedResult_NoDiscovered(k) == [result[k] EXCEPT !.builtAt = currentEpoch]

CompletedResult_NotBuilt(k) ==
  [result[k] EXCEPT !.dependencies = @ \o task[k].discovered]

CompletedResult(k) == [result[k] EXCEPT !.builtAt = currentEpoch,
                                        !.dependencies = @ \o task[k].discovered]

\* The rule state and the dummy requests a finished task leaves, whether or
\* not the database then accepts the result.
CompleteRule_StillOutstanding(k) ==
  LET discovered == task[k].discovered
  IN  /\ state' = [state EXCEPT ![k] = "Complete"]
      /\ result' = [result EXCEPT ![k] = CompletedResult(k)]
      /\ inputRequests' = inputRequests \o
           [n \in DOMAIN discovered |-> DummyRequest(discovered[n].key)]
      /\ finishedTaskInfos' = PopBack(finishedTaskInfos)
      /\ UNCHANGED numOutstanding

CompleteRule(k) ==
  LET discovered == task[k].discovered
  IN  /\ state' = [state EXCEPT ![k] = "Complete"]
      /\ result' = [result EXCEPT ![k] = CompletedResult(k)]
      /\ inputRequests' = inputRequests \o
           [n \in DOMAIN discovered |-> DummyRequest(discovered[n].key)]
      /\ finishedTaskInfos' = PopBack(finishedTaskInfos)
      /\ numOutstanding' = numOutstanding - 1

ProcessFinishedTask ==
  /\ pc = "finish"
  /\ finishedTaskInfos # <<>>
  /\ didWork' = TRUE
  /\ LET k == Back(finishedTaskInfos)
     IN  /\ CompleteRule(k)
         /\ tx' = [tx EXCEPT !.results[k] = result'[k]]
         /\ ruleInfosToScan' = ruleInfosToScan \o task[k].deferredScans
         /\ finishedInputRequests' = finishedInputRequests \o task[k].requestedBy
         /\ taskInfos' = taskInfos \ {k}
         /\ task' = [task EXCEPT ![k] = NewTask]
  /\ UNCHANGED <<wasForced, pausedInputRequests, deferredScanRequests,
                 readyTaskInfos, worker, pc, buildKey, success, buildCancelled,
                 clientVars>>

\* setRuleResult() fails: the build is given up, with the task still in
\* taskInfos.
FinishedTaskNotStored_KeepsTasks ==
  /\ pc = "finish"
  /\ finishedTaskInfos # <<>>
  /\ budget.faults > 0
  /\ budget' = [budget EXCEPT !.faults = @ - 1]
  /\ CompleteRule(Back(finishedTaskInfos))
  /\ didWork' = TRUE
  /\ pc' = "teardown"
  /\ UNCHANGED <<wasForced, pausedInputRequests, deferredScanRequests,
                 ruleInfosToScan, finishedInputRequests, readyTaskInfos, taskVars,
                 worker, buildKey, success, buildCancelled, tx, currentEpoch,
                 outcome, world, manifest, db>>

FinishedTaskNotStored ==
  /\ pc = "finish"
  /\ finishedTaskInfos # <<>>
  /\ budget.faults > 0
  /\ budget' = [budget EXCEPT !.faults = @ - 1]
  /\ CompleteRule(Back(finishedTaskInfos))
  /\ didWork' = TRUE
  /\ pc' = "drain"
  /\ UNCHANGED <<wasForced, pausedInputRequests, deferredScanRequests,
                 ruleInfosToScan, finishedInputRequests, readyTaskInfos, taskVars,
                 worker, buildKey, success, buildCancelled, tx, currentEpoch,
                 outcome, world, manifest, db>>

-----------------------------------------------------------------------------
(***************************************************************************)
(* The loop itself                                                         *)
(***************************************************************************)
loopUnchanged == <<ruleVars, queueVars, taskVars, workVars, numOutstanding,
                   buildKey, success, buildCancelled, tx, clientVars>>

\* One turn of the loop starts; a cancelled build is given up here only.
StartTurn ==
  /\ pc = "top"
  /\ pc' = IF buildCancelled THEN "drain" ELSE "scan"
  /\ didWork' = FALSE
  /\ UNCHANGED loopUnchanged

\* A queue is found empty, the next one is looked at.
NextQueue ==
  /\ \/ pc = "scan"    /\ ruleInfosToScan = <<>>       /\ pc' = "input"
     \/ pc = "input"   /\ inputRequests = <<>>         /\ pc' = "provide"
     \/ pc = "provide" /\ finishedInputRequests = <<>> /\ pc' = "ready"
     \/ pc = "ready"   /\ readyTaskInfos = <<>>        /\ pc' = "finish"
     \/ pc = "finish"  /\ finishedTaskInfos = <<>>     /\ pc' = "wait"
  /\ UNCHANGED <<didWork, loopUnchanged>>

\* Something was done in this turn: take another one.
EndTurn ==
  /\ pc = "wait"
  /\ didWork
  /\ pc' = "top"
  /\ UNCHANGED <<didWork, loopUnchanged>>

\* Nothing was done and tasks are computing: wait for one, unless one has been
\* queued since the queue was looked at.
WaitForTask_NoRecheck ==
  /\ pc = "wait"
  /\ ~didWork
  /\ numOutstanding # 0
  /\ pc' = "waiting"
  /\ UNCHANGED <<didWork, loopUnchanged>>

WaitForTask ==
  /\ pc = "wait"
  /\ ~didWork
  /\ numOutstanding # 0
  /\ pc' = IF finishedTaskInfos = <<>> THEN "waiting" ELSE "top"
  /\ UNCHANGED <<didWork, loopUnchanged>>

\* A condition variable may wake up by itself.
SpuriousWakeup ==
  /\ \/ pc = "waiting" /\ pc' = "top"
     \/ pc = "drainWaiting" /\ pc' = "drain"
  /\ UNCHANGED <<didWork, loopUnchanged>>

\* Nothing was done and nothing is left to do.
NoWorkLeft == pc = "wait" /\ ~didWork /\ numOutstanding = 0

BuildIsDone ==
  /\ NoWorkLeft
  /\ taskInfos = {}
  /\ pc' = IF IsComplete(buildKey) THEN "teardown" ELSE "drain"
  /\ success' = IsComplete(buildKey)
  /\ UNCHANGED <<ruleVars, queueVars, taskVars, workVars, numOutstanding, didWork,
                 buildKey, buildCancelled, tx, clientVars>>

-----------------------------------------------------------------------------
(***************************************************************************)
(* Cycles                                                                  *)
(***************************************************************************)
\* predecessorGraph: the rules that rule n is waiting for.
WaitsFor_NoScans(n) ==
  {k \in taskInfos : \/ \E r \in Range(task[k].requestedBy) : r.task = n
                     \/ \E q \in Range(task[k].deferredScans) : q.rule = n}

WaitsFor(n) ==
  {k \in taskInfos : \/ \E r \in Range(task[k].requestedBy) : r.task = n
                     \/ \E q \in Range(task[k].deferredScans) : q.rule = n}
  \cup
  {k \in Keys : /\ IsScanning(k)
                /\ \/ \E r \in Range(pausedInputRequests[k]) : r.task = n
                   \/ \E q \in Range(deferredScanRequests[k]) : q.rule = n}

\* The walks from the key to build along predecessors that end at the first
\* rule met twice.
CycleWalks ==
  {s \in UNION {[1 .. n -> Keys] : n \in 2 .. Cardinality(Keys) + 1} :
     /\ s[1] = buildKey
     /\ \A j \in 1 .. Len(s) - 1 : s[j + 1] \in WaitsFor(s[j])
     /\ IsInjective(PopBack(s))
     /\ Back(s) \in Range(PopBack(s))}

LexLess(s, t) ==
  \E j \in DOMAIN s \cap DOMAIN t :
    /\ s[j] < t[j]
    /\ \A h \in 1 .. j - 1 : s[h] = t[h]

\* findCycle: the depth-first search takes predecessors in the order of their
\* keys, so it stops at the lexicographically first walk.
IsCycleList(list) ==
  list \in CycleWalks /\ \A other \in CycleWalks : ~LexLess(other, list)

\* The first request of the task of rule `to` for the value of k.
FirstRequest(k, to, at) ==
  LET requests == task[k].requestedBy
  IN  /\ at \in DOMAIN requests
      /\ requests[at].task = to
      /\ \A h \in 1 .. at - 1 : requests[h].task # to

WaitsWithPriorValue(k) ==
  state[k] = "InProgressWaiting" /\ result[k].builtAt # 0

\* breakCycle looks at the rule at position j of the list and stops there; at
\* the first position there is no next rule to look up.
StopsAt(list, j) ==
  \/ IsScanning(list[j])
  \/ /\ WaitsWithPriorValue(list[j])
     /\ j > 1 => \E r \in Range(task[list[j]].requestedBy) : r.task = list[j - 1]

BreakPosition(list, j) ==
  StopsAt(list, j) /\ \A h \in DOMAIN list : h > j => ~StopsAt(list, h)

Stuck == NoWorkLeft /\ taskInfos # {}

\* The delegate agrees to force a rule that is scanning to run.  (Its request is
\* deferred: ruleInfosToScan, where the code looks for it too, is empty.)
CycleForcesRule_Nothing ==
  /\ Stuck
  /\ TRUE \in ResolveCycle
  /\ \E list \in CycleWalks : IsCycleList(list) /\ \E j \in DOMAIN list :
       BreakPosition(list, j) /\ IsScanning(list[j])
  /\ pc' = "top"
  /\ UNCHANGED <<didWork, loopUnchanged>>

CycleForcesRule ==
  /\ Stuck
  /\ TRUE \in ResolveCycle
  /\ \E list \in CycleWalks : IsCycleList(list) /\ \E j \in DOMAIN list :
       /\ BreakPosition(list, j)
       /\ IsScanning(list[j])
       /\ FinishScanRequest(list[j], ruleInfosToScan)
       /\ state' = [state EXCEPT ![list[j]] = "NeedsToRun"]
       /\ wasForced' = [wasForced EXCEPT ![list[j]] = TRUE]
  /\ pc' = "top"
  /\ UNCHANGED <<result, finishedInputRequests, readyTaskInfos, taskVars, workVars,
                 numOutstanding, didWork, buildKey, success, buildCancelled, tx,
                 clientVars>>

\* The delegate agrees to give the next rule the prior value of this one.
CycleSuppliesPriorValue ==
  /\ Stuck
  /\ TRUE \in ResolveCycle
  /\ \E list \in CycleWalks : IsCycleList(list) /\ \E j \in DOMAIN list \ {1} :
       /\ BreakPosition(list, j)
       /\ ~IsScanning(list[j])
       /\ \E at \in DOMAIN task[list[j]].requestedBy :
            /\ FirstRequest(list[j], list[j - 1], at)
            /\ finishedInputRequests' =
                 Append(finishedInputRequests,
                        [task[list[j]].requestedBy[at] EXCEPT !.forcePriorValue = TRUE])
            /\ task' = [task EXCEPT ![list[j]].requestedBy = Erase(@, at)]
  /\ pc' = "top"
  /\ UNCHANGED <<ruleVars, ruleInfosToScan, inputRequests, readyTaskInfos, taskInfos,
                 workVars, numOutstanding, didWork, buildKey, success,
                 buildCancelled, tx, clientVars>>

\* The delegate declines, or there is nothing to break the cycle at.
CycleIsReported ==
  /\ Stuck
  /\ \A list \in CycleWalks : IsCycleList(list) => \A j \in DOMAIN list :
       BreakPosition(list, j) =>
         FALSE \in ResolveCycle /\ (j > 1 \/ IsScanning(list[j]))
  /\ pc' = "drain"
  /\ success' = FALSE
  /\ UNCHANGED <<ruleVars, queueVars, taskVars, workVars, numOutstanding, didWork,
                 buildKey, buildCancelled, tx, clientVars>>

\* The search reaches the first rule of the list and reads past the end of the
\* reversed list: the process dies, or what it reads matches no request.
CycleReadsPastEnd ==
  /\ Stuck
  /\ \E list \in CycleWalks :
       /\ IsCycleList(list)
       /\ BreakPosition(list, 1)
       /\ ~IsScanning(list[1])
  /\ pc' \in {"crashed", "drain"}
  /\ success' = FALSE
  /\ UNCHANGED <<ruleVars, queueVars, taskVars, workVars, numOutstanding, didWork,
                 buildKey, buildCancelled, tx, clientVars>>

ResolveOrReportCycle ==
  \/ CycleForcesRule \/ CycleSuppliesPriorValue
  \/ CycleIsReported \/ CycleReadsPastEnd

-----------------------------------------------------------------------------
(***************************************************************************)
(* cancelRemainingTasks                                                    *)
(***************************************************************************)
\* Wait for the tasks that are computing, and drop what they report.
DrainTasks ==
  /\ pc = "drain"
  /\ numOutstanding # 0
  /\ IF finishedTaskInfos = <<>>
     THEN pc' = "drainWaiting" /\ UNCHANGED <<numOutstanding, finishedTaskInfos>>
     ELSE /\ numOutstanding' = numOutstanding - Len(finishedTaskInfos)
          /\ finishedTaskInfos' = <<>>
          /\ UNCHANGED pc
  /\ UNCHANGED <<ruleVars, queueVars, taskVars, worker, didWork, buildKey, success,
                 buildCancelled, tx, clientVars>>

\* setCancelled(): the rules with a task, and those still being scanned.
CancelledRules_NotScanning == taskInfos

CancelledRules_NoTasks == {k \in Keys : IsScanning(k)}

CancelledRules == taskInfos \cup {k \in Keys : IsScanning(k)}

\* Every task and every scan is dropped, and its rule marked incomplete.
CancelRemainingTasks ==
  /\ pc = "drain"
  /\ numOutstanding = 0
  /\ state' = [k \in Keys |-> IF k \in CancelledRules THEN "Incomplete" ELSE state[k]]
  /\ pausedInputRequests' = [k \in Keys |-> <<>>]
  /\ deferredScanRequests' = [k \in Keys |-> <<>>]
  /\ ruleInfosToScan' = <<>>
  /\ inputRequests' = <<>>
  /\ finishedInputRequests' = <<>>
  /\ readyTaskInfos' = <<>>
  /\ finishedTaskInfos' = <<>>
  /\ taskInfos' = {}
  /\ task' = [k \in Keys |-> NewTask]
  /\ pc' = "teardown"
  /\ success' = FALSE
  /\ UNCHANGED <<wasForced, result, worker, numOutstanding, didWork, buildKey,
                 buildCancelled, tx, clientVars>>

-----------------------------------------------------------------------------
(***************************************************************************)
(* The threads that compute tasks: taskIsComplete()                        *)
(***************************************************************************)
workerUnchanged == <<state, wasForced, pausedInputRequests, deferredScanRequests,
                     queueVars, taskInfos, numOutstanding, didWork, buildKey,
                     success, buildCancelled, tx, clientVars>>

\* The dependencies the task discovers, and the result it reports; after a
\* cancellation the computation may have been interrupted.
TaskIsComplete(k) ==
  /\ worker[k] = "running"
  /\ worker' = [worker EXCEPT ![k] = "reported"]
  /\ LET discovered == Discovers(k, world)
     IN  task' = [task EXCEPT ![k].discovered =
                    [n \in DOMAIN discovered |-> [key |-> discovered[n],
                                                  orderOnly |-> FALSE]]]
  /\ \E value \in {Compute(k, task[k].provided, manifest, world)}
                    \cup (IF buildCancelled THEN {Cancelled} ELSE {}) :
       result' = [result EXCEPT
                    ![k].signature = Signature(k, manifest),
                    ![k].value = value,
                    ![k].computedAt = IF value = result[k].value /\ ~ForceChange(k)
                                      THEN @ ELSE currentEpoch]
  /\ UNCHANGED <<workerUnchanged, finishedTaskInfos, pc>>

EnqueueFinishedTask(k) ==
  /\ worker[k] = "reported"
  /\ worker' = [worker EXCEPT ![k] = "queued"]
  /\ finishedTaskInfos' = Append(finishedTaskInfos, k)
  /\ UNCHANGED <<workerUnchanged, task, result, pc>>

NotifyEngine_OnlyLoop(k) ==
  /\ worker[k] = "queued"
  /\ worker' = [worker EXCEPT ![k] = "none"]
  /\ pc' = IF pc = "waiting" THEN "top" ELSE pc
  /\ UNCHANGED <<workerUnchanged, task, result, finishedTaskInfos>>

NotifyEngine(k) ==
  /\ worker[k] = "queued"
  /\ worker' = [worker EXCEPT ![k] = "none"]
  /\ pc' = CASE pc = "waiting"      -> "top"
             [] pc = "drainWaiting" -> "drain"
             [] OTHER               -> pc
  /\ UNCHANGED <<workerUnchanged, task, result, finishedTaskInfos>>

WorkerStep(k) == TaskIsComplete(k) \/ EnqueueFinishedTask(k) \/ NotifyEngine(k)

-----------------------------------------------------------------------------
(***************************************************************************)
(* The client: build(), cancelBuild(), resetForBuild(), and a new process  *)
(***************************************************************************)
\* The external world may have changed since the last build.
BuildStarts ==
  /\ pc = "idle"
  /\ currentEpoch < MaxEpoch
  /\ ~buildCancelled
  /\ buildKey' \in BuildKeys
  /\ world' \in Worlds
  /\ currentEpoch' = currentEpoch + 1
  /\ finishedInputRequests' = <<>>
  /\ inputRequests' = Append(inputRequests, DummyRequest(buildKey'))
  /\ tx' = db
  /\ pc' = "top"
  /\ outcome' = "none"
  /\ UNCHANGED <<ruleVars, ruleInfosToScan, readyTaskInfos, taskVars, workVars,
                 numOutstanding, didWork, success, buildCancelled, manifest, db,
                 budget>>

\* build() returns the empty value at once: the engine is cancelled.
BuildIsRefused ==
  /\ pc = "idle"
  /\ buildCancelled
  /\ buildKey' \in BuildKeys
  /\ outcome' = "empty"
  /\ UNCHANGED <<ruleVars, queueVars, taskVars, workVars, numOutstanding, pc,
                 didWork, success, buildCancelled, tx, currentEpoch, world,
                 manifest, db, budget>>

\* build() returns the empty value at once: buildStarted() fails.
BuildIsNotStarted ==
  /\ pc = "idle"
  /\ budget.faults > 0
  /\ budget' = [budget EXCEPT !.faults = @ - 1]
  /\ buildKey' \in BuildKeys
  /\ outcome' = "empty"
  /\ UNCHANGED <<ruleVars, queueVars, taskVars, workVars, numOutstanding, pc,
                 didWork, success, buildCancelled, tx, currentEpoch, world,
                 manifest, db>>

\* What buildComplete() commits after setCurrentIteration() succeeded.
Committed_NoIteration == tx

Committed == [tx EXCEPT !.iteration = currentEpoch]

\* setCurrentIteration(), then the execution queue waits for its threads, then
\* buildComplete() commits.
BuildEnds ==
  /\ pc = "teardown"
  /\ \A k \in Keys : worker[k] = "none"
  /\ db' = Committed
  /\ outcome' = IF success THEN "success" ELSE "empty"
  /\ pc' = "idle"
  /\ UNCHANGED <<ruleVars, queueVars, taskVars, workVars, numOutstanding, didWork,
                 buildKey, success, buildCancelled, tx, currentEpoch, world,
                 manifest, budget>>

\* setCurrentIteration() fails; what the build stored is still committed.
BuildEndsIterationNotStored ==
  /\ pc = "teardown"
  /\ \A k \in Keys : worker[k] = "none"
  /\ budget.faults > 0
  /\ budget' = [budget EXCEPT !.faults = @ - 1]
  /\ db' = tx
  /\ outcome' = "empty"
  /\ pc' = "idle"
  /\ UNCHANGED <<ruleVars, queueVars, taskVars, workVars, numOutstanding, didWork,
                 buildKey, success, buildCancelled, tx, currentEpoch, world,
                 manifest>>

CancelBuild ==
  /\ budget.cancels > 0
  /\ budget' = [budget EXCEPT !.cancels = @ - 1]
  /\ pc # "crashed"
  /\ buildCancelled' = TRUE
  /\ UNCHANGED <<ruleVars, queueVars, taskVars, workVars, numOutstanding, pc,
                 didWork, buildKey, success, tx, currentEpoch, outcome, world,
                 manifest, db>>

ResetForBuild ==
  /\ pc = "idle"
  /\ buildCancelled
  /\ buildCancelled' = FALSE
  /\ UNCHANGED <<ruleVars, queueVars, taskVars, workVars, numOutstanding, pc,
                 didWork, buildKey, success, tx, clientVars>>

\* The process exits, or dies in the middle of a build; a new engine attaches
\* the database and has its rules created from the manifest of the day.
Restart ==
  /\ budget.restarts > 0
  /\ budget' = [budget EXCEPT !.restarts = @ - 1]
  /\ state' = [k \in Keys |-> "Incomplete"]
  /\ wasForced' = [k \in Keys |-> FALSE]
  /\ result' = db.results
  /\ pausedInputRequests' = [k \in Keys |-> <<>>]
  /\ deferredScanRequests' = [k \in Keys |-> <<>>]
  /\ ruleInfosToScan' = <<>>
  /\ inputRequests' = <<>>
  /\ finishedInputRequests' = <<>>
  /\ readyTaskInfos' = <<>>
  /\ finishedTaskInfos' = <<>>
  /\ taskInfos' = {}
  /\ task' = [k \in Keys |-> NewTask]
  /\ numOutstanding' = 0
  /\ worker' = [k \in Keys |-> "none"]
  /\ pc' = "idle"
  /\ didWork' = FALSE
  /\ buildKey' = NoKey
  /\ success' = FALSE
  /\ currentEpoch' = db.iteration
  /\ buildCancelled' = FALSE
  /\ outcome' = "none"
  /\ manifest' \in Manifests
  /\ tx' = db
  /\ UNCHANGED <<world, db>>

\* Nobody has to ask for another build.
Rest == pc \in {"idle", "crashed"} /\ UNCHANGED vars

-----------------------------------------------------------------------------
EngineStep ==
  \/ StartTurn \/ NextQueue \/ EndTurn \/ WaitForTask \/ BuildIsDone
  \/ ProcessRuleScanRequest \/ ProcessInputRequest \/ ProcessFinishedInput
  \/ ProcessReadyTask \/ ProcessFinishedTask \/ FinishedTaskNotStored
  \/ ResolveOrReportCycle \/ DrainTasks \/ CancelRemainingTasks
  \/ BuildEnds \/ BuildEndsIterationNotStored

ClientStep ==
  \/ BuildStarts \/ BuildIsRefused \/ BuildIsNotStarted
  \/ CancelBuild \/ ResetForBuild \/ Restart

Next ==
  \/ EngineStep
  \/ \E k \in Keys : WorkerStep(k)
  \/ ClientStep
  \/ SpuriousWakeup
  \/ Rest

Spec == Init /\ [][Next]_vars

\* The engine thread runs, and every task reports its completion.
Fairness ==
  /\ WF_vars(EngineStep)
  /\ \A k \in Keys : WF_vars(WorkerStep(k))

FairSpec == Spec /\ Fairness

-----------------------------------------------------------------------------
(***************************************************************************)
(* What the engine promises                                                *)
(***************************************************************************)
\* When build() returns a value, that key and every other key brought up to
\* date on the way have the values a build from scratch gives them, whatever
\* was scanned, skipped, loaded from the database or left by earlier builds.
SuccessfulBuildIsClean ==
  pc = "idle" /\ outcome = "success" =>
    /\ IsComplete(buildKey)
    /\ LET clean == CleanValues(manifest, world)
       IN  \A k \in Keys : IsComplete(k) => result[k].value = clean[k]

\* A rule only computes once everything it requested is up to date, including
\* what mustFollow() asked for: no dependency recorded for a computing rule is
\* still to be built.  (A broken cycle gives this up.)
ComputesAfterInputs ==
  \A k \in Keys : worker[k] = "running" =>
    /\ \A d \in Range(result[k].dependencies) : IsComplete(d.key)
    /\ \A i \in result[k].singleUse : IsComplete(i)

\* The positions in a list at which there is a request of the task of k, and the
\* same for a list at every rule.
RequestedAt(k, requests) == {n \in DOMAIN requests : requests[n].task = k}
RequestedAtRules(k, lists) == UNION {{i} \X RequestedAt(k, lists[i]) : i \in Keys}

\* The wait count of a task is the number of its requests that are queued, waiting
\* to be provided, paused at a rule or pending at the task of one, and it is in the
\* ready queue exactly once when the count reaches zero: no input is lost or
\* provided twice, no task is made ready twice, and no request outlives its task
\* (decrementTaskWaitCount).
WaitCountIsExact ==
  \A k \in Keys :
    /\ task[k].waitCount =
         Cardinality(RequestedAt(k, inputRequests))
         + Cardinality(RequestedAt(k, finishedInputRequests))
         + Cardinality(RequestedAtRules(k, pausedInputRequests))
         + Cardinality(RequestedAtRules(k, [i \in Keys |-> task[i].requestedBy]))
    /\ Cardinality({n \in DOMAIN readyTaskInfos : readyTaskInfos[n] = k}) =
         IF state[k] = "InProgressWaiting" /\ task[k].waitCount = 0 THEN 1 ELSE 0

\* numOutstandingUnfinishedTasks counts the tasks that are computing and the
\* finished ones not yet taken from the queue, on every path, the failing ones
\* included: cancelRemainingTasks() would otherwise wait for ever, or not at all.
OutstandingIsExact ==
  numOutstanding = Cardinality({k \in Keys : worker[k] \in {"running", "reported"}})
                   + Len(finishedTaskInfos)

\* While the engine thread is blocked on the condition variable, some thread
\* has yet to notify it.
NoLostWakeup ==
  pc \in {"waiting", "drainWaiting"} => \E k \in Keys : worker[k] # "none"

\* The same for the scan requests of a rule.
ScansAt(k, requests) == {n \in DOMAIN requests : requests[n].rule = k}
ScansAtRules(k, lists) == UNION {{i} \X ScansAt(k, lists[i]) : i \in Keys}

\* Every scan request, queued or deferred, is for a rule that is scanning, or
\* was forced to run to break a cycle (the assertions of processRuleScanRequest
\* and findCycle); a rule scans through exactly one request, and none is queued
\* when a cycle is looked for.
ScanRequestsAreLive ==
  LET all(k) == Cardinality(ScansAt(k, ruleInfosToScan))
                + Cardinality(ScansAtRules(k, deferredScanRequests))
                + Cardinality(ScansAtRules(k, [i \in Keys |-> task[i].deferredScans]))
  IN  /\ \A k \in Keys : IF IsScanning(k) THEN all(k) = 1
                         ELSE all(k) > 0 => wasForced[k]
      /\ Stuck => ruleInfosToScan = <<>>

\* Between builds nothing is left of a build: no task, no queued request, no
\* thread.
NothingLeftOver ==
  pc = "idle" =>
    /\ taskInfos = {} /\ numOutstanding = 0
    /\ \A k \in Keys : ~InProgress(k) /\ worker[k] = "none"
    /\ ruleInfosToScan = <<>> /\ inputRequests = <<>> /\ finishedInputRequests = <<>>
    /\ readyTaskInfos = <<>> /\ finishedTaskInfos = <<>>

\* Nor is a scan: its record is freed when build() returns.  (A cycle of rules that
\* only scan, behind a discovered dependency, would leave one: the graphs of the
\* runs have none.)
NoScanLeftOver == pc = "idle" => \A k \in Keys : ~IsScanning(k)

\* As long as no database operation fails, no epoch is ahead of the clock it is
\* compared with: neither in memory, nor in what is committed, nor in the open
\* transaction, through any crash.  A result from the future would hide every
\* change made before it.
ResultsUpTo(results, epoch) ==
  \A k \in Keys : results[k].builtAt <= epoch /\ results[k].computedAt <= epoch

EpochsAreBounded ==
  budget.faults = MaxFaults =>
    /\ ResultsUpTo(result, currentEpoch)
    /\ ResultsUpTo(tx.results, currentEpoch)
    /\ ResultsUpTo(db.results, db.iteration)
    /\ db.iteration <= currentEpoch

\* A task is live exactly while its rule is in progress (the assertions of
\* getPendingTaskInfo(), also on the way through cancelRemainingTasks()).
TasksAreInProgress == \A k \in Keys : k \in taskInfos <=> InProgress(k)

\* The inputs a task asks for at its start are recorded in the order in which
\* it asked for them.
RecordedInRequestOrder ==
  \A k \in Keys : worker[k] = "running" =>
    LET asked == StartRequests(k, manifest, world)
        deps  == result[k].dependencies
        kept  == {i \in DOMAIN asked : ~asked[i].singleUse}
    IN  \A i, j \in kept : i < j =>
          \E p, q \in DOMAIN deps :
            p < q /\ deps[p].key = asked[i].key /\ deps[q].key = asked[j].key

\* Every result in memory is from an earlier build or from this one.
EpochsIdentifyBuilds == ResultsUpTo(result, currentEpoch)

\* When nothing runs and nothing is queued, the key has been computed.
NoUndiagnosedCycle == NoWorkLeft /\ taskInfos = {} => IsComplete(buildKey)

\* The engine runs out of work only for a cycle: while it has tasks and nothing to
\* do, findCycle finds one from the key to build (the assertion of resolveCycle),
\* and where it gives up without a task ("no running tasks or pending work") there
\* is one too, of rules that only scan.
CycleIsFound ==
  NoWorkLeft /\ (taskInfos # {} \/ ~IsComplete(buildKey)) => CycleWalks # {}

\* The search for a rule to break the cycle at stays inside the list.
CycleSearchInBounds == pc # "crashed"

\* Result's invariant: a result was not computed after it was built.
BuiltAfterComputed ==
  pc = "idle" => \A k \in Keys : result[k].computedAt <= result[k].builtAt

-----------------------------------------------------------------------------
(***************************************************************************)
(* The engine, seen from its client: a rule is settled when it is complete *)
(* in this build.                                                          *)
(***************************************************************************)
Clean == INSTANCE CleanBuild WITH
  Worth    <- CleanWorth,
  building <- pc \notin {"idle", "crashed"},
  goal     <- buildKey,
  memo     <- [k \in Keys |-> IF IsComplete(k) THEN result[k].value ELSE NoValue],
  answer   <- IF outcome = "success" THEN result[buildKey].value ELSE NoValue

\* Step by step, an incremental build is a build from scratch: each rule is settled
\* once, after the inputs it reads, and with the value a build from scratch gives
\* it, whether it was run, scanned and skipped, or loaded from the database.
\* (Given up by cancelled builds and broken cycles.)
ImplementsCleanBuild == Clean!Spec

\* The value of a rule is final once the rule is complete: no late report of a
\* thread, and no other step, changes what was already handed to other tasks.
CompleteIsFinal ==
  [][\A k \in Keys : IsComplete(k) /\ IsComplete(k)' =>
       /\ result'[k].value = result[k].value
       /\ result'[k].computedAt = result[k].computedAt]_vars

\* Why the task of k may be started.
HasReasonToRun(k) ==
  \/ result[k].builtAt = 0 \/ OutOfDate(k) \/ wasForced[k]
  \/ \E d \in Range(result[k].dependencies) :
       /\ ~d.orderOnly
       /\ IsComplete(d.key)
       /\ result[d.key].computedAt > result[k].builtAt

\* A rule is not run without a reason: it was never built, its result is
\* out of date, an input changed since it was built, or it breaks a cycle.
RunsForAReason ==
  [][\A k \in Keys : k \in taskInfos' \ taskInfos => HasReasonToRun(k)]_vars

\* A rule computes at most once in a build: when its thread starts, its task has
\* not been computing yet, and no task of the rule has been in this build.
ComputesOnce ==
  [][\A k \in Keys : worker[k] # "running" /\ worker'[k] = "running" =>
       state[k] = "InProgressWaiting" /\ result[k].builtAt # currentEpoch]_vars

\* Every build ends: also a cancelled one, one whose cycle is broken in several
\* rounds, one in which a database operation fails.  (A dead process ends it.)
Ended == pc \in {"idle", "crashed"}

BuildTerminates == ~Ended ~> Ended
=============================================================================
