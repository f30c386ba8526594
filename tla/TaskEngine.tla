----------------------------- MODULE TaskEngine -----------------------------
(***************************************************************************)
(* The engine of llbuild3.  Tasks are state machines: in each state a task *)
(* requests artifacts, rules, actions or subtasks and then waits for the   *)
(* ids it was given, or ends.  One lane runs the tasks that are ready;     *)
(* actions and subtasks end on threads of the executor; a transition of a  *)
(* cacheable task may be replayed from the action cache, on the thread     *)
(* where the cache answers.                                                *)
(*                                                                         *)
(* Of the executor the engine knows its contract, ActionContract.  What    *)
(* runs under taskInfosMutex is one action here.                           *)
(***************************************************************************)
EXTENDS Naturals, Sequences, FiniteSets, Functions

CONSTANTS
  Rules,          \* the rules; the task of a rule has the rule's name
  Produces,       \* rule -> the artifacts of its task
  Script,         \* rule -> the requests of each of its states, in order
  ProviderOf,     \* rule -> the provider that can make it
  InitProvider,   \* the provider the engine is created with
  InitRules,      \* the rules whose tasks have the property "init"
  InitRule,       \* the configured initialization rule, or NoTask
  Cacheable,      \* the rules whose tasks have the property "cacheable"
  Wanted,         \* build -> the artifact it is for
  InitTask,       \* the engine's own initialization task
  NoTask,
  ActionResults, SubtaskResults, \* what the executor may report
  MaxWorks,       \* bound: the actions and subtasks of one engine
  MaxEngines,     \* bound: the engines that use one cache
  MaxRejects      \* bound: the submissions the executor refuses

Builds == DOMAIN Wanted
Tasks == Rules \cup Builds \cup {InitTask}
Works == 1 .. MaxWorks
Artifacts == UNION {Produces[r] : r \in Rules}
ProducerOf(a) == CHOOSE r \in Rules : a \in Produces[r]

ASSUME ScenarioAssumption ==
  /\ IsFiniteSet(Rules) /\ IsFiniteSet(Builds) /\ MaxWorks \in Nat
  /\ Rules \cap Builds = {} /\ InitTask \notin Rules \cup Builds
  /\ \A r, s \in Rules : r # s => Produces[r] \cap Produces[s] = {}
  /\ InitRule \in Rules \cup {NoTask} /\ InitRules \subseteq Rules
  /\ \A b \in Builds : Wanted[b] \in Artifacts

IsSequence(s) == s \in Seq({s[i] : i \in DOMAIN s})

ASSUME ScriptAssumption ==
  \A r \in Rules :
    /\ IsSequence(Script[r])
    /\ \A c \in DOMAIN Script[r] :
         /\ IsSequence(Script[r][c])
         /\ \A i \in DOMAIN Script[r][c] : LET request == Script[r][c][i] IN
              /\ request.kind = "artifact" => request.label \in Artifacts
              /\ request.kind = "rule" => request.label \in Rules

VARIABLES
  taskInfos,      \* what the engine knows of each task
  work,           \* work -> the task and the request it is for
  nextWork,
  lane,           \* the task whose compute() the lane runs
  ruleProviders, initialized,
  buildResult,    \* build -> what it has reported
  call, completions,   \* the executor's contract
  actionCache, engines, rejects

Executor == INSTANCE ActionContract
executorVars == <<call, completions>>
vars == <<taskInfos, work, nextWork, lane, ruleProviders, initialized, buildResult,
          executorVars, actionCache, engines, rejects>>

Pending == "pending"    \* an action or a subtask without a result
NoMap == << >>          \* an empty map

\* The ids of tasks and of works are of one type; no two are the same.
ASSUME IdsAssumption == Tasks \cap Works = {} /\ Pending \notin ActionResults \cup SubtaskResults

\* The state a task is in, and the stage of its processing: a job that is queued
\* ("ready", "lookup", "finished"), a thread that works on it ("asking",
\* "computing", "replaying"), none ("absent", "waiting", "done"), or an exception.
NewTaskInfo(stage) ==
  [stage |-> stage, context |-> 0, inputs |-> << >>, subtasks |-> {}, todo |-> << >>,
   step |-> "check", target |-> NoTask, ids |-> << >>, failed |-> FALSE,
   cached |-> NoMap, stableIDMap |-> NoMap, requestedTaskInputs |-> NoMap,
   requestedBy |-> {}, pendingActions |-> NoMap, pendingSubtasks |-> NoMap,
   waitingOn |-> {}, next |-> "none"]

Init ==
  /\ taskInfos = [t \in Tasks |-> NewTaskInfo("absent")]
  /\ work = NoMap /\ nextWork = 1 /\ lane = NoTask
  /\ ruleProviders = {InitProvider} /\ initialized = FALSE
  /\ buildResult = [b \in Builds |-> "none"]
  /\ Executor!Init
  /\ actionCache = NoMap /\ engines = 1 /\ rejects = 0

Live(t) == taskInfos[t].stage # "absent"
Over(t) == taskInfos[t].stage \in {"finished", "done"}

\* std::unordered_map::insert keeps what is there.
Insert(map, key, value) ==
  [k \in DOMAIN map \cup {key} |-> IF k \in DOMAIN map THEN map[k] ELSE value]
Erase(map, keys) == Restrict(map, DOMAIN map \ keys)

\* The stable ids: hashes of what is requested.
StableID(request) == <<request.kind, request.label>>

-----------------------------------------------------------------------------
(***************************************************************************)
(* The end of a transition                                                 *)
(***************************************************************************)
Finish(ti, result) == [ti EXCEPT !.stage = "finished", !.next = result]

\* prepareInput and prepareActionResult: the answer to a request.
InputFrom(ti, id) ==
  IF id \in Tasks
    THEN [id |-> ti.requestedTaskInputs[id],
          value |-> IF taskInfos[id].next \in {"old", "new"} THEN taskInfos[id].next
                                                              ELSE "error"]
    ELSE [id |-> ti.pendingActions[id].sid, value |-> ti.pendingActions[id].result]

\* The ids of a wait, in the order given, and those of tasks and actions.
WaitID(ti, i) == ti.stableIDMap[ti.ids[i]]
WaitIDs(ti) == {WaitID(ti, i) : i \in DOMAIN ti.ids}
NotSubtasks(ids) == SelectSeq(ids, LAMBDA sid : sid[1] # "subtask")

\* The positions where an id comes again.
Again(ti) == {i \in DOMAIN ti.ids : \E j \in 1 .. i - 1 : WaitID(ti, i) = WaitID(ti, j)}

\* Collect what the task has waited for and queue its next transition.  Without
\* subtasks in flight the cache is asked first.
Collected(ti) ==
  LET gone == WaitIDs(ti)
      others == NotSubtasks(ti.ids)
      left == Erase(ti.pendingSubtasks, gone)
  IN  [ti EXCEPT
        !.inputs = [i \in DOMAIN others |-> InputFrom(ti, ti.stableIDMap[others[i]])],
        !.subtasks = {ti.pendingSubtasks[w] : w \in gone \cap DOMAIN ti.pendingSubtasks},
        !.stableIDMap = Erase(ti.stableIDMap, {ti.ids[i] : i \in DOMAIN ti.ids}),
        !.requestedTaskInputs = Erase(ti.requestedTaskInputs, gone),
        !.pendingActions = Erase(ti.pendingActions, gone),
        !.pendingSubtasks = left,
        !.failed = FALSE, !.waitingOn = {},
        !.stage = IF DOMAIN left = {} THEN "lookup" ELSE "ready"]

\* unblockTask: collect what was waited for, in order.  An id that is given twice
\* is not found the second time; a task that is the input twice is erased from
\* requestedTaskInputs with the first id, and at() throws for the second.
Unblock(ti) ==
  LET again == Again(ti)
      first == CHOOSE i \in again : \A j \in again : i <= j
  IN  IF again = {} THEN Collected(ti)
      ELSE IF \E j \in 1 .. first - 1 : ti.ids[first] = ti.ids[j]
        THEN Finish(ti, "error")
      ELSE [ti EXCEPT !.stage = "thrown"]

\* Mutant of Unresolved: work of the executor is taken to be done.
Unresolved_TasksOnly(ti, id) == id \in DOMAIN ti.requestedTaskInputs /\ ~Over(id)

\* What a task has asked for and not got: the inputs of a wait that are unresolved.
Unresolved(ti, id) ==
  \/ id \in DOMAIN ti.requestedTaskInputs /\ ~Over(id)
  \/ id \in DOMAIN ti.pendingActions /\ ti.pendingActions[id].result = Pending
  \/ id \in DOMAIN ti.pendingSubtasks /\ ti.pendingSubtasks[id] = Pending

Known(ti, sid) ==
  /\ sid \in DOMAIN ti.stableIDMap
  /\ ti.stableIDMap[sid] \in DOMAIN ti.requestedTaskInputs
       \cup DOMAIN ti.pendingActions \cup DOMAIN ti.pendingSubtasks

\* Mutant of Wait: the tasks it waits for do not learn of it.
Wait_Unregistered(t, ti) ==
  LET unresolved == {id \in WaitIDs(ti) : Unresolved(ti, id)}
      next == [ti EXCEPT !.context = @ + 1]
  IN  taskInfos' = [taskInfos EXCEPT ![t] =
        IF \E i \in DOMAIN ti.ids : ~Known(ti, ti.ids[i]) THEN Finish(ti, "unrequested")
        ELSE IF unresolved = {} THEN Unblock(next)
        ELSE [next EXCEPT !.stage = "waiting", !.waitingOn = unresolved]]

\* processTaskNextState for the transition to a wait for ids: it is in order if the
\* engine knows all of them, and the tasks among those that are unresolved wake
\* this one when they end.  (One that ends with a bad id may have been registered
\* with the tasks before it, which finds nothing to wake.)
Wait(t, ti) ==
  LET unresolved == {id \in WaitIDs(ti) : Unresolved(ti, id)}
      next == [ti EXCEPT !.context = @ + 1]
      waiter == [next EXCEPT !.stage = "waiting", !.waitingOn = unresolved]
      infos == [taskInfos EXCEPT ![t] = waiter]
  IN  taskInfos' =
        IF \E i \in DOMAIN ti.ids : ~Known(ti, ti.ids[i])
          THEN [taskInfos EXCEPT ![t] = Finish(ti, "unrequested")]
        ELSE IF unresolved = {}
          THEN [taskInfos EXCEPT ![t] = Unblock(next)]
        ELSE [u \in Tasks |->
               IF u \in unresolved THEN [infos[u] EXCEPT !.requestedBy = @ \cup {t}]
                                   ELSE infos[u]]

\* The job that wakes those that wait for a task that has ended.
WakeRequesters(t) ==
  LET woken(u) == [taskInfos[u] EXCEPT !.waitingOn = @ \ {t}]
      wakes(u) == /\ u \in taskInfos[t].requestedBy /\ taskInfos[u].waitingOn # {}
                  /\ woken(u).waitingOn = {}
  IN  /\ lane = NoTask /\ taskInfos[t].stage = "finished"
      /\ taskInfos' = [u \in Tasks |->
           CASE u = t -> [taskInfos[t] EXCEPT !.stage = "done"]
             [] u # t /\ wakes(u) -> Unblock(woken(u))
             [] u # t /\ u \in taskInfos[t].requestedBy /\ ~wakes(u) -> woken(u)
             [] OTHER -> taskInfos[u]]
      /\ UNCHANGED <<work, nextWork, lane, ruleProviders, initialized, buildResult,
                     executorVars, actionCache, engines, rejects>>
-----------------------------------------------------------------------------
(***************************************************************************)
(* What the tasks compute                                                  *)
(***************************************************************************)
BadInputs(ti) ==
  "error" \in {ti.inputs[i].value : i \in DOMAIN ti.inputs} \cup ti.subtasks

\* A task's result depends on the answers it got in its last state.
ResultOf(ti) ==
  IF "new" \in {ti.inputs[i].value : i \in DOMAIN ti.inputs} \cup ti.subtasks
    THEN "new" ELSE "old"

\* The requests compute() makes in the state the task is in.
Plan(t, ti) ==
  CASE t \in Rules /\ ~BadInputs(ti) /\ ti.context < Len(Script[t]) ->
         Script[t][ti.context + 1]
    [] t = InitTask /\ ti.context = 0 /\ InitRule # NoTask ->
         << [kind |-> "rule", label |-> InitRule] >>
    [] t \in Builds /\ ti.context = 1 /\ ~BadInputs(ti) ->
         << [kind |-> "artifact", label |-> Wanted[t]] >>
    [] OTHER -> << >>

\* What it returns when it has made them: that it waits for the ids it got, or how
\* it ends.  A task of the engine's own ends with an empty result.
Outcome(t, ti) ==
  CASE t \in Builds /\ ti.context < 2 /\ ~ti.failed /\ ~BadInputs(ti) -> "wait"
    [] t \in Builds /\ (ti.context = 2 \/ ti.failed \/ BadInputs(ti)) -> "old"
    [] t \notin Builds /\ (ti.failed \/ BadInputs(ti)) -> "error"
    [] t = InitTask /\ ~ti.failed /\ ~BadInputs(ti) ->
         IF ti.context = 0 /\ InitRule # NoTask THEN "wait" ELSE "old"
    [] t \in Rules /\ ~ti.failed /\ ~BadInputs(ti) ->
         IF ti.context < Len(Script[t]) THEN "wait" ELSE ResultOf(ti)

\* performInit, before the engine is initialized: the build asks for the
\* initialization task, which the first one inserts.
PerformInit(b) ==
  LET sid == <<"rule", InitTask>>
      build == [taskInfos[b] EXCEPT !.stage = "computing",
                  !.requestedTaskInputs = Insert(@, InitTask, sid),
                  !.stableIDMap = Insert(@, sid, InitTask), !.ids = << sid >>]
  IN  taskInfos' = [taskInfos EXCEPT
        ![b] = build, ![InitTask] = IF Live(InitTask) THEN @ ELSE NewTaskInfo("ready")]

\* Mutant of StartCompute: the engine is initialized when its task starts.
StartCompute_Early(t) ==
  LET ti == taskInfos[t]
      now == IF t \in Builds /\ ti.context = 0 THEN [ti EXCEPT !.context = 1] ELSE ti
  IN  /\ lane = NoTask /\ ti.stage = "ready" /\ lane' = t
      /\ IF t \in Builds /\ ti.context = 0 /\ ~initialized
           THEN PerformInit(t)
           ELSE taskInfos' = [taskInfos EXCEPT ![t] =
                  [now EXCEPT !.stage = "computing", !.todo = Plan(t, now), !.ids = << >>]]
      /\ initialized' = (initialized \/ t = InitTask)
      /\ UNCHANGED <<work, nextWork, ruleProviders, buildResult, executorVars, actionCache,
                     engines, rejects>>

\* The lane takes a task that is ready and enters its compute().  A build that finds
\* the engine initialized goes on with its artifact.
StartCompute(t) ==
  LET ti == taskInfos[t]
      now == IF t \in Builds /\ ti.context = 0 THEN [ti EXCEPT !.context = 1] ELSE ti
  IN  /\ lane = NoTask /\ ti.stage = "ready" /\ lane' = t
      /\ IF t \in Builds /\ ti.context = 0 /\ ~initialized
           THEN PerformInit(t)
           ELSE taskInfos' = [taskInfos EXCEPT ![t] =
                  [now EXCEPT !.stage = "computing", !.todo = Plan(t, now), !.ids = << >>]]
      /\ initialized' = (initialized \/ (t = InitTask /\ Plan(t, ti) = << >>))
      /\ UNCHANGED <<work, nextWork, ruleProviders, buildResult, executorVars, actionCache,
                     engines, rejects>>

\* Mutant of Key: the inputs are not part of it.
Key_NoInputs(t, ti) == <<t, ti.context>>

Key(t, ti) == <<t, ti.context, ti.inputs>>

\* The requests that are on record for a task.
Requests(ti) ==
  {ti.requestedTaskInputs[u] : u \in DOMAIN ti.requestedTaskInputs}
    \cup {ti.pendingActions[w].sid : w \in DOMAIN ti.pendingActions}

\* updateTaskCache: the transition is cached under the state and its inputs, unless
\* subtasks are in flight.  A store that fails is a lookup that finds nothing.
UpdateTaskCache(t, ti, outcome) ==
  LET value == [outcome |-> outcome, ids |-> ti.ids, requests |-> Requests(ti)]
  IN  actionCache' =
        IF t \in Cacheable /\ DOMAIN ti.pendingSubtasks = {}
          THEN [k \in DOMAIN actionCache \cup {Key(t, ti)} |->
                  IF k = Key(t, ti) THEN value ELSE actionCache[k]]
          ELSE actionCache

\* Mutant of ProcessTaskNextState: a wait is taken for the end.
ProcessTaskNextState_Ends(t, ti, outcome) ==
  taskInfos' = [taskInfos EXCEPT ![t] = Finish(ti, outcome)]

ProcessTaskNextState(t, ti, outcome) ==
  IF outcome = "wait" THEN Wait(t, ti)
                      ELSE taskInfos' = [taskInfos EXCEPT ![t] = Finish(ti, outcome)]

\* compute() returns.
EndCompute(t) ==
  LET ti == taskInfos[t]
      outcome == Outcome(t, ti)
  IN  /\ ti.stage = "computing" /\ ti.todo = << >>
      /\ IF t \in Builds /\ outcome # "wait"
           THEN buildResult' = [buildResult EXCEPT ![t] =
                  IF ti.failed \/ BadInputs(ti) THEN "error" ELSE ResultOf(ti)]
           ELSE UNCHANGED buildResult
      /\ UpdateTaskCache(t, ti, outcome)
      /\ ProcessTaskNextState(t, ti, outcome)
      /\ lane' = NoTask
      /\ UNCHANGED <<work, nextWork, ruleProviders, initialized, executorVars, engines,
                     rejects>>

-----------------------------------------------------------------------------
(***************************************************************************)
(* The cache                                                               *)
(***************************************************************************)
\* checkTaskCacheForReadyTask: the job asks the cache.
AskCache(t) ==
  /\ lane = NoTask /\ taskInfos[t].stage = "lookup"
  /\ taskInfos' = [taskInfos EXCEPT ![t].stage = "asking"]
  /\ UNCHANGED <<work, nextWork, lane, ruleProviders, initialized, buildResult,
                 executorVars, actionCache, engines, rejects>>

\* Mutant of CacheMiss: the task is not queued again.
CacheMiss_Dropped(t) ==
  /\ taskInfos[t].stage = "asking"
  /\ taskInfos' = [taskInfos EXCEPT ![t].stage = "done"]
  /\ UNCHANGED <<work, nextWork, lane, ruleProviders, initialized, buildResult,
                 executorVars, actionCache, engines, rejects>>

\* The cache has nothing, or fails to answer: the task is computed.
CacheMiss(t) ==
  /\ taskInfos[t].stage = "asking"
  /\ taskInfos' = [taskInfos EXCEPT ![t].stage = "ready"]
  /\ UNCHANGED <<work, nextWork, lane, ruleProviders, initialized, buildResult,
                 executorVars, actionCache, engines, rejects>>

\* The cache has the transition: the requests it made that the task has not made
\* are made now.
CacheHit(t) ==
  LET ti == taskInfos[t]
      value == actionCache[Key(t, ti)]
      missing == {sid \in value.requests : sid \notin DOMAIN ti.stableIDMap}
  IN  /\ ti.stage = "asking" /\ Key(t, ti) \in DOMAIN actionCache
      /\ \E n \in 0 .. Cardinality(missing) : \E order \in Bijection(1 .. n, missing) :
           taskInfos' = [taskInfos EXCEPT ![t] =
             [ti EXCEPT !.stage = "replaying", !.cached = value,
                        !.todo = [i \in 1 .. n |->
                                    [kind |-> order[i][1], label |-> order[i][2]]]]]
      /\ UNCHANGED <<work, nextWork, lane, ruleProviders, initialized, buildResult,
                     executorVars, actionCache, engines, rejects>>

EndReplay(t) ==
  LET ti == taskInfos[t]
      replayed == [ti EXCEPT !.ids = ti.cached.ids, !.cached = NoMap]
  IN  /\ ti.stage = "replaying" /\ ti.todo = << >>
      /\ ProcessTaskNextState(t, replayed, ti.cached.outcome)
      /\ UNCHANGED <<work, nextWork, lane, ruleProviders, initialized, buildResult,
                     executorVars, actionCache, engines, rejects>>

-----------------------------------------------------------------------------
(***************************************************************************)
(* Requests, of a task that computes or whose transition is replayed       *)
(***************************************************************************)
Requesting(t) ==
  taskInfos[t].stage \in {"computing", "replaying"} /\ taskInfos[t].todo # << >>

Request(t) == Head(taskInfos[t].todo)

\* The request is answered with an id.
Requested(ti, id) ==
  [ti EXCEPT !.todo = Tail(@), !.step = "check", !.target = NoTask,
             !.ids = IF ti.stage = "computing" THEN Append(@, id) ELSE @]

\* The request fails: the task ends with the error, or the replay is given up.
Refused(ti) ==
  [ti EXCEPT !.todo = << >>, !.step = "check", !.target = NoTask, !.cached = NoMap,
             !.failed = (ti.stage = "computing"),
             !.stage = IF ti.stage = "computing" THEN "computing" ELSE "ready"]

Recorded(ti, input, sid) ==
  Requested([ti EXCEPT !.requestedTaskInputs = Insert(@, input, sid),
                       !.stableIDMap = Insert(@, sid, input)], sid)

\* The rule a request is about.
RuleFor(request) ==
  IF request.kind = "artifact" THEN ProducerOf(request.label) ELSE request.label

requestVars == <<lane, initialized, buildResult, actionCache, engines>>

\* taskRequestArtifact and taskRequestRule: is the task in flight?  The id of a task
\* in flight is returned as it is when the task is requested by rule.
CheckInFlight(t) ==
  LET ti == taskInfos[t]
      input == RuleFor(Request(t))
  IN  /\ Requesting(t) /\ Request(t).kind \in {"artifact", "rule"} /\ ti.step = "check"
      /\ taskInfos' = [taskInfos EXCEPT ![t] =
           IF ~Live(input) THEN [ti EXCEPT !.step = "rule"]
           ELSE IF Request(t).kind = "artifact"
             THEN Recorded(ti, input, StableID(Request(t)))
           ELSE Requested(ti, <<"id", input>>)]
      /\ UNCHANGED <<requestVars, work, nextWork, ruleProviders, executorVars, rejects>>

\* The rule is on record, or a provider that is registered makes it.
FindRule(t) ==
  LET ti == taskInfos[t]
  IN  /\ Requesting(t) /\ ti.step = "rule"
      /\ taskInfos' = [taskInfos EXCEPT ![t] =
           IF ProviderOf[RuleFor(Request(t))] \in ruleProviders
             THEN [ti EXCEPT !.step = "construct"] ELSE Refused(ti)]
      /\ UNCHANGED <<requestVars, work, nextWork, ruleProviders, executorVars, rejects>>

\* A build that found the engine initialized requests its artifact with
\* engineStateMutex held.
HoldsStateMutex(t) ==
  t \in Builds /\ taskInfos[t].stage = "computing" /\ taskInfos[t].inputs = << >>

\* constructTask and insertTask.  The task may have been started in the meantime; a
\* rule's name is not an artifact, so that a request by rule then fails.
ConstructTask(t) ==
  LET ti == taskInfos[t]
      input == RuleFor(Request(t))
      found == [ti EXCEPT !.step = "record", !.target = input]
  IN  /\ Requesting(t) /\ ti.step = "construct"
      /\ input \in InitRules /\ ~(Live(input) /\ Request(t).kind = "artifact") =>
           \A u \in Tasks : ~HoldsStateMutex(u)
      /\ taskInfos' =
           IF Live(input)
             THEN [taskInfos EXCEPT ![t] =
                     IF Request(t).kind = "artifact" THEN found ELSE Refused(ti)]
           ELSE IF input \in InitRules /\ initialized
             THEN [taskInfos EXCEPT ![t] = Refused(ti)]
           ELSE [taskInfos EXCEPT ![t] = found, ![input] = NewTaskInfo("ready")]
      /\ UNCHANGED <<requestVars, work, nextWork, ruleProviders, executorVars, rejects>>

RecordInput(t) ==
  LET ti == taskInfos[t]
  IN  /\ Requesting(t) /\ ti.step = "record"
      /\ taskInfos' = [taskInfos EXCEPT ![t] =
           Recorded(ti, ti.target, StableID(Request(t)))]
      /\ UNCHANGED <<requestVars, work, nextWork, ruleProviders, executorVars, rejects>>

\* registerRuleProvider: only initialization tasks may, and only once.
RegisterProvider(t) ==
  LET ti == taskInfos[t]
      provider == Request(t).label
      allowed == t \in InitRules /\ provider \notin ruleProviders
  IN  /\ Requesting(t) /\ Request(t).kind = "provider"
      /\ ruleProviders' = IF allowed THEN ruleProviders \cup {provider} ELSE ruleProviders
      /\ taskInfos' = [taskInfos EXCEPT ![t] =
           IF allowed THEN [ti EXCEPT !.todo = Tail(@)] ELSE Refused(ti)]
      /\ UNCHANGED <<requestVars, work, nextWork, executorVars, rejects>>

\* taskRequestAction and taskSpawnSubtask: the work gets an id and is submitted.
Submit(t) ==
  LET w == nextWork
  IN  /\ Requesting(t) /\ Request(t).kind \in {"action", "subtask"}
      /\ taskInfos[t].step = "check" /\ w \in Works
      /\ nextWork' = w + 1
      /\ work' = Insert(work, w, [task |-> t, request |-> Request(t)])
      /\ \/ /\ Executor!Submit(w)
            /\ taskInfos' = [taskInfos EXCEPT ![t].step = "submitted", ![t].target = w]
            /\ UNCHANGED rejects
         \/ /\ Executor!Reject(w)
            /\ rejects < MaxRejects /\ rejects' = rejects + 1
            /\ taskInfos' = [taskInfos EXCEPT ![t] = Refused(@)]
      /\ UNCHANGED <<requestVars, ruleProviders>>

\* Mutant of RecordPending: an action is recorded in the map of ids only.
RecordPending_IdOnly(t) ==
  LET ti == taskInfos[t]
      w == ti.target
      sid == StableID(Request(t))
  IN  /\ Requesting(t) /\ ti.step = "submitted" /\ Executor!Accept(w)
      /\ taskInfos' = [taskInfos EXCEPT ![t] =
           Requested([ti EXCEPT !.stableIDMap = Insert(@, sid, w)], sid)]
      /\ UNCHANGED <<requestVars, work, nextWork, ruleProviders, rejects>>

\* submit() has returned, and the work is recorded as pending.
RecordPending(t) ==
  LET ti == taskInfos[t]
      w == ti.target
      isAction == Request(t).kind = "action"
      sid == IF isAction THEN StableID(Request(t)) ELSE <<"subtask", w>>
      pending == [ti EXCEPT
        !.pendingActions =
          IF isAction THEN Insert(@, w, [sid |-> sid, result |-> Pending]) ELSE @,
        !.pendingSubtasks = IF isAction THEN @ ELSE Insert(@, w, Pending),
        !.stableIDMap = Insert(@, sid, w)]
  IN  /\ Requesting(t) /\ ti.step = "submitted" /\ Executor!Accept(w)
      /\ taskInfos' = [taskInfos EXCEPT ![t] = Requested(pending, sid)]
      /\ UNCHANGED <<requestVars, work, nextWork, ruleProviders, rejects>>

\* The result of work w has come.
Done(ti, w, isAction, result) ==
  [ti EXCEPT
    !.pendingActions = IF isAction THEN [@ EXCEPT ![w].result = result] ELSE @,
    !.pendingSubtasks = IF isAction THEN @ ELSE [@ EXCEPT ![w] = result],
    !.waitingOn = @ \ {w}]

\* notifyActionComplete and notifySubtaskComplete.  at() throws when the completion
\* overtakes the record of the work.
WorkDone(w) ==
  LET t == work[w].task
      ti == taskInfos[t]
      isAction == work[w].request.kind = "action"
      recorded == w \in DOMAIN ti.pendingActions \cup DOMAIN ti.pendingSubtasks
  IN  /\ w \in DOMAIN work /\ Executor!Complete(w)
      /\ \E result \in IF isAction THEN ActionResults ELSE SubtaskResults :
           taskInfos' = [taskInfos EXCEPT ![t] =
             IF ~recorded THEN [ti EXCEPT !.stage = "thrown"]
             ELSE IF ti.waitingOn = {w} THEN Unblock(Done(ti, w, isAction, result))
             ELSE Done(ti, w, isAction, result)]
      /\ UNCHANGED <<requestVars, work, nextWork, ruleProviders, rejects>>

-----------------------------------------------------------------------------
(***************************************************************************)
(* Clients                                                                 *)
(***************************************************************************)
Build(b) ==
  /\ ~Live(b) /\ taskInfos' = [taskInfos EXCEPT ![b] = NewTaskInfo("ready")]
  /\ UNCHANGED <<work, nextWork, lane, ruleProviders, initialized, buildResult,
                 executorVars, actionCache, engines, rejects>>

\* The client lets the engine go when its builds have reported, and starts another on
\* the same cache.  The destructor runs the jobs that are queued.
NewEngine ==
  /\ engines < MaxEngines /\ lane = NoTask
  /\ \E b \in Builds : Live(b)
  /\ \A b \in Builds : Live(b) => buildResult[b] # "none"
  /\ \A t \in Tasks : taskInfos[t].stage \in {"absent", "waiting", "done"}
  /\ engines' = engines + 1
  /\ taskInfos' = [t \in Tasks |-> NewTaskInfo("absent")]
  /\ work' = NoMap /\ nextWork' = 1
  /\ ruleProviders' = {InitProvider} /\ initialized' = FALSE
  /\ buildResult' = [b \in Builds |-> "none"]
  /\ call' = [w \in Works |-> "idle"] /\ completions' = [w \in Works |-> 0]
  /\ UNCHANGED <<lane, actionCache, rejects>>

Thrown == \E t \in Tasks : taskInfos[t].stage = "thrown"

Lane == \E t \in Tasks :
  StartCompute(t) \/ EndCompute(t) \/ AskCache(t) \/ WakeRequesters(t)

Requests_(t) ==
  \/ CheckInFlight(t) \/ FindRule(t) \/ ConstructTask(t) \/ RecordInput(t)
  \/ RegisterProvider(t) \/ Submit(t) \/ RecordPending(t)

Cache(t) == CacheMiss(t) \/ CacheHit(t) \/ EndReplay(t)

Client == NewEngine \/ \E b \in Builds : Build(b)

\* What the engine's lane, the cache and the executor do on their own.
Progress == Lane \/ (\E t \in Tasks : Requests_(t) \/ Cache(t))
                 \/ (\E w \in DOMAIN work : WorkDone(w))

\* An exception on one of their threads ends the process.
Next == ~Thrown /\ (Progress \/ Client)

Spec == Init /\ [][Next]_vars

\* The lane takes jobs while there are some, and the cache and the executor answer.
FairSpec == Spec /\ WF_vars(~Thrown /\ Progress)
-----------------------------------------------------------------------------
(***************************************************************************)
(* Properties                                                              *)
(***************************************************************************)
Ids == Tasks \cup Works
Results == {"none", "old", "new", "error", "unrequested"}

\* The type invariant.
TypeOK ==
  /\ \A t \in Tasks : LET ti == taskInfos[t] IN
       /\ ti.stage \in {"absent", "ready", "lookup", "asking", "computing", "replaying",
                        "waiting", "finished", "done", "thrown"}
       /\ ti.context \in Nat /\ ti.next \in Results /\ ti.failed \in BOOLEAN
       /\ ti.step \in {"check", "rule", "construct", "record", "submitted"}
       /\ ti.target \in Ids \cup {NoTask} /\ ti.waitingOn \subseteq Ids
       /\ ti.requestedBy \subseteq Tasks /\ DOMAIN ti.requestedTaskInputs \subseteq Tasks
       /\ DOMAIN ti.pendingActions \cup DOMAIN ti.pendingSubtasks \subseteq Works
       /\ Range(ti.stableIDMap) \subseteq Ids
  /\ lane \in Tasks \cup {NoTask} /\ DOMAIN work \subseteq Works
  /\ nextWork \in 1 .. MaxWorks + 1 /\ initialized \in BOOLEAN

\* A task that waits will be woken: it waits for something, and all it waits for is
\* a task that has still to wake its requesters, of whom it is one, or work
\* whose completion the executor still owes.
NoLostWakeup ==
  \A t \in Tasks :
    /\ (taskInfos[t].stage = "waiting") = (taskInfos[t].waitingOn # {})
    /\ \A id \in taskInfos[t].waitingOn :
         \/ /\ id \in Tasks /\ t \in taskInfos[id].requestedBy
            /\ taskInfos[id].stage \notin {"absent", "done"}
         \/ /\ id \in DOMAIN work /\ work[id].task = t
            /\ call[id] = "accepted" /\ completions[id] = 0

\* The next state of a task starts with exactly the answers it has waited for, in
\* their order, and each is the answer to that request.
InputsAreAnswers ==
  \A t \in Tasks :
    LET ti == taskInfos[t]
        asked == NotSubtasks(ti.ids)
    IN  ti.stage \in {"lookup", "asking", "ready"} /\ ti.context > 0 =>
          /\ [i \in DOMAIN ti.inputs |-> ti.inputs[i].id] = asked
          /\ \A i \in DOMAIN ti.inputs :
               LET input == ti.inputs[i]
                   producer == IF input.id[1] = "rule" THEN input.id[2]
                               ELSE ProducerOf(input.id[2])
                   result == taskInfos[producer].next
               IN  \/ input.id[1] = "action" /\ input.value \in ActionResults
                   \/ /\ input.id[1] \in {"artifact", "rule"} /\ Over(producer)
                      /\ input.value = IF result \in {"old", "new"} THEN result
                                       ELSE "error"
          /\ ti.subtasks \subseteq SubtaskResults

\* A transition that is replayed is the one compute() would make: the requests, the
\* wait and the result are the same.  Two kinds of entry are exceptions: the
\* results of subtasks are not part of the key, and a refused request is cached
\* as the error it led to.
ReplayIsFaithful ==
  \A t \in Tasks :
    LET ti == taskInfos[t]
        plan == Plan(t, ti)
    IN  ti.stage = "replaying" /\ ti.subtasks = {} /\ ti.cached.outcome # "error" =>
          /\ ti.cached.outcome = Outcome(t, ti)
          /\ ti.cached.outcome = "wait" =>
               ti.cached.ids = [i \in DOMAIN plan |-> StableID(plan[i])]

\* An exception has one of two causes: the executor reports the completion of work
\* that taskRequestAction or taskSpawnSubtask has not recorded yet, or a task
\* waits for two artifacts of one task.
ThrowsOnlyFor ==
  \A t \in Tasks :
    LET ti == taskInfos[t]
    IN  ti.stage = "thrown" =>
          \/ ti.step = "submitted" /\ completions[ti.target] = 1
          \/ \E i, j \in DOMAIN ti.ids :
               i # j /\ WaitID(ti, i) = WaitID(ti, j)

\* No rule but the initialization rule is used before the engine is initialized, and
\* it is not before the task of that rule has ended: checkInit and the flag
\* InitTask sets keep the builds back, however many there are.
InitializedFirst ==
  /\ \A r \in Rules \ {InitRule} : Live(r) => initialized
  /\ initialized /\ InitRule # NoTask => Over(InitRule)

\* Every build reports, unless an exception ends the process.
BuildsAreAnswered ==
  \A b \in Builds : Live(b) ~> (buildResult[b] # "none" \/ Thrown)

\* "Request all of the artifact(s) produced by a rule": the id a request returns can
\* be waited for.
RequestsAreServed == \A t \in Tasks : taskInfos[t].next # "unrequested"
=============================================================================
