--------------------------- MODULE ActionExecutor ---------------------------
(***************************************************************************)
(* The action executor of llbuild3: actions and subtasks that engines      *)
(* submit, the queue of the lanes (threads that run a process or a         *)
(* subtask), the lane that starts asynchronous subtasks, remote execution, *)
(* and the cache of action results.                                        *)
(*                                                                         *)
(* Work is brought from stage to stage by the thread that submits it, by a *)
(* lane, or by a callback of the store, the cache, the remote executor or  *)
(* an asynchronous subtask.  What runs under one mutex is one action.  The *)
(* queues are sets: their comparator is not an ordering, so nothing is     *)
(* known about which item comes first.                                     *)
(***************************************************************************)
EXTENDS Naturals, FiniteSets

CONSTANTS
  Works,        \* what is submitted
  Kinds,        \* the kinds of work; works of one kind are the same action
  Lanes,        \* the local lanes
  MaxAsync,     \* maxAsyncConcurrency; 0 is no limit
  NoWork

AllKinds == {"subtask", "async", "subprocess", "volatile", "function", "remote"}

ASSUME ExecutorAssumption ==
  Kinds \subseteq AllKinds /\ NoWork \notin Works /\ MaxAsync \in Nat

\* numLanes is at least 1, whatever hardware_concurrency() says.
ASSUME LanesAssumption == IsFiniteSet(Lanes) /\ Lanes # {}

VARIABLES
  kind,         \* work -> its kind
  call,         \* work -> where the call of submit() for it is
  stage,        \* work -> how far it has come
  pending,      \* the works in the table of pending items
  localActions, asyncActions,
  lane,         \* lane -> where it is and the work it is busy with
  asyncLane,
  inflightAsyncActions,
  dispatching, executing,  \* works whose remote callbacks are outstanding
  executable,   \* the remote executor's copy of the executable is known
  cacheWrites, cache,      \* kinds whose result is being put in, is in the cache
  completions,  \* work -> how often the listener has been told that it is complete
  destructor    \* how far the executor's destructor has come

queueVars == <<localActions, asyncActions, lane, asyncLane, inflightAsyncActions>>
remoteVars == <<dispatching, executing, executable>>
cacheVars == <<cacheWrites, cache>>
vars == <<queueVars, remoteVars, cacheVars, kind, call, stage, pending, completions,
          destructor>>

Subtasks == {"subtask", "async"}
Cacheable == {"subprocess", "function", "remote"}
Processes == {"subprocess", "volatile", "function"}

Idle == [at |-> "top", work |-> NoWork]

Init ==
  /\ kind \in [Works -> Kinds]
  /\ call = [w \in Works |-> "idle"] /\ stage = [w \in Works |-> "new"]
  /\ pending = {} /\ localActions = {} /\ asyncActions = {}
  /\ lane = [l \in Lanes |-> Idle] /\ asyncLane = Idle /\ inflightAsyncActions = 0
  /\ dispatching = {} /\ executing = {} /\ executable = FALSE
  /\ cacheWrites = {} /\ cache = {}
  /\ completions = [w \in Works |-> 0] /\ destructor = "none"

shouldShutdown == destructor # "none"

\* A callback after the destructor would find freed memory; it is not modelled.
Alive == destructor # "destroyed"

Moves(w, to) == stage' = [stage EXCEPT ![w] = to]

-----------------------------------------------------------------------------
(***************************************************************************)
(* Completion                                                              *)
(***************************************************************************)
\* Mutant of CompleteAction: whoever calls it completes the action.
CompleteAction_Again(w) == pending' = pending \ {w} /\ Moves(w, "erased")

\* completeAction: only the first caller finds the item.
CompleteAction(w) ==
  /\ pending' = pending \ {w}
  /\ stage' = IF w \in pending THEN [stage EXCEPT ![w] = "erased"] ELSE stage

Erase(w) == pending' = pending \ {w} /\ Moves(w, "erased")

UpdateCache(k) == cacheWrites' = IF k \in Cacheable THEN cacheWrites \cup {k} ELSE cacheWrites

\* The thread that erased the item, or failed to, calls the listener.
Notify(w) ==
  /\ Alive /\ stage[w] \in {"erased", "leaked"}
  /\ completions' = [completions EXCEPT ![w] = @ + 1]
  /\ Moves(w, IF kind[w] = "async" THEN "finishing" ELSE "done")
  /\ lane' = [l \in Lanes |-> IF lane[l].work = w THEN Idle ELSE lane[l]]
  /\ UNCHANGED <<remoteVars, cacheVars, localActions, asyncActions, asyncLane,
                 inflightAsyncActions, kind, call, pending, destructor>>

-----------------------------------------------------------------------------
(***************************************************************************)
(* Submission and the cache                                                *)
(***************************************************************************)
\* Where prepareForExecution brings an action.  Without a remote executor this is
\* an error.
Prepared(w, to) ==
  \/ kind[w] # "remote" /\ to = "inserted"
  \/ kind[w] = "remote" /\ to \in {"erased", IF executable THEN "remote" ELSE "preparing"}

\* prepareForExecution.
Prepare(w) == \E to \in {"inserted", "erased", "remote", "preparing"} :
  /\ Prepared(w, to) /\ Moves(w, to)
  /\ pending' = IF to = "erased" THEN pending \ {w} ELSE pending
  /\ dispatching' = IF to = "remote" THEN dispatching \cup {w} ELSE dispatching
  /\ executing' = IF to = "remote" THEN executing \cup {w} ELSE executing

\* submit() refuses the request.
Refuse(w) ==
  /\ ~shouldShutdown /\ call[w] = "idle"
  /\ call' = [call EXCEPT ![w] = "rejected"]
  /\ UNCHANGED <<queueVars, remoteVars, cacheVars, kind, stage, pending, completions,
                 destructor>>

Submit(w) ==
  /\ ~shouldShutdown /\ call[w] = "idle"
  /\ call' = [call EXCEPT ![w] = "calling"]
  /\ pending' = pending \cup {w}
  /\ Moves(w, IF kind[w] \in Cacheable THEN "checking" ELSE "inserted")
  /\ UNCHANGED <<queueVars, remoteVars, cacheVars, kind, completions, destructor>>

\* submit() returns: a subtask has been queued by then, an action at least looked up.
Return(w) ==
  /\ call[w] = "calling" /\ (stage[w] = "inserted" => kind[w] \in Cacheable)
  /\ call' = [call EXCEPT ![w] = "accepted"]
  /\ UNCHANGED <<queueVars, remoteVars, cacheVars, kind, stage, pending, completions,
                 destructor>>

CacheHit(w) ==
  /\ Alive /\ stage[w] = "checking" /\ kind[w] \in cache
  /\ Moves(w, "loading")
  /\ UNCHANGED <<queueVars, remoteVars, cacheVars, kind, call, pending, completions,
                 destructor>>

\* Nothing is found, or the cache or the store fails.
CacheMiss(w) ==
  /\ Alive /\ stage[w] \in {"checking", "loading"} /\ Prepare(w)
  /\ UNCHANGED <<queueVars, executable, cacheVars, kind, call, completions, destructor>>

CacheLoaded(w) ==
  /\ Alive /\ stage[w] = "loading" /\ CompleteAction(w)
  /\ UNCHANGED <<queueVars, remoteVars, cacheVars, kind, call, completions, destructor>>

\* The answers of the store to updateCache; caching is best effort.
CacheUpdated(k) ==
  /\ Alive /\ k \in cacheWrites /\ cacheWrites' = cacheWrites \ {k}
  /\ cache' \in {cache, cache \cup {k}}
  /\ UNCHANGED <<queueVars, remoteVars, kind, call, stage, pending, completions,
                 destructor>>

-----------------------------------------------------------------------------
(***************************************************************************)
(* The local lanes                                                         *)
(***************************************************************************)
\* Mutant of NotifyOneLane: the queue grows in silence.
NotifyOneLane_Nobody == lane' = lane

\* localActionsCondition.notify_one()
NotifyOneLane ==
  LET asleep == {l \in Lanes : lane[l].at = "asleep"}
  IN  IF asleep = {} THEN lane' = lane
      ELSE \E l \in asleep : lane' = [lane EXCEPT ![l] = Idle]

\* queueForLocalExecution, and the end of submit() for a subtask.
Enqueue(w) ==
  /\ Alive /\ stage[w] = "inserted" /\ Moves(w, "queued")
  /\ IF kind[w] = "async"
       THEN /\ asyncActions' = asyncActions \cup {w}
            /\ asyncLane' = IF asyncLane.at = "asleep" THEN Idle ELSE asyncLane
            /\ UNCHANGED <<localActions, lane>>
       ELSE /\ localActions' = localActions \cup {w}
            /\ NotifyOneLane
            /\ UNCHANGED <<asyncActions, asyncLane>>
  /\ UNCHANGED <<remoteVars, cacheVars, inflightAsyncActions, kind, call, pending,
                 completions, destructor>>

LaneWaits(l) ==
  /\ lane[l].at = "top" /\ ~shouldShutdown /\ localActions = {}
  /\ lane' = [lane EXCEPT ![l].at = "asleep"]
  /\ UNCHANGED <<remoteVars, cacheVars, localActions, asyncActions, asyncLane,
                 inflightAsyncActions, kind, call, stage, pending, completions,
                 destructor>>

\* Mutant of LaneExits: a lane exits as soon as it sees the flag.
LaneExits_AtOnce(l) ==
  /\ lane[l].at = "top" /\ shouldShutdown
  /\ lane' = [lane EXCEPT ![l].at = "exited"]
  /\ UNCHANGED <<remoteVars, cacheVars, localActions, asyncActions, asyncLane,
                 inflightAsyncActions, kind, call, stage, pending, completions,
                 destructor>>

LaneExits(l) ==
  /\ lane[l].at = "top" /\ shouldShutdown /\ localActions = {}
  /\ lane' = [lane EXCEPT ![l].at = "exited"]
  /\ UNCHANGED <<remoteVars, cacheVars, localActions, asyncActions, asyncLane,
                 inflightAsyncActions, kind, call, stage, pending, completions,
                 destructor>>

LanePops(l) == \E w \in localActions :
  /\ lane[l].at = "top"
  /\ localActions' = localActions \ {w}
  /\ lane' = [lane EXCEPT ![l] = [at |-> "busy", work |-> w]]
  /\ Moves(w, "held")
  /\ UNCHANGED <<remoteVars, cacheVars, asyncActions, asyncLane, inflightAsyncActions, kind,
                 call, pending, completions, destructor>>

\* The lane looks the item up and starts the subtask or the process.
LaneStarts(l) == LET w == lane[l].work IN
  /\ lane[l].at = "busy" /\ stage[w] = "held" /\ Moves(w, "running")
  /\ UNCHANGED <<queueVars, remoteVars, cacheVars, kind, call, pending, completions,
                 destructor>>

\* Mutant of LaneFinishes: the item is not erased.
LaneFinishes_NotErased(l) == LET w == lane[l].work IN
  /\ lane[l].at = "busy" /\ stage[w] = "running" /\ Moves(w, "erased")
  /\ UNCHANGED <<queueVars, remoteVars, cacheVars, kind, call, pending, completions,
                 destructor>>

\* The subtask returns; or the process could not be set up, failed, or printed what
\* is not the id of a result.
LaneFinishes(l) == LET w == lane[l].work IN
  /\ lane[l].at = "busy" /\ stage[w] = "running" /\ Erase(w)
  /\ UNCHANGED <<queueVars, remoteVars, cacheVars, kind, call, completions, destructor>>

\* handleFunctionFinished, for a function that succeeded.
FunctionReturns(l) == LET w == lane[l].work IN
  /\ lane[l].at = "busy" /\ stage[w] = "running" /\ kind[w] = "function"
  /\ Erase(w) /\ UpdateCache("function")
  /\ UNCHANGED <<queueVars, remoteVars, cache, kind, call, completions, destructor>>

\* handleSubprocessFinished: the outputs cannot be collected.  The item stays.
OutputsFail(l) == LET w == lane[l].work IN
  /\ lane[l].at = "busy" /\ stage[w] = "running" /\ kind[w] \in {"subprocess", "volatile"}
  /\ Moves(w, "leaked")
  /\ UNCHANGED <<queueVars, remoteVars, cacheVars, kind, call, pending, completions,
                 destructor>>

\* Mutant of ProcessEnds: the item is erased before the log has answered.
ProcessEnds_ErasesEarly(l, to) == LET w == lane[l].work IN
  /\ lane[l].at = "busy" /\ stage[w] = "running" /\ kind[w] \in Processes
  /\ to = "lost" \/ (to = "flushing" /\ kind[w] # "function")
  /\ Moves(w, to) /\ lane' = [lane EXCEPT ![l] = Idle] /\ pending' = pending \ {w}
  /\ UNCHANGED <<remoteVars, cacheVars, localActions, asyncActions, asyncLane,
                 inflightAsyncActions, kind, call, completions, destructor>>

\* handleSubprocessFinished: the log of the output is flushed.  A stream without
\* output returns from flush() and never calls back, and so does a process whose
\* pipes cannot be polled.
ProcessEnds(l, to) == LET w == lane[l].work IN
  /\ lane[l].at = "busy" /\ stage[w] = "running" /\ kind[w] \in Processes
  /\ to = "lost" \/ (to = "flushing" /\ kind[w] # "function")
  /\ Moves(w, to) /\ lane' = [lane EXCEPT ![l] = Idle]
  /\ UNCHANGED <<remoteVars, cacheVars, localActions, asyncActions, asyncLane,
                 inflightAsyncActions, kind, call, pending, completions, destructor>>

\* The log answers the flush, with an id or an error; or it has stalled (CASLog).
Flushed(w, ok) ==
  /\ Alive /\ stage[w] = "flushing" /\ Erase(w)
  /\ IF ok THEN UpdateCache(kind[w]) ELSE UNCHANGED cacheWrites
  /\ UNCHANGED <<queueVars, remoteVars, cache, kind, call, completions, destructor>>

FlushStalls(w) ==
  /\ Alive /\ stage[w] = "flushing" /\ Moves(w, "lost")
  /\ UNCHANGED <<queueVars, remoteVars, cacheVars, kind, call, pending, completions,
                 destructor>>

-----------------------------------------------------------------------------
(***************************************************************************)
(* Asynchronous subtasks                                                   *)
(***************************************************************************)
\* Mutant of AtLimit: one too many.
AtLimit_OneMore == MaxAsync > 0 /\ inflightAsyncActions > MaxAsync

AtLimit == MaxAsync > 0 /\ inflightAsyncActions >= MaxAsync

AsyncLaneWaits ==
  /\ asyncLane.at = "top" /\ ~shouldShutdown /\ (asyncActions = {} \/ AtLimit)
  /\ asyncLane' = [asyncLane EXCEPT !.at = "asleep"]
  /\ UNCHANGED <<remoteVars, cacheVars, localActions, asyncActions, lane,
                 inflightAsyncActions, kind, call, stage, pending, completions,
                 destructor>>

AsyncLaneExits ==
  /\ asyncLane.at = "top" /\ shouldShutdown /\ asyncActions = {}
  /\ asyncLane' = [asyncLane EXCEPT !.at = "exited"]
  /\ UNCHANGED <<remoteVars, cacheVars, localActions, asyncActions, lane,
                 inflightAsyncActions, kind, call, stage, pending, completions,
                 destructor>>

AsyncLanePops == \E w \in asyncActions :
  /\ asyncLane.at = "top" /\ (shouldShutdown \/ ~AtLimit)
  /\ asyncActions' = asyncActions \ {w}
  /\ asyncLane' = [at |-> "busy", work |-> w]
  /\ Moves(w, "held")
  /\ UNCHANGED <<remoteVars, cacheVars, localActions, lane, inflightAsyncActions, kind,
                 call, pending, completions, destructor>>

\* Mutant of AsyncLaneStarts: the subtask is not counted.
AsyncLaneStarts_NotCounted == LET w == asyncLane.work IN
  /\ asyncLane.at = "busy" /\ stage[w] = "held"
  /\ Moves(w, "running") /\ asyncLane' = Idle
  /\ UNCHANGED <<remoteVars, cacheVars, localActions, asyncActions, lane,
                 inflightAsyncActions, kind, call, pending, completions, destructor>>

\* The subtask is counted, then called.
AsyncLaneStarts == LET w == asyncLane.work IN
  /\ asyncLane.at = "busy" /\ stage[w] = "held"
  /\ inflightAsyncActions' = inflightAsyncActions + 1
  /\ Moves(w, "running") /\ asyncLane' = Idle
  /\ UNCHANGED <<remoteVars, cacheVars, localActions, asyncActions, lane, kind, call,
                 pending, completions, destructor>>

\* The callback of an asynchronous subtask; it notifies, and then gives up its place.
AsyncFinishes(w) ==
  /\ Alive /\ kind[w] = "async" /\ stage[w] = "running" /\ Erase(w)
  /\ UNCHANGED <<queueVars, remoteVars, cacheVars, kind, call, completions, destructor>>

AsyncLeaves(w) ==
  /\ Alive /\ stage[w] = "finishing" /\ Moves(w, "done")
  /\ inflightAsyncActions' = inflightAsyncActions - 1
  /\ NotifyOneLane
  /\ UNCHANGED <<remoteVars, cacheVars, localActions, asyncActions, asyncLane, kind, call,
                 pending, completions, destructor>>

-----------------------------------------------------------------------------
(***************************************************************************)
(* Remote execution                                                        *)
(***************************************************************************)
RemotePrepared(w) ==
  /\ Alive /\ stage[w] = "preparing" /\ Moves(w, "remote")
  /\ executable' = TRUE
  /\ dispatching' = dispatching \cup {w} /\ executing' = executing \cup {w}
  /\ UNCHANGED <<queueVars, cacheVars, kind, call, pending, completions, destructor>>

RemoteNotPrepared(w) ==
  /\ Alive /\ stage[w] = "preparing" /\ CompleteAction(w)
  /\ UNCHANGED <<queueVars, remoteVars, cacheVars, kind, call, completions, destructor>>

\* The two callbacks of execute() come in any order.
RemoteDispatched(w, ok) ==
  /\ Alive /\ w \in dispatching /\ dispatching' = dispatching \ {w}
  /\ IF ok THEN UNCHANGED <<pending, stage>> ELSE CompleteAction(w)
  /\ UNCHANGED <<queueVars, executing, executable, cacheVars, kind, call, completions,
                 destructor>>

RemoteResult(w, ok) ==
  /\ Alive /\ w \in executing /\ executing' = executing \ {w}
  /\ IF ok THEN UpdateCache(kind[w]) ELSE UNCHANGED cacheWrites
  /\ CompleteAction(w)
  /\ UNCHANGED <<queueVars, dispatching, executable, cache, kind, call, completions,
                 destructor>>

-----------------------------------------------------------------------------
(***************************************************************************)
(* The destructor                                                          *)
(***************************************************************************)
\* shouldShutdown is set; whoever destroys the executor calls nothing else on it.
BeginShutdown ==
  /\ destructor = "none" /\ \A w \in Works : call[w] # "calling"
  /\ destructor' = "flag"
  /\ UNCHANGED <<queueVars, remoteVars, cacheVars, kind, call, stage, pending, completions>>

NotifyAllLanes ==
  /\ destructor = "flag" /\ destructor' = "join"
  /\ lane' = [l \in Lanes |-> IF lane[l].at = "asleep" THEN Idle ELSE lane[l]]
  /\ UNCHANGED <<remoteVars, cacheVars, localActions, asyncActions, asyncLane,
                 inflightAsyncActions, kind, call, stage, pending, completions>>

LanesJoined ==
  /\ destructor = "join" /\ \A l \in Lanes : lane[l].at = "exited"
  /\ destructor' = "joinAsync"
  /\ asyncLane' = IF asyncLane.at = "asleep" THEN Idle ELSE asyncLane
  /\ UNCHANGED <<remoteVars, cacheVars, localActions, asyncActions, lane,
                 inflightAsyncActions, kind, call, stage, pending, completions>>

Destroyed ==
  /\ destructor = "joinAsync" /\ asyncLane.at = "exited"
  /\ destructor' = "destroyed"
  /\ UNCHANGED <<queueVars, remoteVars, cacheVars, kind, call, stage, pending, completions>>

-----------------------------------------------------------------------------
SubmitStep(w) == Return(w) \/ CacheHit(w) \/ CacheMiss(w) \/ CacheLoaded(w) \/ Enqueue(w)

LaneStep(l) ==
  \/ LaneWaits(l) \/ LaneExits(l) \/ LanePops(l) \/ LaneStarts(l) \/ LaneFinishes(l)
  \/ FunctionReturns(l) \/ OutputsFail(l) \/ \E to \in {"lost", "flushing"} : ProcessEnds(l, to)

AsyncStep ==
  \/ AsyncLaneWaits \/ AsyncLaneExits \/ AsyncLanePops \/ AsyncLaneStarts
  \/ \E w \in Works : AsyncFinishes(w) \/ AsyncLeaves(w)

CallbackStep(w) ==
  \/ Notify(w) \/ FlushStalls(w) \/ RemotePrepared(w) \/ RemoteNotPrepared(w)
  \/ \E ok \in BOOLEAN : Flushed(w, ok) \/ RemoteDispatched(w, ok) \/ RemoteResult(w, ok)

DestructorStep == NotifyAllLanes \/ LanesJoined \/ Destroyed

\* What goes on without the client.
Progress ==
  \/ \E w \in Works : SubmitStep(w) \/ CallbackStep(w)
  \/ \E l \in Lanes : LaneStep(l)
  \/ \E k \in Kinds : CacheUpdated(k)
  \/ AsyncStep
  \/ DestructorStep

Next ==
  \/ \E w \in Works : Submit(w) \/ Refuse(w)
  \/ BeginShutdown
  \/ Progress

Spec == Init /\ [][Next]_vars

\* Threads are scheduled, processes and subtasks end, and the store, the cache and
\* the remote executor answer.
FairSpec == Spec /\ WF_vars(Progress)

-----------------------------------------------------------------------------
(***************************************************************************)
(* Properties                                                              *)
(***************************************************************************)
Stages == {"new", "checking", "loading", "inserted", "queued", "held", "running",
           "flushing", "preparing", "remote", "erased", "leaked", "finishing", "done",
           "lost"}

LaneState == [at : {"top", "asleep", "busy", "exited"}, work : Works \cup {NoWork}]

\* The type invariant.
TypeOK ==
  /\ kind \in [Works -> Kinds] /\ stage \in [Works -> Stages]
  /\ call \in [Works -> {"idle", "calling", "accepted", "rejected"}]
  /\ pending \subseteq Works /\ localActions \subseteq Works /\ asyncActions \subseteq Works
  /\ lane \in [Lanes -> LaneState] /\ asyncLane \in LaneState
  /\ inflightAsyncActions \in Nat /\ completions \in [Works -> Nat]
  /\ dispatching \subseteq Works /\ executing \subseteq Works /\ executable \in BOOLEAN
  /\ cacheWrites \subseteq Kinds /\ cache \subseteq Kinds
  /\ destructor \in {"none", "flag", "join", "joinAsync", "destroyed"}

\* The executor keeps the promise of ActionContract: whatever the cache, the remote
\* callbacks and the lanes do, work that was refused is never completed, and the
\* listener hears of the other work at most once.
Contract == INSTANCE ActionContract

KeepsContract == Contract!Spec

\* The assertions "it != pending.end()": whoever carries work on from here finds it in
\* the table.
PendingIsFound ==
  \A w \in Works :
    stage[w] \in {"checking", "loading", "inserted", "queued", "held", "running",
                  "flushing", "preparing"} => w \in pending

\* What stays in the table for ever: work that was lost on the way, and work whose
\* outputs could not be collected.
NothingElseLeaks ==
  \A w \in Works : w \in pending /\ stage[w] \in {"erased", "finishing", "done"} =>
    kind[w] \in {"subprocess", "volatile"}

\* No lane sleeps while there is more work in the queue than lanes on their way to
\* it: every push wakes one up, and the last sleepers are woken by the destructor.
LanesKeepUp ==
  (\E l \in Lanes : lane[l].at = "asleep") =>
    Cardinality(localActions) <= Cardinality({l \in Lanes : lane[l].at = "top"})

\* "While the queue is empty, wait for an item.": the asynchronous lane sleeps only
\* while it has nothing to start or may start nothing.
AsyncLaneKeepsUp == asyncLane.at = "asleep" => asyncActions = {} \/ AtLimit

\* inflightAsyncActions counts the subtasks between their start and the end of
\* their callback, and stays within the limit until the executor shuts down.
InflightIsExact ==
  /\ inflightAsyncActions =
       Cardinality({w \in Works : kind[w] = "async" /\ stage[w] \in {"running", "erased", "finishing"}})
  /\ MaxAsync > 0 /\ ~shouldShutdown => inflightAsyncActions <= MaxAsync

\* The destructor returns only when every subtask that was submitted has been
\* started, and every one a lane runs has ended.
SubtasksAreDrained ==
  ~Alive => \A w \in Works : /\ kind[w] \in Subtasks => stage[w] \notin {"inserted", "queued", "held"}
                             /\ kind[w] = "subtask" => stage[w] \in {"new", "done"}

\* Work that was accepted is completed in the end, unless the executor is destroyed
\* first, no callback will come for it, or it is an asynchronous subtask in the
\* queue of a lane that sleeps for ever (see AsyncLaneKeepsUp).
AcceptedIsCompleted ==
  \A w \in Works : call[w] = "accepted" ~>
    \/ stage[w] \in {"done", "lost"} \/ ~Alive
    \/ [](w \in asyncActions /\ asyncLane.at = "asleep")
=============================================================================
