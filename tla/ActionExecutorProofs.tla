------------------------ MODULE ActionExecutorProofs ------------------------
(***************************************************************************)
(* The action executor implements ActionContract, and finds the items its  *)
(* assertions expect, for any number of works, lanes and kinds, with and   *)
(* without a limit on asynchronous subtasks; no wake-up of its lanes is    *)
(* lost, and its destructor waits for every subtask.                       *)
(***************************************************************************)
EXTENDS ActionExecutor, FiniteSetTheorems, TLAPS

\* The stages in which the listener has heard of the completion.
Heard == {"finishing", "done"}

\* The stages in which the table holds the item, as the code asserts.
Carried == {"checking", "loading", "inserted", "queued", "held", "running", "flushing",
            "preparing", "remote"}

\* The remote callbacks may come for an item at these stages.
CalledBack == {"remote", "erased", "finishing", "done"}

\* A lane that is busy has work.
LaneShape == [at : {"busy"}, work : Works]
               \cup [at : {"top", "asleep", "exited"}, work : Works \cup {NoWork}]

\* What the argument needs of the types.
Shapes ==
  /\ kind \in [Works -> Kinds] /\ stage \in [Works -> Stages]
  /\ call \in [Works -> {"idle", "calling", "accepted", "rejected"}]
  /\ completions \in [Works -> Nat]
  /\ localActions \subseteq Works /\ asyncActions \subseteq Works
  /\ lane \in [Lanes -> LaneShape] /\ asyncLane \in LaneShape

\* The inductive invariant, for one work.  A callback completes an action only if it
\* finds the item, so what has been completed must not be in the table; the items
\* that stay there by mistake belong to processes, for which no callback comes.
WorkInv(w) ==
  /\ stage[w] = "new" <=> call[w] \in {"idle", "rejected"}
  /\ completions[w] = IF stage[w] \in Heard THEN 1 ELSE 0
  /\ stage[w] \in Carried => w \in pending
  /\ w \in pending => stage[w] # "new"
  /\ w \in pending /\ stage[w] \in {"erased", "finishing", "done"} =>
       kind[w] \in {"subprocess", "volatile"}
  /\ stage[w] = "leaked" => kind[w] \in {"subprocess", "volatile"}
  /\ stage[w] = "preparing" => kind[w] = "remote"
  /\ w \in dispatching \cup executing => kind[w] = "remote" /\ stage[w] \in CalledBack
  /\ w \in localActions => stage[w] = "queued" /\ kind[w] # "async"
  /\ w \in asyncActions => stage[w] = "queued" /\ kind[w] = "async"

ExecutorInv == Shapes /\ \A w \in Works : WorkInv(w)

\* A step keeps the invariant and is a step of the contract, or none.
Good == ExecutorInv' /\ [Contract!Next]_<<call, completions>>

workVars == <<kind, call, stage, pending, completions, dispatching, executing, localActions,
              asyncActions>>

\* An action that only moves lanes, the cache or the destructor is good.
LEMMA IdleStep ==
  ASSUME ExecutorInv, UNCHANGED workVars,
         lane' \in [Lanes -> LaneShape], asyncLane' \in LaneShape
  PROVE  Good
BY DEF ExecutorInv, Shapes, WorkInv, Good, workVars

\* A move of one work to another stage that the listener does not hear of.
Carries(w, to) ==
  /\ stage[w] \in Carried /\ to \in Carried \cup {"lost"} /\ Moves(w, to)
  /\ to = "preparing" => kind[w] = "remote"
  /\ w \notin dispatching \cup executing
  /\ UNCHANGED <<kind, call, pending, completions>>
  /\ lane' \in [Lanes -> LaneShape] /\ asyncLane' \in LaneShape

\* Such a move is good, if the queues and the remote callbacks agree with it.
LEMMA CarryStep ==
  ASSUME ExecutorInv, NEW w \in Works, NEW to, Carries(w, to),
         localActions' \subseteq IF to = "queued" /\ kind[w] # "async"
                                   THEN localActions \cup {w} ELSE localActions \ {w},
         asyncActions' \subseteq IF to = "queued" /\ kind[w] = "async"
                                   THEN asyncActions \cup {w} ELSE asyncActions \ {w},
         dispatching' \cup executing' \subseteq
           IF to = "remote" /\ kind[w] = "remote" THEN dispatching \cup executing \cup {w}
           ELSE dispatching \cup executing
  PROVE  Good
<1> USE DEF Moves, Carried, Heard, CalledBack, Stages
<1>1. Shapes'
  BY Zenon DEF ExecutorInv, Shapes, Carries
<1>2. ASSUME NEW v \in Works PROVE WorkInv(v)'
  <2>1. CASE v = w
    BY <2>1 DEF ExecutorInv, Shapes, WorkInv, Carries
  <2>2. CASE v # w
    BY <2>2 DEF ExecutorInv, Shapes, WorkInv, Carries
  <2> QED
    BY <2>1, <2>2, Zenon
<1> QED
  BY <1>1, <1>2, Zenon DEF Good, ExecutorInv, Carries

\* The item of a work that the listener has not heard of is erased.
LEMMA EraseStep ==
  ASSUME ExecutorInv, NEW w \in Works, Erase(w), stage[w] \in Carried \ {"queued"},
         UNCHANGED <<kind, call, completions, localActions, asyncActions, lane, asyncLane>>,
         dispatching' \subseteq dispatching, executing' \subseteq executing
  PROVE  Good
<1> USE DEF Erase, Moves, Carried, Heard, CalledBack, Stages
<1>1. Shapes'
  BY Zenon DEF ExecutorInv, Shapes
<1>2. ASSUME NEW v \in Works PROVE WorkInv(v)'
  <2>1. CASE v = w
    BY <2>1 DEF ExecutorInv, Shapes, WorkInv
  <2>2. CASE v # w
    BY <2>2 DEF ExecutorInv, Shapes, WorkInv
  <2> QED
    BY <2>1, <2>2, Zenon
<1> QED
  BY <1>1, <1>2, Zenon DEF Good, ExecutorInv

\* completeAction: either it finds the item, which then has not been completed, or it
\* does nothing.
LEMMA CompleteActionStep ==
  ASSUME ExecutorInv, NEW w \in Works, CompleteAction(w),
         stage[w] \in {"loading", "preparing"} \/ w \in dispatching \cup executing,
         UNCHANGED <<kind, call, completions, localActions, asyncActions, lane, asyncLane>>,
         dispatching' \subseteq dispatching, executing' \subseteq executing
  PROVE  Good
<1> USE DEF Carried, CalledBack
<1>1. CASE w \in pending
  <2>1. stage[w] \in {"loading", "preparing", "remote"}
    BY <1>1, Zenon DEF ExecutorInv, WorkInv
  <2>2. Erase(w)
    BY <1>1, Zenon DEF CompleteAction, Erase, Moves
  <2> QED
    BY <2>1, <2>2, EraseStep, Zenon
<1>2. CASE w \notin pending
  <2>1. pending' = pending /\ stage' = stage
    BY <1>2, Zenon DEF CompleteAction
  <2> QED
    BY <2>1 DEF Good, ExecutorInv, Shapes, WorkInv
<1> QED
  BY <1>1, <1>2, Zenon

\* notify_one() leaves a state of the lanes.
LEMMA NotifyOneLaneType ==
  ASSUME lane \in [Lanes -> LaneShape], NotifyOneLane
  PROVE  lane' \in [Lanes -> LaneShape]
BY DEF NotifyOneLane, LaneShape, Idle

\* The invariant holds before anything is submitted, and the contract agrees.
LEMMA InitGood == Init => ExecutorInv /\ Contract!Init
<1> SUFFICES ASSUME Init PROVE ExecutorInv /\ Contract!Init
  BY Zenon
<1>1. Shapes
  BY Zenon DEF Init, Shapes, Stages, LaneShape, Idle
<1>2. \A w \in Works : WorkInv(w)
  BY Zenon DEF Init, WorkInv, Heard, Carried
<1>3. Contract!Init
  BY Zenon DEF Init, Contract!Init
<1> QED
  BY <1>1, <1>2, <1>3, Zenon DEF ExecutorInv

\* Submission, the cache, and the way into a queue.
LEMMA SubmitGood ==
  ASSUME ExecutorInv, NEW w \in Works, Submit(w) \/ Refuse(w) \/ SubmitStep(w)
  PROVE  Good
<1>1. CASE Submit(w)
  <2> USE <1>1 DEF Submit, Moves, queueVars, remoteVars
  <2>1. Shapes'
    BY Zenon DEF ExecutorInv, Shapes, Stages
  <2>2. ASSUME NEW v \in Works PROVE WorkInv(v)'
    BY Zenon DEF ExecutorInv, Shapes, WorkInv, Stages, Carried, Heard, CalledBack
  <2>3. Contract!Submit(w)
    BY Zenon DEF Contract!Submit
  <2> QED
    BY <2>1, <2>2, <2>3, Zenon DEF Good, ExecutorInv, Contract!Next
<1>2. CASE Refuse(w)
  <2> USE <1>2 DEF Refuse, queueVars, remoteVars
  <2>1. Shapes'
    BY Zenon DEF ExecutorInv, Shapes
  <2>2. ASSUME NEW v \in Works PROVE WorkInv(v)'
    BY Zenon DEF ExecutorInv, Shapes, WorkInv
  <2>3. Contract!Reject(w)
    BY Zenon DEF Contract!Reject
  <2> QED
    BY <2>1, <2>2, <2>3, Zenon DEF Good, ExecutorInv, Contract!Next
<1>3. CASE Return(w)
  <2> USE <1>3 DEF Return, queueVars, remoteVars
  <2>1. Shapes'
    BY Zenon DEF ExecutorInv, Shapes
  <2>2. ASSUME NEW v \in Works PROVE WorkInv(v)'
    BY Zenon DEF ExecutorInv, Shapes, WorkInv
  <2>3. Contract!Accept(w)
    BY Zenon DEF Contract!Accept
  <2> QED
    BY <2>1, <2>2, <2>3, Zenon DEF Good, ExecutorInv, Contract!Next
<1>4. CASE CacheHit(w)
  <2>1. Carries(w, "loading") /\ UNCHANGED <<localActions, asyncActions, dispatching, executing>>
    BY <1>4, Zenon DEF CacheHit, Carries, Carried, queueVars, remoteVars, ExecutorInv, Shapes,
                WorkInv, CalledBack
  <2>2. w \notin localActions \cup asyncActions
    BY <1>4, Zenon DEF CacheHit, ExecutorInv, WorkInv
  <2> QED
    BY <2>1, <2>2, CarryStep, Zenon DEF ExecutorInv, Shapes
<1>5. CASE CacheMiss(w)
  <2>1. w \notin localActions \cup asyncActions /\ w \notin dispatching \cup executing
    BY <1>5, Zenon DEF CacheMiss, ExecutorInv, WorkInv, CalledBack
  <2>2. PICK to \in {"inserted", "erased", "remote", "preparing"} :
          /\ Prepared(w, to) /\ Moves(w, to)
          /\ pending' = IF to = "erased" THEN pending \ {w} ELSE pending
          /\ dispatching' = IF to = "remote" THEN dispatching \cup {w} ELSE dispatching
          /\ executing' = IF to = "remote" THEN executing \cup {w} ELSE executing
    BY <1>5, Zenon DEF CacheMiss, Prepare
  <2>3. CASE to = "erased"
    BY <1>5, <2>2, <2>3, EraseStep, Zenon DEF CacheMiss, Erase, Carried, queueVars
  <2>4. CASE to # "erased"
    <3>1. to \in {"remote", "preparing"} => kind[w] = "remote"
      BY <2>2, Zenon DEF Prepared
    <3>2. Carries(w, to)
      BY <1>5, <2>1, <2>2, <2>4, <3>1, Zenon
      DEF CacheMiss, Carries, Carried, queueVars, ExecutorInv, Shapes
    <3> QED
      BY <1>5, <2>1, <2>2, <3>1, <3>2, CarryStep, Zenon DEF CacheMiss, queueVars, ExecutorInv, Shapes
  <2> QED
    BY <2>3, <2>4, Zenon
<1>6. CASE CacheLoaded(w)
  BY <1>6, CompleteActionStep, Zenon DEF CacheLoaded, queueVars, remoteVars
<1>7. CASE Enqueue(w)
  <2>1. lane' \in [Lanes -> LaneShape] /\ asyncLane' \in LaneShape
    BY <1>7, NotifyOneLaneType DEF Enqueue, ExecutorInv, Shapes, LaneShape, Idle
  <2>2. Carries(w, "queued") /\ UNCHANGED <<dispatching, executing>>
    BY <1>7, <2>1, Zenon DEF Enqueue, Carries, Carried, remoteVars, ExecutorInv, WorkInv, CalledBack
  <2>3. w \notin localActions \cup asyncActions
    BY <1>7, Zenon DEF Enqueue, ExecutorInv, WorkInv
  <2> QED
    BY <1>7, <2>2, <2>3, CarryStep, Zenon DEF Enqueue
<1> QED
  BY <1>1, <1>2, <1>3, <1>4, <1>5, <1>6, <1>7, Zenon DEF SubmitStep

\* The local lanes.
LEMMA LaneGood ==
  ASSUME ExecutorInv, NEW l \in Lanes, LaneStep(l)
  PROVE  Good
<1> DEFINE w == lane[l].work
<1>0. lane[l] \in LaneShape
  BY Zenon DEF ExecutorInv, Shapes
<1>1. CASE LaneWaits(l) \/ LaneExits(l)
  <2>1. lane' \in [Lanes -> LaneShape]
    BY <1>0, <1>1 DEF LaneWaits, LaneExits, ExecutorInv, Shapes, LaneShape
  <2>2. UNCHANGED <<workVars, asyncLane>>
    BY <1>1, Zenon DEF LaneWaits, LaneExits, workVars, remoteVars
  <2> QED
    BY <2>1, <2>2, IdleStep, Zenon DEF ExecutorInv, Shapes
<1>2. CASE LanePops(l)
  <2>1. PICK v \in localActions :
          /\ localActions' = localActions \ {v} /\ Moves(v, "held")
          /\ lane' = [lane EXCEPT ![l] = [at |-> "busy", work |-> v]]
          /\ UNCHANGED <<asyncActions, asyncLane, dispatching, executing, kind, call, pending,
                         completions>>
    BY <1>2, Zenon DEF LanePops, remoteVars
  <2>2. v \in Works /\ stage[v] = "queued"
    BY <2>1, Zenon DEF ExecutorInv, Shapes, WorkInv
  <2>3. lane' \in [Lanes -> LaneShape]
    BY <2>1, <2>2, Zenon DEF ExecutorInv, Shapes, LaneShape
  <2>4. Carries(v, "held")
    BY <2>1, <2>2, <2>3, Zenon DEF Carries, Carried, CalledBack, ExecutorInv, Shapes, WorkInv
  <2>5. v \notin asyncActions
    BY <2>1, <2>2, Zenon DEF ExecutorInv, WorkInv
  <2> QED
    BY <2>1, <2>2, <2>4, <2>5, CarryStep, Zenon
<1>3. CASE LaneStarts(l)
  <2>1. w \in Works /\ stage[w] = "held" /\ Moves(w, "running")
    BY <1>0, <1>3, Zenon DEF LaneStarts, LaneShape
  <2>2. Carries(w, "running") /\ w \notin localActions \cup asyncActions
    BY <1>3, <2>1, Zenon DEF LaneStarts, Carries, Carried, CalledBack, queueVars, ExecutorInv, Shapes,
                      WorkInv
  <2> QED
    BY <1>3, <2>1, <2>2, CarryStep, Zenon DEF LaneStarts, queueVars, remoteVars
<1>4. CASE LaneFinishes(l) \/ FunctionReturns(l)
  <2>1. w \in Works /\ stage[w] = "running" /\ Erase(w)
    BY <1>0, <1>4, Zenon DEF LaneFinishes, FunctionReturns, LaneShape
  <2> QED
    BY <1>4, <2>1, EraseStep, Zenon DEF LaneFinishes, FunctionReturns, Carried, queueVars, remoteVars
<1>5. CASE OutputsFail(l)
  <2> USE DEF OutputsFail, Moves, queueVars, remoteVars
  <2>1. w \in Works /\ stage[w] = "running" /\ kind[w] \in {"subprocess", "volatile"}
    BY <1>0, <1>5, Zenon DEF LaneShape
  <2>2. Shapes'
    BY <1>5, <2>1, Zenon DEF ExecutorInv, Shapes, Stages
  <2>3. ASSUME NEW v \in Works PROVE WorkInv(v)'
    BY <1>5, <2>1 DEF ExecutorInv, Shapes, WorkInv, Stages, Carried, Heard, CalledBack
  <2> QED
    BY <1>5, <2>2, <2>3, Zenon DEF Good, ExecutorInv
<1>6. ASSUME NEW to \in {"lost", "flushing"}, ProcessEnds(l, to) PROVE Good
  <2>1. w \in Works /\ stage[w] = "running" /\ Moves(w, to)
    BY <1>0, <1>6, Zenon DEF ProcessEnds, LaneShape
  <2>2. lane' \in [Lanes -> LaneShape]
    BY <1>6, Zenon DEF ProcessEnds, ExecutorInv, Shapes, LaneShape, Idle
  <2>3. Carries(w, to) /\ w \notin localActions \cup asyncActions
    BY <1>6, <2>1, <2>2, Zenon DEF ProcessEnds, Carries, Carried, CalledBack, ExecutorInv, Shapes,
                            WorkInv
  <2> QED
    BY <1>6, <2>1, <2>3, CarryStep, Zenon DEF ProcessEnds, remoteVars
<1> QED
  BY <1>1, <1>2, <1>3, <1>4, <1>5, <1>6, Zenon DEF LaneStep

\* The asynchronous lane and the callbacks of its subtasks.
LEMMA AsyncGood ==
  ASSUME ExecutorInv, AsyncStep
  PROVE  Good
<1> DEFINE w == asyncLane.work
<1>0. asyncLane \in LaneShape
  BY Zenon DEF ExecutorInv, Shapes
<1>1. CASE AsyncLaneWaits \/ AsyncLaneExits
  <2>1. asyncLane' \in LaneShape
    BY <1>0, <1>1, Zenon DEF AsyncLaneWaits, AsyncLaneExits, LaneShape
  <2>2. UNCHANGED <<workVars, lane>>
    BY <1>1, Zenon DEF AsyncLaneWaits, AsyncLaneExits, workVars, remoteVars
  <2> QED
    BY <2>1, <2>2, IdleStep, Zenon DEF ExecutorInv, Shapes
<1>2. CASE AsyncLanePops
  <2>1. PICK v \in asyncActions :
          /\ asyncActions' = asyncActions \ {v} /\ Moves(v, "held")
          /\ asyncLane' = [at |-> "busy", work |-> v]
          /\ UNCHANGED <<localActions, lane, dispatching, executing, kind, call, pending,
                         completions>>
    BY <1>2, Zenon DEF AsyncLanePops, remoteVars
  <2>2. v \in Works /\ stage[v] = "queued"
    BY <2>1, Zenon DEF ExecutorInv, Shapes, WorkInv
  <2>3. asyncLane' \in LaneShape
    BY <2>1, <2>2, Zenon DEF LaneShape
  <2>4. Carries(v, "held")
    BY <2>1, <2>2, <2>3, Zenon DEF Carries, Carried, CalledBack, ExecutorInv, Shapes, WorkInv
  <2>5. v \notin localActions
    BY <2>1, <2>2, Zenon DEF ExecutorInv, WorkInv
  <2> QED
    BY <2>1, <2>2, <2>4, <2>5, CarryStep, Zenon
<1>3. CASE AsyncLaneStarts
  <2>1. w \in Works /\ stage[w] = "held" /\ Moves(w, "running")
    BY <1>0, <1>3, Zenon DEF AsyncLaneStarts, LaneShape
  <2>2. asyncLane' \in LaneShape
    BY <1>3, Zenon DEF AsyncLaneStarts, LaneShape, Idle
  <2>3. Carries(w, "running") /\ w \notin localActions \cup asyncActions
    BY <1>3, <2>1, <2>2, Zenon DEF AsyncLaneStarts, Carries, Carried, CalledBack, ExecutorInv, Shapes,
                            WorkInv
  <2> QED
    BY <1>3, <2>1, <2>3, CarryStep, Zenon DEF AsyncLaneStarts, remoteVars
<1>4. ASSUME NEW v \in Works, AsyncFinishes(v) PROVE Good
  BY <1>4, EraseStep, Zenon DEF AsyncFinishes, Carried, queueVars, remoteVars
<1>5. ASSUME NEW v \in Works, AsyncLeaves(v) PROVE Good
  <2> USE <1>5 DEF AsyncLeaves, Moves, remoteVars
  <2>1. lane' \in [Lanes -> LaneShape]
    BY NotifyOneLaneType, Zenon DEF ExecutorInv, Shapes
  <2>2. Shapes'
    BY <2>1, Zenon DEF ExecutorInv, Shapes, Stages
  <2>3. ASSUME NEW u \in Works PROVE WorkInv(u)'
    BY Zenon DEF ExecutorInv, Shapes, WorkInv, Stages, Carried, Heard, CalledBack
  <2> QED
    BY <2>2, <2>3, Zenon DEF Good, ExecutorInv
<1> QED
  BY <1>1, <1>2, <1>3, <1>4, <1>5, Zenon DEF AsyncStep

\* Notifications, the log and the remote executor.
LEMMA CallbackGood ==
  ASSUME ExecutorInv, NEW w \in Works, CallbackStep(w)
  PROVE  Good
<1>1. CASE Notify(w)
  <2> USE <1>1 DEF Notify, Moves, remoteVars
  <2>1. lane' \in [Lanes -> LaneShape]
    BY Zenon DEF ExecutorInv, Shapes, LaneShape, Idle
  <2>2. Shapes'
    BY <2>1 DEF ExecutorInv, Shapes, Stages
  <2>3. ASSUME NEW v \in Works PROVE WorkInv(v)'
    BY DEF ExecutorInv, Shapes, WorkInv, Stages, Carried, Heard, CalledBack
  <2>4. Contract!Complete(w)
    <3>1. completions[w] = 0 /\ call[w] \in {"calling", "accepted"}
      BY Zenon DEF ExecutorInv, Shapes, WorkInv, Heard
    <3> QED
      BY <3>1 DEF Contract!Complete
  <2> QED
    BY <2>2, <2>3, <2>4, Zenon DEF Good, ExecutorInv, Contract!Next
<1>2. CASE FlushStalls(w)
  <2>1. Carries(w, "lost") /\ w \notin localActions \cup asyncActions
    BY <1>2, Zenon DEF FlushStalls, Carries, Carried, CalledBack, queueVars, ExecutorInv, Shapes,
                WorkInv
  <2> QED
    BY <1>2, <2>1, CarryStep, Zenon DEF FlushStalls, queueVars, remoteVars
<1>3. CASE RemotePrepared(w)
  <2>1. kind[w] = "remote" /\ w \notin localActions \cup asyncActions
    BY <1>3, Zenon DEF RemotePrepared, ExecutorInv, WorkInv
  <2>2. Carries(w, "remote")
    BY <1>3, Zenon DEF RemotePrepared, Carries, Carried, CalledBack, queueVars, ExecutorInv, Shapes,
                WorkInv
  <2> QED
    BY <1>3, <2>1, <2>2, CarryStep, Zenon DEF RemotePrepared, queueVars
<1>4. CASE RemoteNotPrepared(w)
  BY <1>4, CompleteActionStep, Zenon DEF RemoteNotPrepared, queueVars, remoteVars
<1>5. ASSUME NEW ok \in BOOLEAN, Flushed(w, ok) PROVE Good
  BY <1>5, EraseStep, Zenon DEF Flushed, Carried, queueVars, remoteVars
<1>6. ASSUME NEW ok \in BOOLEAN, RemoteDispatched(w, ok) PROVE Good
  <2>1. CASE ok
    BY <1>6, <2>1 DEF RemoteDispatched, queueVars, Good, ExecutorInv, Shapes, WorkInv
  <2>2. CASE ~ok
    BY <1>6, <2>2, CompleteActionStep, Zenon DEF RemoteDispatched, queueVars
  <2> QED
    BY <2>1, <2>2, Zenon
<1>7. ASSUME NEW ok \in BOOLEAN, RemoteResult(w, ok) PROVE Good
  BY <1>7, CompleteActionStep, Zenon DEF RemoteResult, queueVars
<1> QED
  BY <1>1, <1>2, <1>3, <1>4, <1>5, <1>6, <1>7, Zenon DEF CallbackStep

\* The destructor wakes lanes up and waits for them.
LEMMA DestructorGood ==
  ASSUME ExecutorInv, BeginShutdown \/ DestructorStep
  PROVE  Good
<1>1. UNCHANGED workVars
  BY Zenon DEF BeginShutdown, DestructorStep, NotifyAllLanes, LanesJoined, Destroyed, workVars,
         queueVars, remoteVars
<1>2. lane' \in [Lanes -> LaneShape] /\ asyncLane' \in LaneShape
  BY DEF BeginShutdown, DestructorStep, NotifyAllLanes, LanesJoined, Destroyed, queueVars,
         ExecutorInv, Shapes, LaneShape, Idle
<1> QED
  BY <1>1, <1>2, IdleStep, Zenon

\* Every step keeps the invariant and is one the contract allows.
LEMMA NextGood == ExecutorInv /\ [Next]_vars => Good
<1> SUFFICES ASSUME ExecutorInv, [Next]_vars PROVE Good
  BY Zenon
<1>1. ASSUME NEW w \in Works, Submit(w) \/ Refuse(w) \/ SubmitStep(w) PROVE Good
  BY <1>1, SubmitGood, Zenon
<1>2. ASSUME NEW w \in Works, CallbackStep(w) PROVE Good
  BY <1>2, CallbackGood, Zenon
<1>3. ASSUME NEW l \in Lanes, LaneStep(l) PROVE Good
  BY <1>3, LaneGood, Zenon
<1>4. ASSUME NEW k \in Kinds, CacheUpdated(k) PROVE Good
  BY <1>4, IdleStep, Zenon DEF CacheUpdated, workVars, queueVars, remoteVars, ExecutorInv, Shapes
<1>5. CASE AsyncStep
  BY <1>5, AsyncGood, Zenon
<1>6. CASE BeginShutdown \/ DestructorStep
  BY <1>6, DestructorGood, Zenon
<1>7. CASE UNCHANGED vars
  BY <1>7, IdleStep, Zenon DEF vars, workVars, queueVars, remoteVars, ExecutorInv, Shapes
<1> QED
  BY <1>1, <1>2, <1>3, <1>4, <1>5, <1>6, <1>7, Zenon DEF Next, Progress

\* The invariant is inductive.
LEMMA SpecInv == Spec => []ExecutorInv
<1>1. Init => ExecutorInv
  BY InitGood, Zenon
<1>2. ExecutorInv /\ [Next]_vars => ExecutorInv'
  BY NextGood, Zenon DEF Good
<1> QED
  BY <1>1, <1>2, PTL DEF Spec

\* The executor implements the contract engines rely on: submit() answers, and the
\* listener hears at most once of work that was not refused, and of no other.
THEOREM ExecutorKeepsContract == Spec => KeepsContract
<1>1. Init => Contract!Init
  BY InitGood, Zenon
<1>2. ExecutorInv /\ [Next]_vars => [Contract!Next]_<<call, completions>>
  BY NextGood, Zenon DEF Good
<1> QED
  BY <1>1, <1>2, SpecInv, PTL DEF Spec, KeepsContract, Contract!Spec

\* The assertions that an item is still in the table hold, whichever thread or
\* callback carries the work on.
THEOREM PendingItemsAreFound == Spec => []PendingIsFound
<1>1. ExecutorInv => PendingIsFound
  BY Zenon DEF ExecutorInv, WorkInv, PendingIsFound, Carried
<1> QED
  BY <1>1, SpecInv, PTL

\* An item stays in the table after its completion only if it belongs to a process
\* whose outputs could not be collected.
THEOREM OnlyProcessesLeak == Spec => []NothingElseLeaks
<1>1. ExecutorInv => NothingElseLeaks
  BY Zenon DEF ExecutorInv, WorkInv, NothingElseLeaks
<1> QED
  BY <1>1, SpecInv, PTL

-----------------------------------------------------------------------------
(***************************************************************************)
(* The destructor                                                          *)
(***************************************************************************)
Busy(w) == [at |-> "busy", work |-> w]

\* Where a subtask is, until the listener has heard of it: submit() has still to queue
\* it, or it is in its queue, or a lane is busy with it.
SubtaskInv(w) ==
  kind[w] \in Subtasks =>
    /\ stage[w] \in {"new", "inserted", "queued", "held", "running", "erased", "finishing",
                     "done"}
    /\ stage[w] = "inserted" => call[w] = "calling"
    /\ kind[w] = "subtask" =>
         /\ stage[w] # "finishing"
         /\ stage[w] = "queued" => w \in localActions
         /\ stage[w] \in {"held", "running", "erased"} => \E l \in Lanes : lane[l] = Busy(w)
    /\ kind[w] = "async" =>
         /\ stage[w] = "queued" => w \in asyncActions
         /\ stage[w] = "held" => asyncLane = Busy(w)

\* A lane exits only after the flag is set, when no subtask can come any more, and its
\* queue holds none; the destructor waits for the lanes.
ShutdownInv ==
  /\ shouldShutdown => \A w \in Works : call[w] # "calling"
  /\ \A l \in Lanes : lane[l].at # "busy" => lane[l].work = NoWork
  /\ \A l \in Lanes : lane[l].at = "exited" =>
       shouldShutdown /\ \A w \in localActions : kind[w] # "subtask"
  /\ asyncLane.at = "exited" => shouldShutdown /\ asyncActions = {}
  /\ destructor \in {"joinAsync", "destroyed"} => \A l \in Lanes : lane[l].at = "exited"
  /\ destructor = "destroyed" => asyncLane.at = "exited"

DrainInv == ShutdownInv /\ \A w \in Works : SubtaskInv(w)

\* A busy lane is neither idle nor asleep.
LEMMA BusyAt ==
  ASSUME NEW w
  PROVE  Busy(w).at = "busy" /\ Busy(w).work = w /\ Idle.at = "top" /\ Idle.work = NoWork
BY Zenon DEF Busy, Idle

\* What the lanes may do: exit when their queue is empty and the flag is set, which is
\* when no subtask comes to a queue.
LEMMA LanesGoOn ==
  ASSUME ShutdownInv, UNCHANGED <<kind, call, destructor>>,
         \A l \in Lanes :
           /\ lane'[l].at # "busy" => lane'[l].work = NoWork
           /\ lane'[l].at = "exited" => lane[l].at = "exited" \/ (shouldShutdown /\ localActions' = {})
           /\ lane[l].at = "exited" => lane'[l].at = "exited",
         \A w \in localActions' : w \in localActions \/ kind[w] # "subtask" \/ ~shouldShutdown,
         asyncLane'.at = "exited" => asyncLane.at = "exited" \/ (shouldShutdown /\ asyncActions' = {}),
         asyncLane.at = "exited" => asyncLane'.at = "exited",
         asyncActions' \subseteq asyncActions \/ ~shouldShutdown
  PROVE  ShutdownInv'
<1>1. shouldShutdown' <=> shouldShutdown
  BY Zenon DEF shouldShutdown
<1>2. shouldShutdown' => \A w \in Works : call'[w] # "calling"
  BY <1>1, Zenon DEF ShutdownInv
<1>3. ASSUME NEW l \in Lanes, lane'[l].at = "exited"
      PROVE  shouldShutdown /\ \A w \in localActions' : kind[w] # "subtask"
  <2>1. CASE lane[l].at = "exited"
    <3>1. shouldShutdown /\ \A w \in localActions : kind[w] # "subtask"
      BY <2>1, Zenon DEF ShutdownInv
    <3> QED
      BY <3>1, Zenon
  <2>2. CASE shouldShutdown /\ localActions' = {}
    BY <2>2, Zenon
  <2> QED
    BY <1>3, <2>1, <2>2, Zenon
<1>4. asyncLane'.at = "exited" => shouldShutdown /\ asyncActions' = {}
  <2>1. asyncLane.at = "exited" => shouldShutdown /\ asyncActions = {}
    BY Zenon DEF ShutdownInv
  <2> QED
    BY <2>1, Zenon
<1>5. /\ destructor' \in {"joinAsync", "destroyed"} => \A l \in Lanes : lane'[l].at = "exited"
      /\ destructor' = "destroyed" => asyncLane'.at = "exited"
  BY Zenon DEF ShutdownInv
<1> QED
  BY <1>1, <1>2, <1>3, <1>4, <1>5, Zenon DEF ShutdownInv, shouldShutdown

\* A subtask that a step does not touch stays where it is.
LEMMA SubtaskKept ==
  ASSUME NEW v \in Works, SubtaskInv(v), kind' = kind, stage'[v] = stage[v],
         stage[v] = "inserted" => call'[v] = call[v],
         v \in localActions => v \in localActions', v \in asyncActions => v \in asyncActions',
         \A l \in Lanes : lane[l] = Busy(v) => lane'[l] = Busy(v),
         asyncLane = Busy(v) => asyncLane' = Busy(v)
  PROVE  SubtaskInv(v)'
BY Zenon DEF SubtaskInv, Busy, Subtasks

\* A step that moves one work and no lane.
LEMMA WorkMoves ==
  ASSUME DrainInv, NEW w \in Works,
         UNCHANGED <<kind, destructor, localActions, asyncActions, lane, asyncLane>>,
         \A v \in Works \ {w} : stage'[v] = stage[v] /\ call'[v] = call[v],
         shouldShutdown => call'[w] # "calling", SubtaskInv(w)'
  PROVE  DrainInv'
<1>1. ShutdownInv'
  BY Zenon DEF DrainInv, ShutdownInv, shouldShutdown
<1>2. ASSUME NEW v \in Works, v # w PROVE SubtaskInv(v)'
  BY <1>2, SubtaskKept, Zenon DEF DrainInv
<1> QED
  BY <1>1, <1>2, Zenon DEF DrainInv

\* An action is no subtask, and its stages do not matter.
LEMMA ActionMoves ==
  ASSUME DrainInv, ExecutorInv, NEW w \in Works, kind[w] \notin Subtasks,
         UNCHANGED <<kind, call, destructor, localActions, asyncActions, lane, asyncLane>>,
         \A v \in Works \ {w} : stage'[v] = stage[v]
  PROVE  DrainInv'
<1>1. SubtaskInv(w)'
  BY Zenon DEF SubtaskInv
<1>2. shouldShutdown => call'[w] # "calling"
  BY Zenon DEF DrainInv, ShutdownInv
<1> QED
  BY <1>1, <1>2, WorkMoves, Zenon

\* A new executor.
LEMMA InitDrains == Init => DrainInv
<1> SUFFICES ASSUME Init PROVE DrainInv
  BY Zenon
<1>1. ShutdownInv
  BY Zenon DEF Init, ShutdownInv, shouldShutdown, Idle
<1>2. \A w \in Works : SubtaskInv(w)
  BY Zenon DEF Init, SubtaskInv
<1> QED
  BY <1>1, <1>2, Zenon DEF DrainInv

\* Submission, the cache, and the way into a queue: no subtask comes once the flag is
\* set, since the client that destroys the executor is in no submit() then.
LEMMA SubmitDrains ==
  ASSUME DrainInv, ExecutorInv, NEW w \in Works, Submit(w) \/ Refuse(w) \/ SubmitStep(w)
  PROVE  DrainInv'
<1> USE DEF queueVars, Moves
<1>0. /\ stage \in [Works -> Stages]
      /\ call \in [Works -> {"idle", "calling", "accepted", "rejected"}]
      /\ lane \in [Lanes -> LaneShape]
  BY Zenon DEF ExecutorInv, Shapes
<1>1. CASE Submit(w)
  <2>1. /\ UNCHANGED <<kind, destructor, localActions, asyncActions, lane, asyncLane>>
        /\ \A v \in Works \ {w} : stage'[v] = stage[v] /\ call'[v] = call[v]
        /\ ~shouldShutdown /\ call'[w] = "calling"
        /\ kind[w] \notin Cacheable => stage'[w] = "inserted"
    BY <1>0, <1>1, Zenon DEF Submit
  <2>2. kind[w] \in Subtasks => stage'[w] = "inserted"
    BY <2>1, Zenon DEF Subtasks, Cacheable
  <2>3. SubtaskInv(w)'
    BY <2>1, <2>2, Zenon DEF SubtaskInv
  <2> QED
    BY <2>1, <2>3, WorkMoves, Zenon
<1>2. CASE Refuse(w)
  <2>1. /\ UNCHANGED <<kind, stage, destructor, localActions, asyncActions, lane, asyncLane>>
        /\ \A v \in Works \ {w} : call'[v] = call[v]
        /\ call[w] = "idle" /\ call'[w] = "rejected"
    BY <1>0, <1>2, Zenon DEF Refuse
  <2>2. SubtaskInv(w) /\ stage[w] # "inserted"
    BY <2>1, Zenon DEF DrainInv, ExecutorInv, WorkInv
  <2>3. SubtaskInv(w)'
    BY <2>1, <2>2, SubtaskKept, Zenon
  <2> QED
    BY <2>1, <2>3, WorkMoves, Zenon
<1>3. CASE Return(w)
  <2>1. /\ UNCHANGED <<kind, stage, destructor, localActions, asyncActions, lane, asyncLane>>
        /\ \A v \in Works \ {w} : call'[v] = call[v]
        /\ call'[w] = "accepted" /\ (stage[w] = "inserted" => kind[w] \in Cacheable)
    BY <1>0, <1>3, Zenon DEF Return
  <2>2. SubtaskInv(w)'
    <3>1. CASE kind[w] \in Subtasks
      <4>1. stage[w] # "inserted" /\ SubtaskInv(w)
        BY <2>1, <3>1, Zenon DEF Subtasks, Cacheable, DrainInv
      <4> QED
        BY <2>1, <4>1, SubtaskKept, Zenon
    <3>2. CASE kind[w] \notin Subtasks
      BY <2>1, <3>2, Zenon DEF SubtaskInv
    <3> QED
      BY <3>1, <3>2, Zenon
  <2> QED
    BY <2>1, <2>2, WorkMoves, Zenon
<1>4. CASE CacheHit(w) \/ CacheMiss(w) \/ CacheLoaded(w)
  <2>1. stage[w] \in {"checking", "loading"}
    BY <1>4, Zenon DEF CacheHit, CacheMiss, CacheLoaded
  <2>2. kind[w] \notin Subtasks
    BY <2>1, Zenon DEF DrainInv, SubtaskInv
  <2>3. UNCHANGED <<kind, call, destructor, localActions, asyncActions, lane, asyncLane>>
    BY <1>4, Zenon DEF CacheHit, CacheMiss, CacheLoaded
  <2>4. \A v \in Works \ {w} : stage'[v] = stage[v]
    BY <1>0, <1>4, Zenon DEF CacheHit, CacheMiss, CacheLoaded, Prepare, CompleteAction
  <2> QED
    BY <2>2, <2>3, <2>4, ActionMoves, Zenon
<1>5. CASE Enqueue(w)
  <2>1. /\ UNCHANGED <<kind, call, destructor>> /\ stage[w] = "inserted" /\ stage'[w] = "queued"
        /\ \A v \in Works \ {w} : stage'[v] = stage[v]
    BY <1>0, <1>5, Zenon DEF Enqueue
  <2>2. CASE kind[w] = "async"
    <3>1. /\ asyncActions' = asyncActions \cup {w} /\ UNCHANGED <<localActions, lane>>
          /\ asyncLane' = IF asyncLane.at = "asleep" THEN Idle ELSE asyncLane
      BY <1>5, <2>2, Zenon DEF Enqueue
    <3>2. ~shouldShutdown
      <4>1. call[w] = "calling"
        BY <2>1, <2>2, Zenon DEF DrainInv, SubtaskInv, Subtasks
      <4> QED
        BY <4>1, Zenon DEF DrainInv, ShutdownInv
    <3>3. asyncLane'.at = "exited" => asyncLane.at = "exited"
      BY <3>1, Zenon DEF Idle
    <3>4. ShutdownInv'
      BY <2>1, <3>1, <3>2, <3>3, Zenon DEF DrainInv, ShutdownInv, shouldShutdown
    <3>5. SubtaskInv(w)'
      BY <2>1, <2>2, <3>1, Zenon DEF SubtaskInv
    <3>6. ASSUME NEW v \in Works, v # w PROVE SubtaskInv(v)'
      <4>1. asyncLane = Busy(v) => asyncLane' = Busy(v)
        BY <3>1, BusyAt, Zenon
      <4> QED
        BY <2>1, <3>1, <3>6, <4>1, SubtaskKept, Zenon DEF DrainInv
    <3> QED
      BY <3>4, <3>5, <3>6, Zenon DEF DrainInv
  <2>3. CASE kind[w] # "async"
    <3>1. /\ localActions' = localActions \cup {w} /\ NotifyOneLane
          /\ UNCHANGED <<asyncActions, asyncLane>>
      BY <1>5, <2>3, Zenon DEF Enqueue
    <3>2. kind[w] = "subtask" => ~shouldShutdown
      <4>1. kind[w] = "subtask" => call[w] = "calling"
        BY <2>1, Zenon DEF DrainInv, SubtaskInv, Subtasks
      <4> QED
        BY <4>1, Zenon DEF DrainInv, ShutdownInv
    <3>3. \A l \in Lanes : lane'[l] = lane[l] \/ (lane[l].at = "asleep" /\ lane'[l] = Idle)
      BY <1>0, <3>1, Zenon DEF NotifyOneLane
    <3>4. ShutdownInv'
      <4>1. \A l \in Lanes :
              /\ lane'[l].at # "busy" => lane'[l].work = NoWork
              /\ lane'[l].at = "exited" <=> lane[l].at = "exited"
        BY <3>3, BusyAt, Zenon DEF DrainInv, ShutdownInv
      <4>2. \A v \in localActions' : v \in localActions \/ kind[v] # "subtask" \/ ~shouldShutdown
        BY <3>1, <3>2, Zenon
      <4> QED
        BY <2>1, <3>1, <4>1, <4>2, LanesGoOn, Zenon DEF DrainInv
    <3>5. SubtaskInv(w)'
      BY <2>1, <2>3, <3>1, Zenon DEF SubtaskInv
    <3>6. ASSUME NEW v \in Works, v # w PROVE SubtaskInv(v)'
      <4>1. \A l \in Lanes : lane[l] = Busy(v) => lane'[l] = Busy(v)
        BY <3>3, BusyAt, Zenon
      <4> QED
        BY <2>1, <3>1, <3>6, <4>1, SubtaskKept, Zenon DEF DrainInv
    <3> QED
      BY <3>4, <3>5, <3>6, Zenon DEF DrainInv
  <2> QED
    BY <2>2, <2>3, Zenon
<1> QED
  BY <1>1, <1>2, <1>3, <1>4, <1>5, Zenon DEF SubmitStep

\* One lane turns to a work, or becomes idle.
LEMMA OneLane ==
  ASSUME ShutdownInv, NEW l \in Lanes, lane[l].at # "exited", NEW v,
         lane'[l] = Idle \/ lane'[l] = Busy(v),
         \A m \in Lanes \ {l} : lane'[m] = lane[m]
  PROVE  \A m \in Lanes :
           /\ lane'[m].at # "busy" => lane'[m].work = NoWork
           /\ lane'[m].at = "exited" <=> lane[m].at = "exited"
<1> SUFFICES ASSUME NEW m \in Lanes
             PROVE  /\ lane'[m].at # "busy" => lane'[m].work = NoWork
                    /\ lane'[m].at = "exited" <=> lane[m].at = "exited"
  BY Zenon
<1>1. CASE m = l
  <2>1. CASE lane'[l] = Idle
    BY ONLY <1>1, <2>1, BusyAt, lane[l].at # "exited", Zenon
  <2>2. CASE lane'[l] = Busy(v)
    BY ONLY <1>1, <2>2, BusyAt, lane[l].at # "exited", Zenon
  <2> QED
    BY <2>1, <2>2, Zenon
<1>2. CASE m # l
  BY <1>2, Zenon DEF ShutdownInv
<1> QED
  BY <1>1, <1>2, Zenon

\* The other lanes keep their works.
LEMMA OthersBusy ==
  ASSUME NEW l \in Lanes, NEW u, lane[l].at # "busy" \/ lane[l].work # u,
         \A m \in Lanes \ {l} : lane'[m] = lane[m]
  PROVE  \A m \in Lanes : lane[m] = Busy(u) => lane'[m] = Busy(u)
<1> SUFFICES ASSUME NEW m \in Lanes, lane[m] = Busy(u) PROVE lane'[m] = Busy(u)
  BY Zenon
<1>1. Busy(u).at = "busy" /\ Busy(u).work = u
  BY BusyAt, Zenon
<1>2. m # l
  BY <1>1, Zenon
<1> QED
  BY <1>2, Zenon

\* Lanes that sleep are woken.
LEMMA Woken ==
  ASSUME ShutdownInv,
         \A l \in Lanes : lane'[l] = lane[l] \/ (lane[l].at = "asleep" /\ lane'[l] = Idle)
  PROVE  /\ \A m \in Lanes :
              /\ lane'[m].at # "busy" => lane'[m].work = NoWork
              /\ lane'[m].at = "exited" <=> lane[m].at = "exited"
         /\ \A v \in Works : \A m \in Lanes : lane[m] = Busy(v) => lane'[m] = Busy(v)
<1>1. \A m \in Lanes :
        /\ lane'[m].at # "busy" => lane'[m].work = NoWork
        /\ lane'[m].at = "exited" <=> lane[m].at = "exited"
  BY BusyAt, Zenon DEF ShutdownInv
<1>2. ASSUME NEW v \in Works PROVE \A m \in Lanes : lane[m] = Busy(v) => lane'[m] = Busy(v)
  BY BusyAt, Zenon
<1> QED
  BY <1>1, <1>2, Zenon

\* The local lanes.
LEMMA LaneDrains ==
  ASSUME DrainInv, ExecutorInv, NEW l \in Lanes, LaneStep(l)
  PROVE  DrainInv'
<1> USE DEF queueVars, Moves
<1>0. /\ stage \in [Works -> Stages] /\ lane \in [Lanes -> LaneShape]
      /\ lane[l].at = "busy" => lane[l].work \in Works
  BY Zenon DEF ExecutorInv, Shapes, LaneShape
<1>1. CASE LaneWaits(l) \/ LaneExits(l)
  <2>1. /\ UNCHANGED <<kind, call, stage, destructor, localActions, asyncActions, asyncLane>>
        /\ lane[l].at = "top" /\ localActions = {}
    BY <1>1, Zenon DEF LaneWaits, LaneExits
  <2>2. /\ lane'[l].at = "asleep" \/ (lane'[l].at = "exited" /\ shouldShutdown)
        /\ lane'[l].work = lane[l].work
        /\ \A m \in Lanes \ {l} : lane'[m] = lane[m]
    BY <1>0, <1>1, Zenon DEF LaneWaits, LaneExits, LaneShape
  <2>3. \A m \in Lanes :
          /\ lane'[m].at # "busy" => lane'[m].work = NoWork
          /\ lane'[m].at = "exited" =>
               lane[m].at = "exited" \/ (shouldShutdown /\ localActions' = {})
          /\ lane[m].at = "exited" => lane'[m].at = "exited"
    <3> SUFFICES ASSUME NEW m \in Lanes
                 PROVE  /\ lane'[m].at # "busy" => lane'[m].work = NoWork
                        /\ lane'[m].at = "exited" =>
                             lane[m].at = "exited" \/ (shouldShutdown /\ localActions' = {})
                        /\ lane[m].at = "exited" => lane'[m].at = "exited"
      BY Zenon
    <3>1. lane[m].at # "busy" => lane[m].work = NoWork
      BY Zenon DEF DrainInv, ShutdownInv
    <3> QED
      BY <2>1, <2>2, <3>1, Zenon
  <2>4. ShutdownInv'
    BY <2>1, <2>3, LanesGoOn, Zenon DEF DrainInv
  <2>5. ASSUME NEW v \in Works PROVE SubtaskInv(v)'
    <3>1. \A m \in Lanes : lane[m] = Busy(v) => lane'[m] = Busy(v)
      BY <2>1, <2>2, BusyAt, Zenon
    <3> QED
      BY <2>1, <3>1, SubtaskKept, Zenon DEF DrainInv
  <2> QED
    BY <2>4, <2>5, Zenon DEF DrainInv
<1>2. CASE LanePops(l)
  <2>1. PICK v \in localActions :
          /\ lane[l].at = "top" /\ localActions' = localActions \ {v}
          /\ lane' = [lane EXCEPT ![l] = Busy(v)] /\ stage' = [stage EXCEPT ![v] = "held"]
          /\ UNCHANGED <<asyncActions, asyncLane, kind, call, destructor>>
    BY <1>2, Zenon DEF LanePops, Busy
  <2>2. v \in Works /\ kind[v] # "async"
    BY <2>1, Zenon DEF ExecutorInv, Shapes, WorkInv
  <2>3. /\ lane'[l] = Busy(v) /\ \A m \in Lanes \ {l} : lane'[m] = lane[m]
        /\ stage'[v] = "held" /\ \A u \in Works \ {v} : stage'[u] = stage[u]
    BY <1>0, <2>1, <2>2, Zenon
  <2>4. \A m \in Lanes :
          /\ lane'[m].at # "busy" => lane'[m].work = NoWork
          /\ lane'[m].at = "exited" <=> lane[m].at = "exited"
    <3>1. lane[l].at # "exited" /\ ShutdownInv
      BY <2>1, Zenon DEF DrainInv
    <3> QED
      BY ONLY <2>3, <3>1, OneLane, l \in Lanes, Zenon
  <2>5. ShutdownInv'
    BY <2>1, <2>4, LanesGoOn, Zenon DEF DrainInv
  <2>6. SubtaskInv(v)'
    BY <2>1, <2>2, <2>3, Zenon DEF SubtaskInv, Busy
  <2>7. ASSUME NEW u \in Works, u # v PROVE SubtaskInv(u)'
    <3>1. \A m \in Lanes : lane[m] = Busy(u) => lane'[m] = Busy(u)
      <4>1. lane[l].at # "busy"
        BY <2>1, Zenon
      <4> QED
        BY ONLY <2>3, <4>1, OthersBusy, l \in Lanes, Zenon
    <3> QED
      BY <2>1, <2>3, <2>7, <3>1, SubtaskKept, Zenon DEF DrainInv
  <2> QED
    BY <2>5, <2>6, <2>7, Zenon DEF DrainInv
<1>3. CASE LaneStarts(l) \/ LaneFinishes(l) \/ FunctionReturns(l)
  <2>0. lane[l].at = "busy"
    BY <1>3, Zenon DEF LaneStarts, LaneFinishes, FunctionReturns
  <2>. PICK w \in Works : w = lane[l].work
    BY <1>0, <2>0, Zenon
  <2>1. /\ UNCHANGED <<kind, call, destructor, localActions, asyncActions, lane, asyncLane>>
        /\ stage[w] \in {"held", "running"} /\ stage'[w] \in {"running", "erased"}
        /\ \A v \in Works \ {w} : stage'[v] = stage[v]
    BY <1>0, <1>3, Zenon DEF LaneStarts, LaneFinishes, FunctionReturns, Erase
  <2>2. SubtaskInv(w)'
    <3>1. SubtaskInv(w)
      BY <2>1, Zenon DEF DrainInv
    <3> QED
      BY ONLY <2>1, <3>1, w \in Works, Zenon DEF SubtaskInv, Busy
  <2>3. shouldShutdown => call'[w] # "calling"
    BY <2>1, Zenon DEF DrainInv, ShutdownInv
  <2> QED
    BY <2>1, <2>2, <2>3, WorkMoves, Zenon
<1>4. CASE OutputsFail(l)
  <2>0. lane[l].at = "busy"
    BY <1>4, Zenon DEF OutputsFail
  <2>. PICK w \in Works : w = lane[l].work
    BY <1>0, <2>0, Zenon
  <2>1. /\ kind[w] \in {"subprocess", "volatile"}
        /\ UNCHANGED <<kind, call, destructor, localActions, asyncActions, lane, asyncLane>>
        /\ \A v \in Works \ {w} : stage'[v] = stage[v]
    BY <1>0, <1>4, Zenon DEF OutputsFail
  <2> QED
    BY <2>1, ActionMoves, Zenon DEF Subtasks
<1>5. ASSUME NEW to \in {"lost", "flushing"}, ProcessEnds(l, to) PROVE DrainInv'
  <2>0. lane[l].at = "busy"
    BY <1>5, Zenon DEF ProcessEnds
  <2>. PICK w \in Works : w = lane[l].work
    BY <1>0, <2>0, Zenon
  <2>1. /\ kind[w] \notin Subtasks /\ lane[l].at = "busy" /\ lane[l].work = w
        /\ UNCHANGED <<kind, call, destructor, localActions, asyncActions, asyncLane>>
        /\ \A v \in Works \ {w} : stage'[v] = stage[v]
        /\ lane'[l] = Idle /\ \A m \in Lanes \ {l} : lane'[m] = lane[m]
    BY <1>0, <1>5, Zenon DEF ProcessEnds, Processes, Subtasks
  <2>2. \A m \in Lanes :
          /\ lane'[m].at # "busy" => lane'[m].work = NoWork
          /\ lane'[m].at = "exited" <=> lane[m].at = "exited"
    <3>1. lane[l].at # "exited" /\ ShutdownInv
      BY <2>1, Zenon DEF DrainInv
    <3> QED
      BY ONLY <2>1, <3>1, OneLane, l \in Lanes, Zenon
  <2>3. ShutdownInv'
    BY <2>1, <2>2, LanesGoOn, Zenon DEF DrainInv
  <2>4. SubtaskInv(w)'
    BY ONLY <2>1, Zenon DEF SubtaskInv
  <2>5. ASSUME NEW v \in Works, v # w PROVE SubtaskInv(v)'
    <3>1. \A m \in Lanes : lane[m] = Busy(v) => lane'[m] = Busy(v)
      BY ONLY <2>1, <2>5, OthersBusy, l \in Lanes, Zenon
    <3> QED
      BY <2>1, <2>5, <3>1, SubtaskKept, Zenon DEF DrainInv
  <2> QED
    BY <2>3, <2>4, <2>5, Zenon DEF DrainInv
<1> QED
  BY <1>1, <1>2, <1>3, <1>4, <1>5, Zenon DEF LaneStep

\* Asynchronous subtasks.
LEMMA AsyncDrains ==
  ASSUME DrainInv, ExecutorInv, AsyncStep
  PROVE  DrainInv'
<1> USE DEF queueVars, Moves
<1>0. /\ stage \in [Works -> Stages] /\ lane \in [Lanes -> LaneShape] /\ asyncLane \in LaneShape
      /\ asyncActions \subseteq Works
  BY Zenon DEF ExecutorInv, Shapes
<1>a. asyncLane.at = "busy" => asyncLane.work \in Works
  BY <1>0, Zenon DEF LaneShape
<1>1. CASE AsyncLaneWaits \/ AsyncLaneExits
  <2>1. /\ UNCHANGED <<kind, call, stage, destructor, localActions, asyncActions, lane>>
        /\ asyncLane.at = "top"
    BY <1>1, Zenon DEF AsyncLaneWaits, AsyncLaneExits
  <2>2. asyncLane'.at = "asleep" \/ (asyncLane'.at = "exited" /\ shouldShutdown /\ asyncActions = {})
    BY <1>0, <1>1, Zenon DEF AsyncLaneWaits, AsyncLaneExits, LaneShape
  <2>3. ShutdownInv'
    BY ONLY <2>1, <2>2, DrainInv, LanesGoOn, Zenon DEF DrainInv, ShutdownInv
  <2>4. ASSUME NEW v \in Works PROVE SubtaskInv(v)'
    <3>1. asyncLane # Busy(v)
      BY ONLY <2>1, BusyAt, Zenon
    <3> QED
      BY <2>1, <3>1, SubtaskKept, Zenon DEF DrainInv
  <2> QED
    BY <2>3, <2>4, Zenon DEF DrainInv
<1>2. CASE AsyncLanePops
  <2>1. PICK v \in asyncActions :
          /\ asyncLane.at = "top" /\ asyncActions' = asyncActions \ {v} /\ asyncLane' = Busy(v)
          /\ stage' = [stage EXCEPT ![v] = "held"]
          /\ UNCHANGED <<localActions, lane, kind, call, destructor>>
    BY <1>2, Zenon DEF AsyncLanePops, Busy
  <2>2. v \in Works /\ kind[v] = "async"
    BY <2>1, <1>0, Zenon DEF ExecutorInv, WorkInv
  <2>3. stage'[v] = "held" /\ \A u \in Works \ {v} : stage'[u] = stage[u]
    BY <1>0, <2>1, <2>2, Zenon
  <2>4. asyncLane'.at = "busy"
    BY <2>1, BusyAt, Zenon
  <2>5. ShutdownInv'
    BY ONLY <2>1, <2>4, DrainInv, LanesGoOn, Zenon DEF DrainInv, ShutdownInv
  <2>6. SubtaskInv(v)'
    BY <2>1, <2>2, <2>3, Zenon DEF SubtaskInv, Busy
  <2>7. ASSUME NEW u \in Works, u # v PROVE SubtaskInv(u)'
    <3>1. asyncLane # Busy(u)
      BY ONLY <2>1, BusyAt, Zenon
    <3> QED
      BY <2>1, <2>3, <2>7, <3>1, SubtaskKept, Zenon DEF DrainInv
  <2> QED
    BY <2>5, <2>6, <2>7, Zenon DEF DrainInv
<1>3. CASE AsyncLaneStarts
  <2>0. asyncLane.at = "busy"
    BY <1>3, Zenon DEF AsyncLaneStarts
  <2>. PICK w \in Works : w = asyncLane.work
    BY <1>a, <2>0, Zenon
  <2>1. /\ asyncLane' = Idle /\ stage[w] = "held"
        /\ UNCHANGED <<localActions, asyncActions, lane, kind, call, destructor>>
        /\ stage'[w] = "running" /\ \A u \in Works \ {w} : stage'[u] = stage[u]
    BY <1>0, <1>3, Zenon DEF AsyncLaneStarts
  <2>2. asyncLane'.at = "top"
    BY <2>1, BusyAt, Zenon
  <2>3. ShutdownInv'
    BY ONLY <2>0, <2>1, <2>2, DrainInv, LanesGoOn, Zenon DEF DrainInv, ShutdownInv
  <2>4. SubtaskInv(w)'
    <3>1. SubtaskInv(w)
      BY Zenon DEF DrainInv
    <3> QED
      BY ONLY <2>1, <3>1, Zenon DEF SubtaskInv, Busy
  <2>5. ASSUME NEW v \in Works, v # w PROVE SubtaskInv(v)'
    <3>1. asyncLane # Busy(v)
      BY <2>5, BusyAt, Zenon
    <3> QED
      BY <2>1, <2>5, <3>1, SubtaskKept, Zenon DEF DrainInv
  <2> QED
    BY <2>3, <2>4, <2>5, Zenon DEF DrainInv
<1>4. ASSUME NEW w \in Works, AsyncFinishes(w) PROVE DrainInv'
  <2>1. /\ UNCHANGED <<localActions, asyncActions, lane, asyncLane, kind, call, destructor>>
        /\ kind[w] = "async"
        /\ stage'[w] = "erased" /\ \A u \in Works \ {w} : stage'[u] = stage[u]
    BY <1>0, <1>4, Zenon DEF AsyncFinishes, Erase
  <2>2. SubtaskInv(w)'
    BY ONLY <2>1, Zenon DEF SubtaskInv, Busy
  <2>3. shouldShutdown => call'[w] # "calling"
    BY <2>1, Zenon DEF DrainInv, ShutdownInv
  <2> QED
    BY <2>1, <2>2, <2>3, WorkMoves, Zenon
<1>5. ASSUME NEW w \in Works, AsyncLeaves(w) PROVE DrainInv'
  <2>1. /\ UNCHANGED <<localActions, asyncActions, asyncLane, kind, call, destructor>>
        /\ stage[w] = "finishing" /\ NotifyOneLane
        /\ stage'[w] = "done" /\ \A u \in Works \ {w} : stage'[u] = stage[u]
    BY <1>0, <1>5, Zenon DEF AsyncLeaves
  <2>2. /\ \A m \in Lanes :
             /\ lane'[m].at # "busy" => lane'[m].work = NoWork
             /\ lane'[m].at = "exited" <=> lane[m].at = "exited"
        /\ \A v \in Works : \A m \in Lanes : lane[m] = Busy(v) => lane'[m] = Busy(v)
    <3>1. \A m \in Lanes : lane'[m] = lane[m] \/ (lane[m].at = "asleep" /\ lane'[m] = Idle)
      BY <1>0, <2>1, Zenon DEF NotifyOneLane
    <3> QED
      BY ONLY <3>1, DrainInv, Woken, Zenon DEF DrainInv
  <2>3. ShutdownInv'
    BY ONLY <2>1, <2>2, DrainInv, LanesGoOn, Zenon DEF DrainInv
  <2>4. SubtaskInv(w)'
    <3>1. SubtaskInv(w)
      BY Zenon DEF DrainInv
    <3> QED
      BY ONLY <2>1, <3>1, Zenon DEF SubtaskInv, Busy
  <2>5. ASSUME NEW v \in Works, v # w PROVE SubtaskInv(v)'
    BY <2>1, <2>2, <2>5, SubtaskKept, Zenon DEF DrainInv
  <2> QED
    BY <2>3, <2>4, <2>5, Zenon DEF DrainInv
<1> QED
  BY <1>1, <1>2, <1>3, <1>4, <1>5, Zenon DEF AsyncStep

\* The callbacks: only the listener's concerns a subtask or a lane.
LEMMA CallbackDrains ==
  ASSUME DrainInv, ExecutorInv, NEW w \in Works, CallbackStep(w)
  PROVE  DrainInv'
<1> USE DEF queueVars, Moves
<1>0. stage \in [Works -> Stages] /\ lane \in [Lanes -> LaneShape]
  BY Zenon DEF ExecutorInv, Shapes
<1>1. CASE Notify(w)
  <2>1. /\ UNCHANGED <<localActions, asyncActions, asyncLane, kind, call, destructor>>
        /\ kind[w] # "async" => stage'[w] = "done"
        /\ stage'[w] \in {"finishing", "done"}
        /\ \A u \in Works \ {w} : stage'[u] = stage[u]
    BY <1>0, <1>1, Zenon DEF Notify
  <2>2. \A m \in Lanes : lane'[m] = lane[m] \/ (lane[m].work = w /\ lane'[m] = Idle)
    BY <1>1, Zenon DEF Notify
  <2>3. ASSUME NEW m \in Lanes
        PROVE  /\ lane'[m].at # "busy" => lane'[m].work = NoWork
               /\ lane'[m].at = "exited" <=> lane[m].at = "exited"
    <3>1. lane[m].at # "busy" => lane[m].work = NoWork
      BY Zenon DEF DrainInv, ShutdownInv
    <3>2. w # NoWork
      BY ExecutorAssumption, Zenon
    <3> QED
      BY ONLY <2>2, <3>1, <3>2, m \in Lanes, BusyAt, Zenon
  <2>4. ShutdownInv'
    BY ONLY <2>1, <2>3, DrainInv, LanesGoOn, Zenon DEF DrainInv
  <2>5. SubtaskInv(w)'
    BY ONLY <2>1, Zenon DEF SubtaskInv, Subtasks
  <2>6. ASSUME NEW v \in Works, v # w PROVE SubtaskInv(v)'
    <3>1. \A m \in Lanes : lane[m] = Busy(v) => lane'[m] = Busy(v)
      <4> SUFFICES ASSUME NEW m \in Lanes, lane[m] = Busy(v) PROVE lane'[m] = Busy(v)
        BY Zenon
      <4>1. lane[m].work = v
        BY BusyAt, Zenon
      <4> QED
        BY <2>2, <2>6, <4>1, Zenon
    <3> QED
      BY <2>1, <2>6, <3>1, SubtaskKept, Zenon DEF DrainInv
  <2> QED
    BY <2>4, <2>5, <2>6, Zenon DEF DrainInv
<1>2. CASE \/ FlushStalls(w) \/ RemotePrepared(w) \/ RemoteNotPrepared(w)
           \/ \E ok \in BOOLEAN : Flushed(w, ok) \/ RemoteDispatched(w, ok) \/ RemoteResult(w, ok)
  <2>1. stage[w] \in {"flushing", "preparing"} \/ w \in dispatching \cup executing
    BY <1>2, Zenon DEF FlushStalls, RemotePrepared, RemoteNotPrepared, Flushed, RemoteDispatched,
                       RemoteResult
  <2>2. kind[w] \notin Subtasks
    <3>1. SubtaskInv(w) /\ WorkInv(w)
      BY Zenon DEF DrainInv, ExecutorInv
    <3> QED
      BY ONLY <2>1, <3>1, Zenon DEF SubtaskInv, WorkInv, Subtasks
  <2>3. UNCHANGED <<kind, call, destructor, localActions, asyncActions, lane, asyncLane>>
    BY <1>2, Zenon DEF FlushStalls, RemotePrepared, RemoteNotPrepared, Flushed, RemoteDispatched,
                       RemoteResult
  <2>4. \A v \in Works \ {w} : stage'[v] = stage[v]
    BY <1>0, <1>2, Zenon DEF FlushStalls, RemotePrepared, RemoteNotPrepared, Flushed,
                             RemoteDispatched, RemoteResult, CompleteAction, Erase
  <2> QED
    BY <2>2, <2>3, <2>4, ActionMoves, Zenon
<1> QED
  BY <1>1, <1>2, Zenon DEF CallbackStep

\* The destructor: a client that destroys the executor is in no submit(), and the joins
\* wait for the lanes.
LEMMA DestructorDrains ==
  ASSUME DrainInv, ExecutorInv, BeginShutdown \/ DestructorStep
  PROVE  DrainInv'
<1> USE DEF queueVars
<1>0. lane \in [Lanes -> LaneShape] /\ ShutdownInv
  BY Zenon DEF ExecutorInv, Shapes, DrainInv
<1>1. /\ UNCHANGED <<kind, call, stage, localActions, asyncActions>>
      /\ destructor' # "none"
      /\ destructor = "none" => \A w \in Works : call[w] # "calling"
  BY Zenon DEF BeginShutdown, DestructorStep, NotifyAllLanes, LanesJoined, Destroyed
<1>2. \A l \in Lanes : lane'[l] = lane[l] \/ (lane[l].at = "asleep" /\ lane'[l] = Idle)
  BY Zenon DEF BeginShutdown, DestructorStep, NotifyAllLanes, LanesJoined, Destroyed
<1>3. asyncLane' = asyncLane \/ (asyncLane.at = "asleep" /\ asyncLane' = Idle)
  BY Zenon DEF BeginShutdown, DestructorStep, NotifyAllLanes, LanesJoined, Destroyed
<1>4. /\ \A m \in Lanes :
           /\ lane'[m].at # "busy" => lane'[m].work = NoWork
           /\ lane'[m].at = "exited" <=> lane[m].at = "exited"
      /\ \A v \in Works : \A m \in Lanes : lane[m] = Busy(v) => lane'[m] = Busy(v)
  BY ONLY <1>0, <1>2, Woken, Zenon
<1>5. asyncLane'.at = "exited" <=> asyncLane.at = "exited"
  BY <1>3, BusyAt, Zenon
<1>6. /\ destructor' \in {"joinAsync", "destroyed"} => \A l \in Lanes : lane[l].at = "exited"
      /\ destructor' = "destroyed" => asyncLane.at = "exited"
  BY <1>0, Zenon DEF BeginShutdown, DestructorStep, NotifyAllLanes, LanesJoined, Destroyed,
                     ShutdownInv
<1>7. ShutdownInv'
  <2>1. shouldShutdown' /\ \A w \in Works : call'[w] # "calling"
    BY <1>0, <1>1, Zenon DEF ShutdownInv, shouldShutdown
  <2> QED
    BY ONLY <1>0, <1>1, <1>4, <1>5, <1>6, <2>1, Zenon DEF ShutdownInv
<1>8. ASSUME NEW v \in Works PROVE SubtaskInv(v)'
  <2>1. asyncLane = Busy(v) => asyncLane' = Busy(v)
    BY ONLY <1>3, BusyAt, Zenon
  <2> QED
    BY <1>1, <1>4, <2>1, SubtaskKept, Zenon DEF DrainInv
<1> QED
  BY <1>7, <1>8, Zenon DEF DrainInv

\* No step of the executor loses a subtask.
LEMMA NextDrains == DrainInv /\ ExecutorInv /\ [Next]_vars => DrainInv'
<1> SUFFICES ASSUME DrainInv, ExecutorInv, [Next]_vars PROVE DrainInv'
  BY Zenon
<1>1. CASE UNCHANGED <<kind, call, stage, localActions, asyncActions, lane, asyncLane, destructor>>
  <2>1. ShutdownInv'
    BY <1>1, Zenon DEF DrainInv, ShutdownInv, shouldShutdown
  <2>2. ASSUME NEW v \in Works PROVE SubtaskInv(v)'
    BY <1>1, SubtaskKept, Zenon DEF DrainInv
  <2> QED
    BY <2>1, <2>2, Zenon DEF DrainInv
<1>2. ASSUME NEW k \in Kinds, CacheUpdated(k) PROVE DrainInv'
  BY <1>1, <1>2, Zenon DEF CacheUpdated, queueVars
<1>3. CASE UNCHANGED vars
  BY <1>1, <1>3, Zenon DEF vars, queueVars
<1>4. CASE Next
  <2>1. CASE \E w \in Works : Submit(w) \/ Refuse(w) \/ SubmitStep(w)
    BY <2>1, SubmitDrains, Zenon
  <2>2. CASE \E w \in Works : CallbackStep(w)
    BY <2>2, CallbackDrains, Zenon
  <2>3. CASE \E l \in Lanes : LaneStep(l)
    BY <2>3, LaneDrains, Zenon
  <2>4. CASE AsyncStep
    BY <2>4, AsyncDrains, Zenon
  <2>5. CASE BeginShutdown \/ DestructorStep
    BY <2>5, DestructorDrains, Zenon
  <2> QED
    BY <1>2, <1>4, <2>1, <2>2, <2>3, <2>4, <2>5, Zenon DEF Next, Progress
<1> QED
  BY <1>3, <1>4, Zenon

\* The destructor returns only when every subtask that was submitted has been started,
\* and every one a lane runs has ended: each is in a queue or with a lane till then, and
\* the joins wait for lanes that leave no queue behind (ActionExecutor.cpp:274-293).
THEOREM DestructorDrainsSubtasks == Spec => []SubtasksAreDrained
<1>1. DrainInv => SubtasksAreDrained
  <2> SUFFICES ASSUME DrainInv, destructor = "destroyed", NEW w \in Works
               PROVE  /\ kind[w] \in Subtasks => stage[w] \notin {"inserted", "queued", "held"}
                      /\ kind[w] = "subtask" => stage[w] \in {"new", "done"}
    BY Zenon DEF SubtasksAreDrained, Alive
  <2>1. /\ \A l \in Lanes : lane[l].at = "exited" /\ lane[l] # Busy(w)
        /\ asyncLane.at = "exited" /\ asyncLane # Busy(w)
    BY BusyAt, Zenon DEF DrainInv, ShutdownInv
  <2>2. kind[w] = "subtask" => w \notin localActions
    BY <2>1, LanesAssumption, Zenon DEF DrainInv, ShutdownInv
  <2>3. asyncActions = {} /\ call[w] # "calling"
    BY <2>1, Zenon DEF DrainInv, ShutdownInv
  <2>4. SubtaskInv(w)
    BY Zenon DEF DrainInv
  <2> QED
    BY ONLY <2>1, <2>2, <2>3, <2>4, Zenon DEF SubtaskInv, Subtasks
<1> QED
  BY <1>1, InitDrains, NextDrains, SpecInv, PTL DEF Spec
-----------------------------------------------------------------------------
(***************************************************************************)
(* Wake-ups                                                                *)
(***************************************************************************)
Awake == {l \in Lanes : lane[l].at = "top"}

Asleep == {l \in Lanes : lane[l].at = "asleep"}

KeepInv == IsFiniteSet(localActions) /\ LanesKeepUp

\* There are finitely many lanes.
LEMMA AwakeFinite ==
  /\ IsFiniteSet(Awake) /\ Cardinality(Awake) \in Nat
  /\ IsFiniteSet(Awake') /\ Cardinality(Awake') \in Nat
<1>1. IsFiniteSet(Lanes) /\ Awake \in SUBSET Lanes /\ Awake' \in SUBSET Lanes
  BY LanesAssumption, Zenon DEF Awake
<1>2. IsFiniteSet(Awake) /\ IsFiniteSet(Awake')
  BY ONLY <1>1, FS_Subset, Zenon
<1> QED
  BY ONLY <1>2, FS_CardinalityType, Zenon

\* A step that takes nothing out of the queue and puts no lane to sleep.
LEMMA KeepKept ==
  ASSUME KeepInv, localActions' = localActions,
         \A l \in Lanes : /\ lane'[l].at = "asleep" => lane[l].at = "asleep"
                          /\ lane[l].at = "top" => lane'[l].at = "top"
  PROVE  KeepInv'
<1>1. Awake \in SUBSET Awake'
  BY Zenon DEF Awake
<1>2. Cardinality(Awake) <= Cardinality(Awake')
  BY ONLY <1>1, AwakeFinite, FS_Subset, Zenon
<1>3. IsFiniteSet(localActions) /\ Cardinality(localActions) \in Nat
  BY FS_CardinalityType, Zenon DEF KeepInv
<1>4. Asleep' # {} => Asleep # {}
  BY Zenon DEF Asleep
<1>5. Asleep # {} => Cardinality(localActions) <= Cardinality(Awake)
  BY Zenon DEF KeepInv, LanesKeepUp, Asleep, Awake
<1>6. Asleep' # {} => Cardinality(localActions) <= Cardinality(Awake')
  BY ONLY <1>2, <1>3, <1>4, <1>5, AwakeFinite, SMT
<1> QED
  BY <1>3, <1>6, Zenon DEF KeepInv, LanesKeepUp, Asleep, Awake

\* An empty queue needs no lane.
LEMMA KeepEmpty ==
  ASSUME localActions' = {}
  PROVE  KeepInv'
<1>1. IsFiniteSet(localActions') /\ Cardinality(localActions') = 0
  BY FS_EmptySet, Zenon
<1>2. 0 <= Cardinality(Awake')
  BY ONLY AwakeFinite, SMT
<1> QED
  BY ONLY <1>1, <1>2, Zenon DEF KeepInv, LanesKeepUp, Awake

\* A work is queued, and a lane is woken if one sleeps.
LEMMA KeepAdded ==
  ASSUME KeepInv, NEW w, localActions' = localActions \cup {w}, NotifyOneLane,
         lane \in [Lanes -> LaneShape]
  PROVE  KeepInv'
<1>1. /\ IsFiniteSet(localActions) /\ Cardinality(localActions) \in Nat
      /\ IsFiniteSet(localActions') /\ Cardinality(localActions') \in Nat
  BY FS_CardinalityType, FS_AddElement, Zenon DEF KeepInv
<1>2. CASE Asleep = {}
  <2>1. \A l \in Lanes : lane'[l].at # "asleep"
    BY <1>2, Zenon DEF Asleep, NotifyOneLane
  <2> QED
    BY <1>1, <2>1, Zenon DEF KeepInv, LanesKeepUp
<1>3. CASE Asleep # {}
  <2>1. PICK l \in Asleep : lane' = [lane EXCEPT ![l] = Idle]
    BY <1>3, Zenon DEF NotifyOneLane, Asleep
  <2>2. l \in Lanes /\ lane[l].at = "asleep" /\ lane'[l] = Idle
        /\ \A m \in Lanes \ {l} : lane'[m] = lane[m]
    BY <2>1, Zenon DEF Asleep
  <2>3. lane'[l].at = "top"
    BY ONLY <2>2, BusyAt, Zenon
  <2>4. l \notin Awake /\ Awake' = Awake \cup {l}
    BY ONLY <2>2, <2>3, Zenon DEF Awake
  <2>5. Cardinality(Awake') = Cardinality(Awake) + 1
    <3>1. Cardinality(Awake \cup {l}) = IF l \in Awake THEN Cardinality(Awake) ELSE Cardinality(Awake) + 1
      BY ONLY AwakeFinite, FS_AddElement, Zenon
    <3> QED
      BY ONLY <2>4, <3>1, Zenon
  <2>6. Cardinality(localActions') <= Cardinality(localActions) + 1
    <3>1. Cardinality(localActions \cup {w}) =
            IF w \in localActions THEN Cardinality(localActions) ELSE Cardinality(localActions) + 1
      BY ONLY <1>1, FS_AddElement, Zenon
    <3> QED
      BY ONLY <1>1, <3>1, localActions' = localActions \cup {w}, SMT
  <2>7. Cardinality(localActions) <= Cardinality(Awake)
    BY <1>3, Zenon DEF KeepInv, LanesKeepUp, Asleep, Awake
  <2>8. Cardinality(localActions') <= Cardinality(Awake')
    BY ONLY <1>1, <2>5, <2>6, <2>7, AwakeFinite, SMT
  <2> QED
    BY <1>1, <2>8, Zenon DEF KeepInv, LanesKeepUp, Awake
<1> QED
  BY <1>2, <1>3, Zenon

\* A lane takes a work out of the queue.
LEMMA KeepTaken ==
  ASSUME KeepInv, NEW w \in localActions, localActions' = localActions \ {w},
         NEW l \in Lanes, lane[l].at = "top", lane'[l] = Busy(w),
         \A m \in Lanes \ {l} : lane'[m] = lane[m]
  PROVE  KeepInv'
<1>1. /\ IsFiniteSet(localActions) /\ Cardinality(localActions) \in Nat
      /\ IsFiniteSet(localActions') /\ Cardinality(localActions') \in Nat
  BY FS_CardinalityType, FS_RemoveElement, Zenon DEF KeepInv
<1>2. lane'[l].at = "busy"
  BY BusyAt, Zenon
<1>3. l \in Awake /\ Awake' = Awake \ {l}
  BY <1>2, Zenon DEF Awake
<1>4. Cardinality(Awake') = Cardinality(Awake) - 1
  <2>1. Cardinality(Awake \ {l}) = IF l \in Awake THEN Cardinality(Awake) - 1 ELSE Cardinality(Awake)
    BY ONLY AwakeFinite, FS_RemoveElement, Zenon
  <2> QED
    BY ONLY <1>3, <2>1, Zenon
<1>5. Cardinality(localActions') = Cardinality(localActions) - 1
  <2>1. Cardinality(localActions \ {w}) =
          IF w \in localActions THEN Cardinality(localActions) - 1 ELSE Cardinality(localActions)
    BY ONLY <1>1, FS_RemoveElement, Zenon
  <2> QED
    BY <2>1, Zenon
<1>6. Asleep' # {} => Asleep # {}
  BY <1>2, Zenon DEF Asleep
<1>7. Asleep # {} => Cardinality(localActions) <= Cardinality(Awake)
  BY Zenon DEF KeepInv, LanesKeepUp, Asleep, Awake
<1>8. Asleep' # {} => Cardinality(localActions') <= Cardinality(Awake')
  BY ONLY <1>1, <1>4, <1>5, <1>6, <1>7, AwakeFinite, SMT
<1> QED
  BY <1>1, <1>8, Zenon DEF KeepInv, LanesKeepUp, Asleep, Awake

\* Every step keeps as many lanes awake as there are works queued, if a lane sleeps.
LEMMA NextKeeps == KeepInv /\ ExecutorInv /\ [Next]_vars => KeepInv'
<1> SUFFICES ASSUME KeepInv, ExecutorInv, [Next]_vars PROVE KeepInv'
  BY Zenon
<1> USE DEF queueVars
<1>0. lane \in [Lanes -> LaneShape]
  BY Zenon DEF ExecutorInv, Shapes
<1>1. CASE UNCHANGED <<localActions, lane>>
  BY <1>1, KeepKept, Zenon
<1>2. ASSUME localActions' = localActions,
             \A l \in Lanes : lane'[l] = lane[l] \/ lane'[l] = Idle
      PROVE  KeepInv'
  <2>1. \A l \in Lanes : /\ lane'[l].at = "asleep" => lane[l].at = "asleep"
                         /\ lane[l].at = "top" => lane'[l].at = "top"
    <3> SUFFICES ASSUME NEW l \in Lanes
                 PROVE  /\ lane'[l].at = "asleep" => lane[l].at = "asleep"
                        /\ lane[l].at = "top" => lane'[l].at = "top"
      BY Zenon
    <3>1. CASE lane'[l] = Idle
      BY ONLY <3>1, BusyAt, Zenon
    <3> QED
      BY <1>2, <3>1, Zenon
  <2> QED
    BY <1>2, <2>1, KeepKept, Zenon
<1>3. ASSUME NEW w \in Works, Submit(w) \/ Refuse(w) \/ SubmitStep(w) PROVE KeepInv'
  <2>1. CASE Submit(w) \/ Refuse(w) \/ Return(w) \/ CacheHit(w) \/ CacheMiss(w) \/ CacheLoaded(w)
    BY <1>1, <2>1, Zenon DEF Submit, Refuse, Return, CacheHit, CacheMiss, CacheLoaded
  <2>2. CASE Enqueue(w)
    <3>1. \/ UNCHANGED <<localActions, lane>>
          \/ localActions' = localActions \cup {w} /\ NotifyOneLane
      BY <2>2, Zenon DEF Enqueue
    <3> QED
      BY <1>0, <1>1, <3>1, KeepAdded, Zenon
  <2> QED
    BY <1>3, <2>1, <2>2, Zenon DEF SubmitStep
<1>4. ASSUME NEW w \in Works, CallbackStep(w) PROVE KeepInv'
  <2>1. CASE Notify(w)
    <3>1. /\ localActions' = localActions
          /\ \A l \in Lanes : lane'[l] = lane[l] \/ lane'[l] = Idle
      BY <2>1, Zenon DEF Notify
    <3> QED
      BY <1>2, <3>1, Zenon
  <2>2. CASE \/ FlushStalls(w) \/ RemotePrepared(w) \/ RemoteNotPrepared(w)
             \/ \E ok \in BOOLEAN : Flushed(w, ok) \/ RemoteDispatched(w, ok) \/ RemoteResult(w, ok)
    BY <1>1, <2>2, Zenon DEF FlushStalls, RemotePrepared, RemoteNotPrepared, Flushed,
                             RemoteDispatched, RemoteResult
  <2> QED
    BY <1>4, <2>1, <2>2, Zenon DEF CallbackStep
<1>5. ASSUME NEW l \in Lanes, LaneStep(l) PROVE KeepInv'
  <2>1. CASE LaneWaits(l) \/ LaneExits(l)
    <3>1. localActions' = {}
      BY <2>1, Zenon DEF LaneWaits, LaneExits
    <3> QED
      BY <3>1, KeepEmpty, Zenon
  <2>2. CASE LanePops(l)
    <3>1. PICK w \in localActions : /\ lane[l].at = "top" /\ localActions' = localActions \ {w}
                                    /\ lane' = [lane EXCEPT ![l] = Busy(w)]
      BY <2>2, Zenon DEF LanePops, Busy
    <3>2. lane'[l] = Busy(w) /\ \A m \in Lanes \ {l} : lane'[m] = lane[m]
      BY <1>0, <3>1, Zenon
    <3> QED
      BY ONLY <3>1, <3>2, KeepInv, l \in Lanes, KeepTaken, Zenon
  <2>3. CASE LaneStarts(l) \/ LaneFinishes(l) \/ FunctionReturns(l) \/ OutputsFail(l)
    BY <1>1, <2>3, Zenon DEF LaneStarts, LaneFinishes, FunctionReturns, OutputsFail
  <2>4. ASSUME NEW to \in {"lost", "flushing"}, ProcessEnds(l, to) PROVE KeepInv'
    <3>1. localActions' = localActions /\ lane' = [lane EXCEPT ![l] = Idle]
      BY <2>4, Zenon DEF ProcessEnds
    <3>2. \A m \in Lanes : lane'[m] = lane[m] \/ lane'[m] = Idle
      BY <1>0, <3>1, Zenon
    <3> QED
      BY <1>2, <3>1, <3>2, Zenon
  <2> QED
    BY <1>5, <2>1, <2>2, <2>3, <2>4, Zenon DEF LaneStep
<1>6. CASE AsyncStep
  <2>1. ASSUME NEW w \in Works, AsyncLeaves(w) PROVE KeepInv'
    <3>1. localActions' = localActions /\ NotifyOneLane
      BY <2>1, Zenon DEF AsyncLeaves
    <3>2. \A m \in Lanes : lane'[m] = lane[m] \/ lane'[m] = Idle
      BY <1>0, <3>1, Zenon DEF NotifyOneLane
    <3> QED
      BY <1>2, <3>1, <3>2, Zenon
  <2>2. CASE \/ AsyncLaneWaits \/ AsyncLaneExits \/ AsyncLanePops \/ AsyncLaneStarts
             \/ \E w \in Works : AsyncFinishes(w)
    BY <1>1, <2>2, Zenon DEF AsyncLaneWaits, AsyncLaneExits, AsyncLanePops, AsyncLaneStarts,
                             AsyncFinishes
  <2> QED
    BY <1>6, <2>1, <2>2, Zenon DEF AsyncStep
<1>7. CASE BeginShutdown \/ DestructorStep
  <2>1. localActions' = localActions /\ \A m \in Lanes : lane'[m] = lane[m] \/ lane'[m] = Idle
    BY <1>7, Zenon DEF BeginShutdown, DestructorStep, NotifyAllLanes, LanesJoined, Destroyed
  <2> QED
    BY <1>2, <2>1, Zenon
<1>8. ASSUME NEW k \in Kinds, CacheUpdated(k) PROVE KeepInv'
  BY <1>1, <1>8, Zenon DEF CacheUpdated
<1>9. CASE UNCHANGED vars
  BY <1>1, <1>9, Zenon DEF vars
<1> QED
  BY <1>3, <1>4, <1>5, <1>6, <1>7, <1>8, <1>9, Zenon DEF Next, Progress

\* No wake-up of a lane is lost: while a lane sleeps, there are at least as many lanes on
\* their way to the queue as works in it, whoever notifies, and however many lanes there
\* are (laneHandler and queueForLocalExecution).
THEOREM NoLaneOversleeps == Spec => []LanesKeepUp
<1>1. Init => KeepInv
  <2> SUFFICES ASSUME Init PROVE KeepInv
    BY Zenon
  <2>1. IsFiniteSet(localActions)
    BY FS_EmptySet, Zenon DEF Init
  <2>2. \A l \in Lanes : lane[l].at # "asleep"
    BY BusyAt, Zenon DEF Init
  <2> QED
    BY <2>1, <2>2, Zenon DEF KeepInv, LanesKeepUp
<1>2. KeepInv => LanesKeepUp
  BY Zenon DEF KeepInv
<1> QED
  BY <1>1, <1>2, NextKeeps, SpecInv, PTL DEF Spec
==============================================================================
