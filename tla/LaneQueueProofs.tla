-------------------------- MODULE LaneQueueProofs --------------------------
(***************************************************************************)
(* The execution queue, for any number of lanes, jobs and background tasks *)
(* and whatever system calls fail: a cancellation reaches every process it *)
(* may interrupt, no wake-up of a lane is lost, the files that are open    *)
(* fit in the limit, and nothing runs on once the queue is released.       *)
(***************************************************************************)
EXTENDS LaneQueue, TLAPS, FiniteSetTheorems

\* What the argument needs of the types.
Shapes ==
  /\ step \in [Jobs -> Steps] /\ process \in [Jobs -> ProcessStates]
  /\ signals \in [Jobs -> SUBSET Signals]

CancelInv == Shapes /\ GroupIsCurrent /\ CancelReachesProcesses

groupVars == <<process, signals, processes, closed, cancelled, canceller>>

\* No job comes to the step in which its process has been waited for.
NoneReaped ==
  /\ step' \in [Jobs -> Steps]
  /\ \A j \in Jobs : step'[j] = "reaped" => step[j] = "reaped"

\* An action that leaves the processes, the group and the cancellation alone
\* preserves the invariant, unless it says that a process has been waited for.
LEMMA OtherStep ==
  ASSUME CancelInv, UNCHANGED groupVars, NoneReaped
  PROVE  CancelInv'
BY Zenon DEF CancelInv, Shapes, GroupIsCurrent, CancelReachesProcesses, groupVars,
       NoneReaped

\* The same for an action that does not touch the steps either.
LEMMA IdleStep ==
  ASSUME CancelInv, UNCHANGED <<groupVars, step>>
  PROVE  CancelInv'
BY Zenon DEF CancelInv, Shapes, GroupIsCurrent, CancelReachesProcesses, groupVars

\* The completion function gives the job a new step, never "reaped".
LEMMA CompletionFnStep ==
  ASSUME Shapes, NEW j \in Jobs, NEW result, CompletionFn(j, result)
  PROVE  NoneReaped
BY Zenon DEF CompletionFn, Shapes, NoneReaped, Steps

\* The invariant holds in a new queue, where no process lives.
LEMMA InitCancelInv == Init => CancelInv
<1> SUFFICES ASSUME Init PROVE CancelInv
  BY Zenon
<1>1. Shapes
  BY Zenon DEF Init, Shapes, Steps, ProcessStates, Signals
<1>2. cancelled = FALSE /\ closed = FALSE
  BY Zenon DEF Init
<1>3. \A j \in Jobs : process[j] = "none"
  BY Zenon DEF Init
<1> QED
  BY <1>1, <1>2, <1>3, Zenon DEF CancelInv, GroupIsCurrent, CancelReachesProcesses

\* What the engine and the lanes do.
LEMMA QueueStepCancelInv ==
  ASSUME CancelInv,
         EngineStep \/ \E l \in 1 .. NumLanes : LaneStep(l)
  PROVE  CancelInv'
<1>1. ASSUME NEW j \in Jobs, AddJob(j) PROVE CancelInv'
  BY <1>1, OtherStep, Zenon
  DEF CancelInv, Shapes, NoneReaped, Steps, AddJob, groupVars, processVars,
      cancelVars
<1>2. CASE ReleaseQueue
  BY <1>2, IdleStep, Zenon DEF ReleaseQueue, groupVars, processVars
<1>3. CASE JoinLanes \/ JoinKiller
  BY <1>3, IdleStep, Zenon DEF JoinLanes, JoinKiller, groupVars, processVars, cancelVars
<1>4. CASE DestroyGroup
  BY <1>4, IdleStep, Zenon DEF DestroyGroup, groupVars, processVars
<1>5. ASSUME NEW l \in 1 .. NumLanes, LaneStep(l) PROVE CancelInv'
  <2>1. CASE TakeJob(l)
    BY <2>1, OtherStep, Zenon
    DEF CancelInv, Shapes, NoneReaped, Steps, TakeJob, groupVars, processVars,
        cancelVars
  <2>2. CASE FindNoJob(l) \/ WakeSpuriously(l) \/ FinishJob(l)
    BY <2>2, IdleStep, Zenon DEF FindNoJob, WakeSpuriously, FinishJob, groupVars,
                          processVars, cancelVars
  <2> QED
    BY <1>5, <2>1, <2>2, Zenon DEF LaneStep
<1> QED
  BY <1>1, <1>2, <1>3, <1>4, <1>5, Zenon DEF EngineStep

\* What the thread that handles a job does, and what may fail on its way.
LEMMA ThreadStepCancelInv ==
  ASSUME CancelInv, NEW j \in Jobs, ThreadStep(j) \/ FaultStep(j)
  PROVE  CancelInv'
<1> USE DEF groupVars, processVars, cancelVars
<1>1. CASE ExecuteProcess(j)
  BY <1>1, OtherStep, CompletionFnStep, Zenon
  DEF CancelInv, Shapes, NoneReaped, Steps, ExecuteProcess
<1>2. CASE SpawnProcess(j)
  BY <1>2, Zenon
  DEF SpawnProcess, CancelInv, Shapes, Steps, ProcessStates, Signals,
      GroupIsCurrent, CancelReachesProcesses
<1>3. CASE SkipSpawn(j) \/ SpawnFails(j)
  BY <1>3, OtherStep, CompletionFnStep, Zenon
  DEF CancelInv, Shapes, NoneReaped, Steps, SkipSpawn, SpawnFails
<1>4. CASE PipesFail(j)
  BY <1>4, OtherStep, CompletionFnStep, Zenon
  DEF CancelInv, Shapes, NoneReaped, Steps, PipesFail
<1>5. CASE PollFails(j) \/ RefuseRelease(j)
  BY <1>5, OtherStep, Zenon
  DEF CancelInv, Shapes, NoneReaped, Steps, PollFails, RefuseRelease
<1>6. CASE Wait4(j)
  <2>1. Shapes'
    BY <1>6, Zenon DEF Wait4, CancelInv, Shapes, Steps, ProcessStates, Signals
  <2>2. \A i \in Jobs : process'[i] = "alive" => process[i] = "alive" /\ i # j
    BY <1>6, Zenon DEF Wait4, CancelInv, Shapes
  <2>3. \A i \in Jobs : step'[i] = "reaped" => i = j \/ step[i] = "reaped"
    BY <1>6, Zenon DEF Wait4, CancelInv, Shapes
  <2>4. UNCHANGED <<processes, closed, cancelled, canceller, signals>>
    BY <1>6, Zenon DEF Wait4
  <2> QED
    BY <2>1, <2>2, <2>3, <2>4, JobsAssumption, Zenon
    DEF CancelInv, GroupIsCurrent, CancelReachesProcesses
<1>7. CASE RemoveProcess(j)
  BY <1>7, Zenon
  DEF RemoveProcess, CancelInv, Shapes, Steps, ProcessStates, Signals,
      GroupIsCurrent, CancelReachesProcesses
<1>8. CASE ReportProcess(j)
  BY <1>8, OtherStep, CompletionFnStep, Zenon
  DEF CancelInv, Shapes, NoneReaped, Steps, ReportProcess
<1>9. CASE EndBackground(j)
  BY <1>9, IdleStep, Zenon DEF EndBackground
<1>10. CASE \E result \in {"succeeded", "failed"} : ReadDeps(j, result)
  BY <1>10, OtherStep, Zenon DEF CancelInv, Shapes, NoneReaped, Steps, ReadDeps
<1>11. CASE CancelFromJob(j)
  BY <1>11, Zenon
  DEF CancelFromJob, CloseGroup, CancelInv, Shapes, Steps, ProcessStates,
      Signals, GroupIsCurrent, CancelReachesProcesses
<1>12. CASE CancelAgain(j)
  BY <1>12, OtherStep, Zenon
  DEF CancelInv, Shapes, NoneReaped, Steps, CancelAgain, ToldEngine
<1> QED
  BY <1>1, <1>2, <1>3, <1>4, <1>5, <1>6, <1>7, <1>8, <1>9, <1>10, <1>11, <1>12, Zenon
  DEF ThreadStep, FaultStep

\* What a process does.
LEMMA ProcessStepCancelInv ==
  ASSUME CancelInv, NEW j \in Jobs, ProcessStep(j)
  PROVE  CancelInv'
<1> USE DEF groupVars, processVars, cancelVars
<1>1. CASE PipesClosed(j)
  BY <1>1, OtherStep, Zenon DEF CancelInv, Shapes, NoneReaped, Steps, PipesClosed
<1>2. CASE ReleaseLane(j)
  BY <1>2, OtherStep, Zenon DEF CancelInv, Shapes, NoneReaped, Steps, ReleaseLane
<1>3. ASSUME NEW how \in {"succeeded", "failed", "cancelled"}, ProcessEnds(j, how)
      PROVE  CancelInv'
  BY <1>3
  DEF ProcessEnds, CancelInv, Shapes, Steps, ProcessStates, Signals,
      GroupIsCurrent, CancelReachesProcesses
<1> QED
  BY <1>1, <1>2, <1>3, Zenon DEF ProcessStep

\* The steps of a cancellation.  Interrupting the group establishes the property:
\* what lives is in the group, and what is in the group is signalled.
LEMMA CancelStepCancelInv ==
  ASSUME CancelInv, CancelFromClient \/ CancelStep
  PROVE  CancelInv'
<1> USE DEF groupVars, processVars, cancelVars
<1>1. CASE CancelFromClient
  BY <1>1, Zenon
  DEF CancelFromClient, CloseGroup, CancelInv, Shapes, Steps, ProcessStates,
      Signals, GroupIsCurrent, CancelReachesProcesses
<1>2. CASE InterruptAll
  BY <1>2, JobsAssumption, Zenon
  DEF InterruptAll, SignalAll, CancelInv, Shapes, Steps, ProcessStates,
      Signals, GroupIsCurrent, CancelReachesProcesses
<1>3. CASE StartKiller
  BY <1>3, Zenon
  DEF StartKiller, ToldEngine, CancelInv, Shapes, Steps, ProcessStates,
      Signals, GroupIsCurrent, CancelReachesProcesses
<1>4. CASE KillerStarts
  BY <1>4, IdleStep, Zenon DEF KillerStarts
<1>5. CASE KillAll
  BY <1>5, JobsAssumption, Zenon
  DEF KillAll, SignalAll, CancelInv, Shapes, Steps, ProcessStates, Signals,
      GroupIsCurrent, CancelReachesProcesses
<1> QED
  BY <1>1, <1>2, <1>3, <1>4, <1>5, Zenon DEF CancelStep

\* The invariant is inductive.
THEOREM CancelInvariant == Spec => []CancelInv
<1>1. Init => CancelInv
  BY InitCancelInv, Zenon
<1>2. CancelInv /\ [Next]_vars => CancelInv'
  <2> SUFFICES ASSUME CancelInv, [Next]_vars PROVE CancelInv'
    BY Zenon
  <2>1. CASE UNCHANGED vars
    BY <2>1, IdleStep, Zenon DEF vars, groupVars, processVars, cancelVars
  <2>2. CASE Next
    BY <2>2, QueueStepCancelInv, ThreadStepCancelInv, ProcessStepCancelInv,
       CancelStepCancelInv, Zenon DEF Next
  <2> QED
    BY <2>1, <2>2, Zenon
<1> QED
  BY <1>1, <1>2, PTL DEF Spec

\* Once cancelAllJobs has sent SIGINT to the process group, every process that
\* may be interrupted and still lives has been sent it: spawnProcess cannot start
\* one behind the back of the cancellation.
THEOREM CancelReaches == Spec => []CancelReachesProcesses
<1>1. CancelInv => CancelReachesProcesses
  BY Zenon DEF CancelInv
<1> QED
  BY <1>1, CancelInvariant, PTL

\* The process group is accurate in every reachable state: closed with the
\* cancellation, and holding every process that lives.
THEOREM GroupCurrent == Spec => []GroupIsCurrent
<1>1. CancelInv => GroupIsCurrent
  BY Zenon DEF CancelInv
<1> QED
  BY <1>1, CancelInvariant, PTL
-----------------------------------------------------------------------------
(***************************************************************************)
(* Types                                                                   *)
(***************************************************************************)
LaneStates == {"take", "wait", "command", "deps", "finish", "exited"}

\* The types of the queue, of the lanes and of the jobs.
QueueTypes ==
  /\ limits \in [lanes : 1 .. NumLanes, background : Nat, files : OpenFileLimits]
  /\ readyJobs \in Seq(Jobs) /\ readyPriorityJobs \in Seq(HasDeps)
  /\ lane \in [Lanes -> [at : LaneStates, job : Jobs \cup {NoJob}]]
  /\ step \in [Jobs -> Steps]
  /\ background \in [Jobs -> {"none", "wait", "decrement"}]

\* The descriptors of the lanes and background tasks fit in the limit on open files.
FilesFit ==
  limits.files >= ReservedFileCount + FilesPerTask =>
    ReservedFileCount + FilesPerTask * (limits.lanes + limits.background) <= limits.files

\* estimateTaskLimits allows at least one lane, and no more files than there are.
LEMMA LimitsFit ==
  ASSUME NEW files \in OpenFileLimits
  PROVE  LET limit == EstimateTaskLimits(files)
         IN  /\ limit.lanes \in 1 .. NumLanes /\ limit.background \in Nat
             /\ files >= ReservedFileCount + FilesPerTask =>
                  ReservedFileCount + FilesPerTask * (limit.lanes + limit.background)
                    <= files
<1> DEFINE tasks == (files - ReservedFileCount) \div FilesPerTask
           wanted == IF BackgroundTaskMax = {}
                     THEN IF 1024 < NumLanes * 64 THEN 1024 ELSE NumLanes * 64
                     ELSE CHOOSE n \in BackgroundTaskMax : TRUE
<1>1. files \in Nat /\ NumLanes \in Nat \ {0}
  BY LimitsAssumption, Zenon
<1>2. wanted \in Nat
  <2>1. CASE BackgroundTaskMax = {}
    BY <1>1, <2>1
  <2>2. CASE BackgroundTaskMax # {}
    <3>1. (CHOOSE n \in BackgroundTaskMax : TRUE) \in BackgroundTaskMax
      BY <2>2, Zenon
    <3> QED
      BY <2>2, <3>1, LimitsAssumption, Zenon
  <2> QED
    BY <2>1, <2>2, Zenon
<1>3. CASE files < ReservedFileCount
  BY <1>1, <1>3 DEF EstimateTaskLimits, ReservedFileCount, FilesPerTask
<1>4. CASE files >= ReservedFileCount /\ NumLanes > tasks
  <2>1. tasks \in Nat /\ 2 * tasks <= files - 10 /\ (files >= 12 => tasks >= 1)
    BY <1>1, <1>4 DEF ReservedFileCount, FilesPerTask
  <2>2. EstimateTaskLimits(files) =
          [lanes |-> IF tasks = 0 THEN 1 ELSE tasks, background |-> 0]
    BY <1>1, <1>4 DEF EstimateTaskLimits, ReservedFileCount
  <2> HIDE DEF tasks
  <2> QED
    BY <1>1, <1>4, <2>1, <2>2 DEF ReservedFileCount, FilesPerTask
<1>5. CASE files >= ReservedFileCount /\ NumLanes <= tasks
  <2>1. tasks \in Nat /\ 2 * tasks <= files - 10
    BY <1>1, <1>5 DEF ReservedFileCount, FilesPerTask
  <2>2. EstimateTaskLimits(files) =
          [lanes |-> NumLanes,
           background |-> IF wanted < tasks - NumLanes THEN wanted ELSE tasks - NumLanes]
    <3>1. ~(files < ReservedFileCount) /\ ~(NumLanes > tasks)
      BY <1>1, <1>5, <2>1 DEF ReservedFileCount
    <3> QED
      BY <3>1, Zenon DEF EstimateTaskLimits
  <2> HIDE DEF tasks, wanted
  <2> QED
    BY <1>1, <1>2, <1>5, <2>1, <2>2 DEF ReservedFileCount, FilesPerTask
<1> QED
  BY <1>1, <1>3, <1>4, <1>5 DEF ReservedFileCount, FilesPerTask

\* What is left of a sequence without its element at n.
Rest(rest, s, n) ==
  /\ Len(rest) = Len(s) - 1
  /\ \A i \in DOMAIN rest : rest[i] = s[IF i < n THEN i ELSE i + 1]

\* A job taken out of a sequence leaves the others in their order.
LEMMA TakeOut ==
  ASSUME NEW S, NEW s \in Seq(S), NEW n \in DOMAIN s
  PROVE  LET t == SubSeq(s, 1, n - 1) \o SubSeq(s, n + 1, Len(s))
         IN  t \in Seq(S) /\ Rest(t, s, n)
<1> DEFINE front == SubSeq(s, 1, n - 1)
           back == SubSeq(s, n + 1, Len(s))
<1>1. n \in 1 .. Len(s) /\ Len(s) \in Nat
  OBVIOUS
<1>2. front \in Seq(S) /\ Len(front) = n - 1 /\ \A i \in 1 .. n - 1 : front[i] = s[i]
  BY <1>1
<1>3. /\ back \in Seq(S) /\ Len(back) = Len(s) - n
      /\ \A i \in 1 .. Len(s) - n : back[i] = s[n + i]
  BY <1>1
<1> DEFINE t == front \o back
<1> HIDE DEF front, back
<1>4. t \in Seq(S) /\ Len(t) = Len(s) - 1
  BY <1>1, <1>2, <1>3
<1>5. ASSUME NEW i \in DOMAIN t PROVE t[i] = s[IF i < n THEN i ELSE i + 1]
  <2>1. i \in 1 .. Len(s) - 1
    BY <1>4
  <2>2. CASE i < n
    <3>1. i \in 1 .. Len(front)
      BY <1>1, <1>2, <2>1, <2>2
    <3>2. t[i] = front[i]
      BY <1>2, <1>3, <3>1
    <3> QED
      BY <1>1, <1>2, <2>1, <2>2, <3>2
  <2>3. CASE i >= n
    <3>0. Len(front) = n - 1 /\ Len(back) = Len(s) - n
      BY <1>2, <1>3, Zenon
    <3>1. i - Len(front) \in 1 .. Len(back) /\ ~(i <= Len(front))
      BY ONLY <1>1, <2>1, <2>3, <3>0, SMT
    <3>2. t[i] = back[i - Len(front)]
      <4>1. front \in Seq(S) /\ back \in Seq(S)
        BY <1>2, <1>3, Zenon
      <4> QED
        BY ONLY <2>1, <3>1, <4>1, SMT
    <3>3. i - Len(front) \in 1 .. Len(s) - n /\ n + (i - Len(front)) = i + 1
      BY ONLY <1>1, <2>1, <2>3, <3>0, SMT
    <3>4. back[i - Len(front)] = s[i + 1]
      BY <1>3, <3>3, Zenon
    <3>5. ~(i < n)
      BY <1>1, <2>1, <2>3
    <3> QED
      BY <3>2, <3>4, <3>5, Zenon
  <2> QED
    BY <1>1, <2>1, <2>2, <2>3
<1> HIDE DEF t
<1>6. t \in Seq(S) /\ Rest(t, s, n)
  BY <1>4, <1>5, Zenon DEF Rest
<1> QED
  BY <1>6, Zenon DEF t, front, back

\* A new queue.
LEMMA InitTypes == Init => QueueTypes /\ FilesFit
<1> SUFFICES ASSUME Init PROVE QueueTypes /\ FilesFit
  BY Zenon
<1>1. PICK files \in OpenFileLimits :
        limits = [lanes |-> EstimateTaskLimits(files).lanes,
                  background |-> EstimateTaskLimits(files).background,
                  files |-> files]
  BY Zenon DEF Init
<1>2. limits \in [lanes : 1 .. NumLanes, background : Nat, files : OpenFileLimits] /\ FilesFit
  BY <1>1, LimitsFit, Zenon DEF FilesFit
<1> QED
  BY <1>2 DEF Init, QueueTypes, LaneStates, Steps

\* The completion function and what follows it leave types alone.
LEMMA ReturnedTypes ==
  ASSUME QueueTypes, NEW j \in Jobs
  PROVE  /\ Returned(j) \in [Lanes -> [at : LaneStates, job : Jobs \cup {NoJob}]]
         /\ \A l \in Lanes :
              /\ Returned(j)[l].at = "wait" <=> lane[l].at = "wait"
              /\ Returned(j)[l].at = "take" <=> lane[l].at = "take"
              /\ Returned(j)[l].job = lane[l].job
              /\ lane[l].job # j => Returned(j)[l] = lane[l]
         /\ Detached(j) \in [Jobs -> {"none", "wait", "decrement"}]
<1>1. lane \in [Lanes -> [at : LaneStates, job : Jobs \cup {NoJob}]]
  BY Zenon DEF QueueTypes
<1>2. \A l \in Lanes : [lane[l] EXCEPT !.at = "finish"] \in [at : LaneStates, job : Jobs \cup {NoJob}]
  BY <1>1, Zenon DEF LaneStates
<1>3. Returned(j) \in [Lanes -> [at : LaneStates, job : Jobs \cup {NoJob}]]
  BY <1>1, <1>2, Zenon DEF Returned
<1>4. ASSUME NEW l \in Lanes
      PROVE  /\ Returned(j)[l].at = "wait" <=> lane[l].at = "wait"
             /\ Returned(j)[l].at = "take" <=> lane[l].at = "take"
             /\ Returned(j)[l].job = lane[l].job
             /\ lane[l].job # j => Returned(j)[l] = lane[l]
  <2>1. CASE lane[l].job = j /\ lane[l].at \in {"command", "deps"}
    <3>1. Returned(j)[l] = [lane[l] EXCEPT !.at = "finish"]
      BY <2>1, Zenon DEF Returned
    <3>2. Returned(j)[l].at = "finish" /\ Returned(j)[l].job = lane[l].job
      BY <1>1, <3>1, Zenon
    <3> QED
      BY <2>1, <3>2, Zenon
  <2>2. CASE ~(lane[l].job = j /\ lane[l].at \in {"command", "deps"})
    BY <2>2, Zenon DEF Returned
  <2> QED
    BY <2>1, <2>2, Zenon
<1>5. Detached(j) \in [Jobs -> {"none", "wait", "decrement"}]
  BY Zenon DEF QueueTypes, Detached
<1> QED
  BY <1>3, <1>4, <1>5, Zenon

\* The completion function keeps the types.
LEMMA CompletionFnTypes ==
  ASSUME QueueTypes, NEW j \in Jobs, NEW result, CompletionFn(j, result),
         UNCHANGED <<limits, readyJobs>>
  PROVE  QueueTypes'
<1>1. Lanes' = Lanes
  BY Zenon DEF Lanes
<1>2. step' \in [Jobs -> Steps]
  BY Zenon DEF CompletionFn, QueueTypes, Steps
<1>3. readyPriorityJobs' \in Seq(HasDeps)
  <2>1. \/ j \in HasDeps /\ readyPriorityJobs' = Append(readyPriorityJobs, j)
        \/ readyPriorityJobs' = readyPriorityJobs
    BY Zenon DEF CompletionFn
  <2>2. readyPriorityJobs \in Seq(HasDeps)
    BY Zenon DEF QueueTypes
  <2> QED
    BY <2>1, <2>2
<1>4. background' \in [Jobs -> {"none", "wait", "decrement"}]
  <2>1. background' = Detached(j) \/ background' = background
    BY Zenon DEF CompletionFn
  <2> QED
    BY <2>1, ReturnedTypes, ZenonT(60) DEF QueueTypes
<1>5. lane' \in [Lanes -> [at : LaneStates, job : Jobs \cup {NoJob}]]
  <2> DEFINE shape == [Lanes -> [at : LaneStates, job : Jobs \cup {NoJob}]]
             returned == Returned(j)
  <2>1. returned \in shape /\ lane \in shape
    BY ReturnedTypes, Zenon DEF QueueTypes
  <2>2. \A l \in Waiting : Woken(returned, l) \in shape
    <3> HIDE DEF returned
    <3> QED
      BY <2>1, Zenon DEF Woken, LaneStates, Waiting
  <2>3. lane' = lane \/ lane' = returned \/ \E l \in Waiting : lane' = Woken(returned, l)
    BY Zenon DEF CompletionFn
  <2> HIDE DEF returned
  <2> QED
    BY <2>1, <2>2, <2>3, Zenon
<1> QED
  BY <1>1, <1>2, <1>3, <1>4, <1>5, Zenon DEF QueueTypes

\* A job goes on to another step; its lane returns, or nothing else happens to a lane.
LEMMA JobTypes ==
  ASSUME QueueTypes, NEW j \in Jobs, NEW to \in Steps, step' = [step EXCEPT ![j] = to],
         lane' = lane \/ lane' = Returned(j),
         \/ background' = background \/ background' = Detached(j)
         \/ background' = [background EXCEPT ![j] = "wait"],
         UNCHANGED <<limits, readyJobs, readyPriorityJobs>>
  PROVE  QueueTypes'
<1>1. lane' \in [Lanes -> [at : LaneStates, job : Jobs \cup {NoJob}]]
  BY ReturnedTypes DEF QueueTypes
<1>2. background' \in [Jobs -> {"none", "wait", "decrement"}]
  BY ReturnedTypes, ZenonT(60) DEF QueueTypes
<1>3. step' \in [Jobs -> Steps]
  BY Zenon DEF QueueTypes
<1> QED
  BY <1>1, <1>2, <1>3, Zenon DEF QueueTypes, Lanes

\* Lanes are woken up, and nothing else happens to the queue.
LEMMA WokenTypes ==
  ASSUME QueueTypes, lane' = lane \/ lane' = NotifyAll \/ \E l \in Waiting : lane' = Woken(lane, l),
         UNCHANGED <<limits, readyJobs, readyPriorityJobs, background>>,
         step' = step \/ \E j \in Jobs : step' = [step EXCEPT ![j] = "cancelling"]
  PROVE  QueueTypes'
<1>1. lane' \in [Lanes -> [at : LaneStates, job : Jobs \cup {NoJob}]]
  <2>1. lane \in [Lanes -> [at : LaneStates, job : Jobs \cup {NoJob}]]
    BY Zenon DEF QueueTypes
  <2> QED
    BY <2>1 DEF NotifyAll, Woken, Waiting, LaneStates
<1>2. step' \in [Jobs -> Steps]
  BY Zenon DEF QueueTypes, Steps
<1> QED
  BY <1>1, <1>2, Zenon DEF QueueTypes, Lanes

\* What the engine and the lanes do.
LEMMA QueueStepTypes ==
  ASSUME QueueTypes, EngineStep \/ \E l \in 1 .. NumLanes : LaneStep(l)
  PROVE  QueueTypes'
<1>0. lane \in [Lanes -> [at : LaneStates, job : Jobs \cup {NoJob}]]
  BY Zenon DEF QueueTypes
<1>1. ASSUME NEW j \in Jobs, AddJob(j) PROVE QueueTypes'
  <2>1. readyJobs' \in Seq(Jobs)
    <3>1. readyJobs \in Seq(Jobs) /\ readyJobs' = Append(readyJobs, j)
      BY <1>1, Zenon DEF QueueTypes, AddJob
    <3> QED
      BY <3>1
  <2>2. lane' \in [Lanes -> [at : LaneStates, job : Jobs \cup {NoJob}]]
    BY <1>0, <1>1 DEF AddJob, NotifyOne, Woken, Waiting, LaneStates
  <2>3. step' \in [Jobs -> Steps]
    BY <1>1, Zenon DEF QueueTypes, AddJob, Steps
  <2> QED
    BY <1>1, <2>1, <2>2, <2>3, Zenon DEF QueueTypes, AddJob, Lanes
<1>2. CASE ReleaseQueue
  BY <1>2, WokenTypes, Zenon DEF ReleaseQueue
<1>3. CASE JoinLanes \/ JoinKiller \/ DestroyGroup
  BY <1>3, WokenTypes, Zenon DEF JoinLanes, JoinKiller, DestroyGroup, queueVars
<1>4. ASSUME NEW l \in Lanes, TakeJob(l), readyPriorityJobs # << >> PROVE QueueTypes'
  <2> DEFINE j == Head(readyPriorityJobs)
  <2>1. readyPriorityJobs \in Seq(HasDeps)
    BY Zenon DEF QueueTypes
  <2>2. j \in HasDeps /\ Tail(readyPriorityJobs) \in Seq(HasDeps)
    BY <1>4, <2>1
  <2>3. j \in Jobs
    BY <2>2, JobsAssumption, Zenon
  <2>4. /\ lane' = [lane EXCEPT ![l] = [at |-> "deps", job |-> j]]
        /\ step' = [step EXCEPT ![j] = "deps"]
        /\ readyPriorityJobs' = Tail(readyPriorityJobs)
        /\ UNCHANGED <<limits, readyJobs, background>>
    BY <1>4, Zenon DEF TakeJob
  <2> HIDE DEF j
  <2>5. lane' \in [Lanes -> [at : LaneStates, job : Jobs \cup {NoJob}]]
    BY <1>0, <2>3, <2>4, Zenon DEF LaneStates
  <2>6. step' \in [Jobs -> Steps]
    BY <2>3, <2>4, Zenon DEF QueueTypes, Steps
  <2> QED
    BY <2>2, <2>4, <2>5, <2>6, Zenon DEF QueueTypes, Lanes
<1>5. ASSUME NEW l \in Lanes, TakeJob(l), readyPriorityJobs = << >> PROVE QueueTypes'
  <2>1. PICK n \in DOMAIN readyJobs :
          /\ lane' = [lane EXCEPT ![l] = [at |-> "command", job |-> readyJobs[n]]]
          /\ step' = [step EXCEPT ![readyJobs[n]] = "execute"]
          /\ readyJobs' = SubSeq(readyJobs, 1, n - 1)
                            \o SubSeq(readyJobs, n + 1, Len(readyJobs))
          /\ UNCHANGED <<limits, readyPriorityJobs, background>>
    BY <1>5, Zenon DEF TakeJob
  <2> DEFINE j == readyJobs[n]
  <2>2. readyJobs \in Seq(Jobs)
    BY Zenon DEF QueueTypes
  <2>3. readyJobs' \in Seq(Jobs) /\ j \in Jobs
    <3>1. readyJobs' \in Seq(Jobs)
      BY <2>1, <2>2, TakeOut, Zenon
    <3>2. j \in Jobs
      BY <2>1, <2>2
    <3> QED
      BY <3>1, <3>2, Zenon
  <2>4. lane' \in [Lanes -> [at : LaneStates, job : Jobs \cup {NoJob}]]
    BY <1>0, <2>1, <2>3, Zenon DEF LaneStates
  <2>5. step' \in [Jobs -> Steps]
    BY <2>1, <2>3, Zenon DEF QueueTypes, Steps
  <2> QED
    BY <2>1, <2>3, <2>4, <2>5, Zenon DEF QueueTypes, Lanes
<1>6. ASSUME NEW l \in 1 .. NumLanes, FindNoJob(l) \/ FinishJob(l) PROVE QueueTypes'
  <2>1. lane' \in [Lanes -> [at : LaneStates, job : Jobs \cup {NoJob}]]
    BY <1>0, <1>6 DEF FindNoJob, FinishJob, LaneStates
  <2> QED
    BY <1>6, <2>1, Zenon DEF QueueTypes, FindNoJob, FinishJob, Lanes
<1>7. ASSUME NEW l \in 1 .. NumLanes, WakeSpuriously(l) PROVE QueueTypes'
  BY <1>7, WokenTypes, Zenon DEF WakeSpuriously, Waiting
<1> QED
  BY <1>1, <1>2, <1>3, <1>4, <1>5, <1>6, <1>7, Zenon DEF EngineStep, LaneStep, TakeJob

\* What the thread that handles a job does, what may fail on its way, and what its
\* process does.
LEMMA JobStepTypes ==
  ASSUME QueueTypes, NEW j \in Jobs, ThreadStep(j) \/ FaultStep(j) \/ ProcessStep(j)
  PROVE  QueueTypes'
<1> USE DEF queueVars
<1>0. {"spawn", "poll", "refused", "wait", "reaped", "removed", "cancel", "cancelling",
       "complete", "deadlocked", "abandoned"} \subseteq Steps
  BY Zenon DEF Steps
<1>1. CASE ExecuteProcess(j)
  BY <1>0, <1>1, CompletionFnTypes, JobTypes, Zenon DEF ExecuteProcess
<1>2. CASE SpawnProcess(j) \/ PipesClosed(j) \/ RefuseRelease(j) \/ Wait4(j) \/ RemoveProcess(j)
  BY <1>0, <1>2, JobTypes, Zenon DEF SpawnProcess, PipesClosed, RefuseRelease, Wait4, RemoveProcess
<1>3. CASE SkipSpawn(j) \/ SpawnFails(j) \/ ReportProcess(j)
  BY <1>3, CompletionFnTypes, Zenon DEF SkipSpawn, SpawnFails, ReportProcess
<1>4. CASE PipesFail(j)
  BY <1>0, <1>4, CompletionFnTypes, JobTypes, Zenon DEF PipesFail
<1>5. CASE PollFails(j)
  BY <1>0, <1>5, JobTypes, Zenon DEF PollFails
<1>6. CASE ReleaseLane(j)
  BY <1>0, <1>6, JobTypes, Zenon DEF ReleaseLane
<1>7. ASSUME NEW result \in {"succeeded", "failed"}, ReadDeps(j, result) PROVE QueueTypes'
  BY <1>0, <1>7, JobTypes, Zenon DEF ReadDeps
<1>8. CASE EndBackground(j)
  BY <1>8, Zenon DEF EndBackground, QueueTypes, Lanes
<1>9. CASE CancelFromJob(j)
  BY <1>9, WokenTypes, Zenon DEF CancelFromJob, CloseGroup
<1>10. CASE CancelAgain(j)
  BY <1>0, <1>10, JobTypes, Zenon DEF CancelAgain, ToldEngine
<1>11. ASSUME NEW how, ProcessEnds(j, how) PROVE QueueTypes'
  BY <1>11, Zenon DEF ProcessEnds, QueueTypes, Lanes
<1> QED
  BY <1>1, <1>2, <1>3, <1>4, <1>5, <1>6, <1>7, <1>8, <1>9, <1>10, <1>11, Zenon
  DEF ThreadStep, FaultStep, ProcessStep

\* The steps of a cancellation.
LEMMA CancelStepTypes ==
  ASSUME QueueTypes, CancelFromClient \/ CancelStep
  PROVE  QueueTypes'
<1> USE DEF queueVars
<1>1. CASE CancelFromClient
  BY <1>1, WokenTypes, Zenon DEF CancelFromClient, CloseGroup
<1>2. CASE InterruptAll \/ KillerStarts \/ KillAll
  BY <1>2, WokenTypes, Zenon DEF InterruptAll, KillerStarts, KillAll
<1>3. CASE StartKiller
  <2>1. UNCHANGED <<limits, readyJobs, readyPriorityJobs>>
    BY <1>3, Zenon DEF StartKiller
  <2>2. \/ UNCHANGED <<step, lane, background>>
        \/ \E j \in Jobs : ToldEngine(j)
    BY <1>3, Zenon DEF StartKiller
  <2>3. "complete" \in Steps
    BY Zenon DEF Steps
  <2> QED
    BY <2>1, <2>2, <2>3, WokenTypes, JobTypes, Zenon DEF ToldEngine
<1> QED
  BY <1>1, <1>2, <1>3, Zenon DEF CancelStep

\* Every step keeps the types.
LEMMA NextTypes == QueueTypes /\ [Next]_vars => QueueTypes'
<1> SUFFICES ASSUME QueueTypes, [Next]_vars PROVE QueueTypes'
  BY Zenon
<1>1. CASE UNCHANGED vars
  BY <1>1, WokenTypes, Zenon DEF vars, queueVars
<1> QED
  BY <1>1, QueueStepTypes, JobStepTypes, CancelStepTypes, Zenon DEF Next

\* Nothing changes the limits of the queue.
LEMMA LimitsStay == [Next]_vars => limits' = limits
<1> SUFFICES ASSUME [Next]_vars PROVE limits' = limits
  BY Zenon
<1> USE DEF queueVars
<1>1. ASSUME EngineStep \/ \E l \in 1 .. NumLanes : LaneStep(l) PROVE limits' = limits
  BY <1>1, Zenon DEF EngineStep, LaneStep, AddJob, ReleaseQueue, JoinLanes, JoinKiller, DestroyGroup,
              TakeJob, FindNoJob, WakeSpuriously, FinishJob
<1>2. ASSUME NEW j \in Jobs, ThreadStep(j) PROVE limits' = limits
  BY <1>2, Zenon DEF ThreadStep, ExecuteProcess, SpawnProcess, SkipSpawn, RefuseRelease, Wait4,
              RemoveProcess, ReportProcess, EndBackground, ReadDeps, CancelFromJob, CloseGroup,
              CancelAgain
<1>3. ASSUME NEW j \in Jobs, FaultStep(j) \/ ProcessStep(j) PROVE limits' = limits
  BY <1>3, Zenon DEF FaultStep, SpawnFails, PipesFail, PollFails, ProcessStep, PipesClosed,
              ReleaseLane, ProcessEnds
<1>4. ASSUME CancelFromClient \/ CancelStep \/ UNCHANGED vars PROVE limits' = limits
  BY <1>4, Zenon DEF CancelFromClient, CloseGroup, CancelStep, InterruptAll, StartKiller,
              KillerStarts, KillAll, vars
<1> QED
  BY <1>1, <1>2, <1>3, <1>4, Zenon DEF Next

-----------------------------------------------------------------------------
(***************************************************************************)
(* No lost wakeup.  A lane goes to sleep only over empty queues, whoever   *)
(* adds a job wakes a lane up if one sleeps, and a lane that is awake      *)
(* takes one job at most before it is counted again.                       *)
(***************************************************************************)
Awake == {l \in Lanes : lane[l].at = "take"}
Queued == Len(readyJobs) + Len(readyPriorityJobs)

\* The lanes are finite in number.
LEMMA LanesFinite ==
  ASSUME QueueTypes
  PROVE  IsFiniteSet(Lanes) /\ Cardinality(Lanes) = limits.lanes
<1>1. limits.lanes \in Int /\ 1 <= limits.lanes
  BY LimitsAssumption DEF QueueTypes
<1> QED
  BY <1>1, FS_Interval DEF Lanes

\* Both are numbers, and stay numbers.
LEMMA AwakeFinite ==
  ASSUME QueueTypes, QueueTypes', limits' = limits
  PROVE  /\ IsFiniteSet(Awake) /\ Cardinality(Awake) \in Nat /\ Queued \in Nat
         /\ IsFiniteSet(Awake') /\ Cardinality(Awake') \in Nat /\ Queued' \in Nat
<1>1. IsFiniteSet(Lanes) /\ Awake \subseteq Lanes /\ Awake' \subseteq Lanes
  BY LanesFinite, Zenon DEF Awake, Lanes
<1>2. IsFiniteSet(Awake) /\ IsFiniteSet(Awake')
  BY <1>1, FS_Subset, Zenon
<1>3. Queued \in Nat /\ Queued' \in Nat
  BY DEF QueueTypes, Queued
<1> QED
  BY <1>2, <1>3, FS_CardinalityType, Zenon

\* No lane goes to sleep or off to work, and no job comes.
LEMMA WakeKept ==
  ASSUME QueueTypes, QueueTypes', WakeupsMatchJobs, limits' = limits, Queued' <= Queued,
         \A l \in Lanes : /\ lane'[l].at = "wait" => lane[l].at = "wait"
                          /\ lane[l].at = "take" => lane'[l].at = "take"
  PROVE  WakeupsMatchJobs'
<1>1. Lanes' = Lanes
  BY Zenon DEF Lanes
<1>2. Awake \subseteq Awake'
  BY <1>1, Zenon DEF Awake
<1>3. /\ IsFiniteSet(Awake') /\ Cardinality(Awake) \in Nat /\ Cardinality(Awake') \in Nat
      /\ Queued \in Nat /\ Queued' \in Nat
  BY AwakeFinite, Zenon
<1>4. Cardinality(Awake) <= Cardinality(Awake')
  BY <1>2, <1>3, FS_Subset, Zenon
<1>5. Waiting' # {} => Waiting # {}
  BY <1>1, Zenon DEF Waiting
<1>6. Waiting # {} => Queued <= Cardinality(Awake)
  BY Zenon DEF WakeupsMatchJobs, Queued, Awake
<1>7. Waiting' # {} => Queued' <= Cardinality(Awake')
  BY <1>3, <1>4, <1>5, <1>6
<1> QED
  BY <1>7, Zenon DEF WakeupsMatchJobs, Queued, Awake

\* A job comes, and the lane m is woken up for it.
LEMMA WakeAdded ==
  ASSUME QueueTypes, QueueTypes', WakeupsMatchJobs, limits' = limits, Queued' = Queued + 1,
         NEW m \in Waiting, lane'[m].at = "take",
         \A l \in Lanes : lane[l].at = "take" => lane'[l].at = "take"
  PROVE  WakeupsMatchJobs'
<1>1. Lanes' = Lanes
  BY Zenon DEF Lanes
<1>2. Awake \cup {m} \subseteq Awake' /\ m \notin Awake
  BY <1>1, Zenon DEF Awake, Waiting
<1>3. /\ IsFiniteSet(Awake) /\ IsFiniteSet(Awake') /\ Cardinality(Awake) \in Nat
      /\ Cardinality(Awake') \in Nat /\ Queued \in Nat
  BY AwakeFinite, Zenon
<1>4. Cardinality(Awake \cup {m}) = Cardinality(Awake) + 1
  BY <1>2, <1>3, FS_AddElement, Zenon
<1>5. Cardinality(Awake \cup {m}) <= Cardinality(Awake')
  BY <1>2, <1>3, FS_Subset, Zenon
<1>6. Queued <= Cardinality(Awake)
  BY Zenon DEF WakeupsMatchJobs, Queued, Awake
<1>7. Queued' <= Cardinality(Awake')
  BY <1>3, <1>4, <1>5, <1>6
<1> QED
  BY <1>7, Zenon DEF WakeupsMatchJobs, Queued, Awake

\* A lane takes a job.
LEMMA WakeTaken ==
  ASSUME QueueTypes, QueueTypes', WakeupsMatchJobs, limits' = limits, Queued' = Queued - 1,
         NEW m \in Lanes, lane[m].at = "take", lane'[m].at \in {"command", "deps"},
         \A l \in Lanes \ {m} : lane'[l] = lane[l]
  PROVE  WakeupsMatchJobs'
<1>1. Lanes' = Lanes
  BY Zenon DEF Lanes
<1>2. Awake' = Awake \ {m} /\ m \in Awake /\ Waiting' = Waiting
  BY <1>1, ZenonT(60) DEF Awake, Waiting
<1>3. IsFiniteSet(Awake) /\ Cardinality(Awake) \in Nat /\ Queued \in Nat
  BY AwakeFinite, Zenon
<1>4. Cardinality(Awake') = Cardinality(Awake) - 1
  BY <1>2, <1>3, FS_RemoveElement, Zenon
<1>5. Waiting # {} => Queued <= Cardinality(Awake)
  BY Zenon DEF WakeupsMatchJobs, Queued, Awake
<1>6. Waiting' # {} => Queued' <= Cardinality(Awake')
  BY <1>2, <1>3, <1>4, <1>5
<1> QED
  BY <1>6, Zenon DEF WakeupsMatchJobs, Queued, Awake

\* The completion function wakes a lane up for the job it adds.
LEMMA CompletionFnWakes ==
  ASSUME QueueTypes, QueueTypes', WakeupsMatchJobs, NEW j \in Jobs, NEW result,
         CompletionFn(j, result), UNCHANGED <<limits, readyJobs>>
  PROVE  WakeupsMatchJobs'
<1> DEFINE returned == Returned(j)
<1>0. /\ returned \in [Lanes -> [at : LaneStates, job : Jobs \cup {NoJob}]]
      /\ \A l \in Lanes : /\ returned[l].at = "wait" <=> lane[l].at = "wait"
                          /\ returned[l].at = "take" <=> lane[l].at = "take"
  BY ReturnedTypes, Zenon
<1>1. CASE readyPriorityJobs' = readyPriorityJobs
  <2>1. Queued' <= Queued
    BY <1>1, AwakeFinite DEF Queued
  <2>2. lane' \in {lane, returned} \/ \E l \in Waiting : lane' = Woken(returned, l)
    BY Zenon DEF CompletionFn
  <2> HIDE DEF returned
  <2>3. \A l \in Lanes : /\ lane'[l].at = "wait" => lane[l].at = "wait"
                         /\ lane[l].at = "take" => lane'[l].at = "take"
    BY <1>0, <2>2, Zenon DEF Woken, Waiting
  <2> QED
    BY <2>1, <2>3, WakeKept, Zenon
<1>2. CASE /\ readyPriorityJobs' = Append(readyPriorityJobs, j) /\ j \in HasDeps
           /\ Waiting = {} /\ lane' = returned
  <2>1. Waiting' = {}
    BY <1>0, <1>2, Zenon DEF Waiting, Lanes
  <2> QED
    BY <2>1, Zenon DEF WakeupsMatchJobs
<1>3. ASSUME readyPriorityJobs' = Append(readyPriorityJobs, j), j \in HasDeps,
             NEW m \in Waiting, lane' = Woken(returned, m)
      PROVE  WakeupsMatchJobs'
  <2>1. Queued' = Queued + 1
    <3>1. readyPriorityJobs \in Seq(HasDeps) /\ readyJobs \in Seq(Jobs)
      BY Zenon DEF QueueTypes
    <3> QED
      BY <1>3, <3>1 DEF Queued
  <2> HIDE DEF returned
  <2>2. lane'[m].at = "take" /\ \A l \in Lanes : lane[l].at = "take" => lane'[l].at = "take"
    BY <1>0, <1>3, Zenon DEF Woken, Waiting
  <2> QED
    BY <2>1, <2>2, WakeAdded, Zenon
<1> QED
  BY <1>1, <1>2, <1>3, Zenon DEF CompletionFn

\* What the engine and the lanes do.
LEMMA QueueStepWakes ==
  ASSUME QueueTypes, QueueTypes', WakeupsMatchJobs,
         EngineStep \/ \E l \in 1 .. NumLanes : LaneStep(l)
  PROVE  WakeupsMatchJobs'
<1> USE DEF queueVars
<1>0. lane \in [Lanes -> [at : LaneStates, job : Jobs \cup {NoJob}]]
  BY Zenon DEF QueueTypes
<1>1. ASSUME NEW j \in Jobs, AddJob(j) PROVE WakeupsMatchJobs'
  <2>1. limits' = limits /\ Queued' = Queued + 1
    <3>1. /\ readyJobs \in Seq(Jobs) /\ Len(readyPriorityJobs) \in Nat
          /\ readyJobs' = Append(readyJobs, j) /\ readyPriorityJobs' = readyPriorityJobs
      BY <1>1 DEF AddJob, QueueTypes
    <3>2. limits' = limits
      BY <1>1, Zenon DEF AddJob
    <3> QED
      BY <3>1, <3>2 DEF Queued
  <2>2. CASE Waiting = {} /\ lane' = lane
    BY <2>1, <2>2, Zenon DEF WakeupsMatchJobs, Waiting, Lanes
  <2>3. ASSUME NEW m \in Waiting, lane' = Woken(lane, m) PROVE WakeupsMatchJobs'
    <3>1. lane'[m].at = "take" /\ \A l \in Lanes : lane[l].at = "take" => lane'[l].at = "take"
      BY <1>0, <2>3, Zenon DEF Woken, Waiting
    <3> QED
      BY <2>1, <2>3, <3>1, WakeAdded, Zenon
  <2> QED
    BY <1>1, <2>2, <2>3, Zenon DEF AddJob, NotifyOne
<1>2. CASE ReleaseQueue
  BY <1>0, <1>2, WakeKept, AwakeFinite DEF ReleaseQueue, NotifyAll, Waiting, Queued
<1>3. CASE JoinLanes \/ JoinKiller \/ DestroyGroup
  BY <1>3, WakeKept, AwakeFinite DEF JoinLanes, JoinKiller, DestroyGroup, Queued
<1>4. ASSUME NEW l \in Lanes, TakeJob(l), readyPriorityJobs # << >> PROVE WakeupsMatchJobs'
  <2>1. /\ lane[l].at = "take" /\ limits' = limits
        /\ lane'[l].at = "deps" /\ \A m \in Lanes \ {l} : lane'[m] = lane[m]
    BY <1>0, <1>4 DEF TakeJob
  <2>2. Queued' = Queued - 1
    <3>1. /\ readyPriorityJobs \in Seq(HasDeps) /\ readyJobs \in Seq(Jobs)
          /\ readyPriorityJobs' = Tail(readyPriorityJobs) /\ readyJobs' = readyJobs
      BY <1>4, Zenon DEF TakeJob, QueueTypes
    <3> QED
      BY <1>4, <3>1 DEF Queued
  <2> QED
    BY <2>1, <2>2, WakeTaken, Zenon
<1>5. ASSUME NEW l \in Lanes, TakeJob(l), readyPriorityJobs = << >> PROVE WakeupsMatchJobs'
  <2>1. PICK n \in DOMAIN readyJobs :
          /\ lane' = [lane EXCEPT ![l] = [at |-> "command", job |-> readyJobs[n]]]
          /\ readyJobs' = SubSeq(readyJobs, 1, n - 1)
                            \o SubSeq(readyJobs, n + 1, Len(readyJobs))
          /\ lane[l].at = "take" /\ UNCHANGED <<limits, readyPriorityJobs>>
    BY <1>5, Zenon DEF TakeJob
  <2>2. /\ readyJobs \in Seq(Jobs) /\ Len(readyJobs) \in Nat
        /\ Len(readyPriorityJobs) \in Nat
    BY DEF QueueTypes
  <2>3. Len(readyJobs') = Len(readyJobs) - 1
    BY <2>1, <2>2, TakeOut, Zenon DEF Rest
  <2>4. Queued' = Queued - 1
    <3>1. Len(readyPriorityJobs') = Len(readyPriorityJobs)
      BY <2>1, Zenon
    <3> QED
      BY <2>2, <2>3, <3>1 DEF Queued
  <2>5. lane'[l].at = "command" /\ \A m \in Lanes \ {l} : lane'[m] = lane[m]
    BY <1>0, <2>1, Zenon
  <2> QED
    BY <2>1, <2>4, <2>5, WakeTaken, Zenon
<1>6. ASSUME NEW l \in 1 .. NumLanes, FindNoJob(l) PROVE WakeupsMatchJobs'
  <2>1. Queued' = 0 /\ limits' = limits
    BY <1>6 DEF FindNoJob, Queued
  <2> QED
    BY <2>1, AwakeFinite DEF WakeupsMatchJobs, Queued, Awake
<1>7. ASSUME NEW l \in 1 .. NumLanes, FinishJob(l) \/ WakeSpuriously(l) PROVE WakeupsMatchJobs'
  BY <1>0, <1>7, WakeKept, AwakeFinite DEF FinishJob, WakeSpuriously, Woken, Queued
<1> QED
  BY <1>1, <1>2, <1>3, <1>4, <1>5, <1>6, <1>7, Zenon DEF EngineStep, LaneStep, TakeJob

\* What the thread that handles a job does, what may fail on its way, and what its
\* process does.
LEMMA JobStepWakes ==
  ASSUME QueueTypes, QueueTypes', WakeupsMatchJobs, NEW j \in Jobs,
         ThreadStep(j) \/ FaultStep(j) \/ ProcessStep(j)
  PROVE  WakeupsMatchJobs'
<1> USE DEF queueVars
<1>1. ASSUME UNCHANGED <<limits, readyJobs, readyPriorityJobs>>,
             lane' = lane \/ lane' = Returned(j) \/ lane' = NotifyAll
      PROVE  WakeupsMatchJobs'
  <2>1. Queued' <= Queued
    BY <1>1, AwakeFinite DEF Queued
  <2>2. \A l \in Lanes : /\ lane'[l].at = "wait" => lane[l].at = "wait"
                         /\ lane[l].at = "take" => lane'[l].at = "take"
    BY <1>1, ReturnedTypes DEF NotifyAll, Waiting, QueueTypes
  <2> QED
    BY <1>1, <2>1, <2>2, WakeKept, Zenon
<1>2. CASE ExecuteProcess(j)
  BY <1>1, <1>2, CompletionFnWakes, Zenon DEF ExecuteProcess
<1>3. CASE SpawnProcess(j) \/ PipesClosed(j) \/ RefuseRelease(j) \/ Wait4(j) \/ RemoveProcess(j)
  BY <1>1, <1>3, Zenon DEF SpawnProcess, PipesClosed, RefuseRelease, Wait4, RemoveProcess
<1>4. CASE SkipSpawn(j) \/ SpawnFails(j) \/ ReportProcess(j)
  BY <1>4, CompletionFnWakes, Zenon DEF SkipSpawn, SpawnFails, ReportProcess
<1>5. CASE PipesFail(j)
  BY <1>1, <1>5, CompletionFnWakes, Zenon DEF PipesFail
<1>6. CASE PollFails(j) \/ ReleaseLane(j) \/ EndBackground(j) \/ CancelAgain(j)
  BY <1>1, <1>6, Zenon DEF PollFails, ReleaseLane, EndBackground, CancelAgain, ToldEngine
<1>7. ASSUME NEW result \in {"succeeded", "failed"}, ReadDeps(j, result)
      PROVE  WakeupsMatchJobs'
  BY <1>1, <1>7, Zenon DEF ReadDeps
<1>8. CASE CancelFromJob(j)
  BY <1>1, <1>8, Zenon DEF CancelFromJob, CloseGroup
<1>9. ASSUME NEW how, ProcessEnds(j, how) PROVE WakeupsMatchJobs'
  BY <1>1, <1>9, Zenon DEF ProcessEnds
<1> QED
  BY <1>2, <1>3, <1>4, <1>5, <1>6, <1>7, <1>8, <1>9, Zenon DEF ThreadStep, FaultStep, ProcessStep

\* The steps of a cancellation, and none.
LEMMA CancelStepWakes ==
  ASSUME QueueTypes, QueueTypes', WakeupsMatchJobs,
         CancelFromClient \/ CancelStep \/ UNCHANGED vars
  PROVE  WakeupsMatchJobs'
<1>1. UNCHANGED <<limits, readyJobs, readyPriorityJobs>>
  BY Zenon DEF CancelFromClient, CloseGroup, CancelStep, InterruptAll, StartKiller, KillerStarts,
         KillAll, queueVars, vars
<1>2. lane' = lane \/ lane' = NotifyAll \/ \E j \in Jobs : lane' = Returned(j)
  BY Zenon DEF CancelFromClient, CloseGroup, CancelStep, InterruptAll, StartKiller, KillerStarts,
         KillAll, ToldEngine, queueVars, vars
<1>3. \A l \in Lanes : /\ lane'[l].at = "wait" => lane[l].at = "wait"
                       /\ lane[l].at = "take" => lane'[l].at = "take"
  BY <1>2, ReturnedTypes DEF NotifyAll, Waiting, QueueTypes
<1>4. Queued' <= Queued
  BY <1>1, AwakeFinite DEF Queued
<1> QED
  BY <1>1, <1>3, <1>4, WakeKept, Zenon

\* No wakeup is lost, whichever lane notify_one picks and whenever one wakes up by
\* itself: a lane sleeps only while every job in the ready queues has a lane of its
\* own that is awake to take it.
THEOREM NoWakeupIsLost == Spec => []WakeupsMatchJobs
<1>1. Init => QueueTypes /\ WakeupsMatchJobs
  <2> SUFFICES ASSUME Init PROVE QueueTypes /\ WakeupsMatchJobs
    BY Zenon
  <2>1. Waiting = {}
    BY Zenon DEF Init, Waiting
  <2> QED
    BY <2>1, InitTypes, Zenon DEF WakeupsMatchJobs
<1>2. QueueTypes /\ WakeupsMatchJobs /\ [Next]_vars => (QueueTypes /\ WakeupsMatchJobs)'
  <2> SUFFICES ASSUME QueueTypes, WakeupsMatchJobs, [Next]_vars
               PROVE  QueueTypes' /\ WakeupsMatchJobs'
    BY Zenon
  <2>1. QueueTypes'
    BY NextTypes, Zenon
  <2> QED
    BY <2>1, QueueStepWakes, JobStepWakes, CancelStepWakes, Zenon DEF Next
<1> QED
  BY <1>1, <1>2, PTL DEF Spec
-----------------------------------------------------------------------------
(***************************************************************************)
(* The jobs in the ready queues                                            *)
(***************************************************************************)
\* A queue holds each job once, and the ones at this step only.
Holds(queue, at) ==
  \A n \in DOMAIN queue :
    /\ step[queue[n]] = at
    /\ \A m \in DOMAIN queue : queue[m] = queue[n] => m = n

ReadyInv == Holds(readyJobs, "ready") /\ Holds(readyPriorityJobs, "depsReady")

\* The steps outside the ready queues.
Away == Steps \ {"ready", "depsReady"}

\* Where the code that moves a job finds and leaves it.
LEMMA ReadyKept ==
  ASSUME QueueTypes, ReadyInv, UNCHANGED <<readyJobs, readyPriorityJobs>>,
         step' = step \/ \E j \in Jobs, to \in Away :
                           step[j] \in Away /\ step' = [step EXCEPT ![j] = to]
  PROVE  ReadyInv'
<1>1. /\ \A n \in DOMAIN readyJobs : readyJobs[n] \in Jobs
      /\ \A n \in DOMAIN readyPriorityJobs : readyPriorityJobs[n] \in Jobs
  <2>1. readyJobs \in Seq(Jobs) /\ readyPriorityJobs \in Seq(HasDeps)
    BY Zenon DEF QueueTypes
  <2>2. HasDeps \subseteq Jobs
    BY JobsAssumption, Zenon
  <2> QED
    BY <2>1, <2>2
<1>2. \A i \in Jobs : step[i] \in {"ready", "depsReady"} => step'[i] = step[i]
  BY Zenon DEF QueueTypes, Away
<1> QED
  BY <1>1, <1>2, Zenon DEF ReadyInv, Holds

\* A job is added at the end of a queue.
LEMMA HoldsOneMore ==
  ASSUME NEW S \in SUBSET Jobs, NEW queue \in Seq(S), NEW at, Holds(queue, at),
         NEW j \in S, step[j] # at, step \in [Jobs -> Steps], step' = [step EXCEPT ![j] = at]
  PROVE  \A n \in DOMAIN Append(queue, j) :
           /\ step'[Append(queue, j)[n]] = at
           /\ \A m \in DOMAIN Append(queue, j) :
                Append(queue, j)[m] = Append(queue, j)[n] => m = n
<1>1. \A n \in DOMAIN queue : queue[n] \in Jobs /\ queue[n] # j /\ step[queue[n]] = at
  BY DEF Holds
<1>2. \A m, n \in DOMAIN queue : queue[m] = queue[n] => m = n
  BY Zenon DEF Holds
<1>3. /\ DOMAIN queue = 1 .. Len(queue) /\ Len(queue) \in Nat
      /\ DOMAIN Append(queue, j) = 1 .. Len(queue) + 1
      /\ \A n \in 1 .. Len(queue) : Append(queue, j)[n] = queue[n]
      /\ Append(queue, j)[Len(queue) + 1] = j
  OBVIOUS
<1>4. \A n \in 1 .. Len(queue) + 1 : n \in 1 .. Len(queue) \/ n = Len(queue) + 1
  BY <1>3
<1> QED
  BY <1>1, <1>2, <1>3, <1>4

\* What is left of a queue when the job at n is taken out.
LEMMA HoldsOneLess ==
  ASSUME NEW S \in SUBSET Jobs, NEW queue \in Seq(S), NEW at, Holds(queue, at),
         NEW n \in DOMAIN queue, NEW rest \in Seq(S), Rest(rest, queue, n),
         \A i \in Jobs : i # queue[n] => step'[i] = step[i]
  PROVE  \A k \in DOMAIN rest :
           /\ step'[rest[k]] = at
           /\ \A m \in DOMAIN rest : rest[m] = rest[k] => m = k
<1> DEFINE old(i) == IF i < n THEN i ELSE i + 1
<1>1. /\ DOMAIN queue = 1 .. Len(queue) /\ Len(queue) \in Nat
      /\ DOMAIN rest = 1 .. Len(queue) - 1 /\ n \in 1 .. Len(queue)
  BY DEF Rest
<1>2. ASSUME NEW i \in DOMAIN rest PROVE old(i) \in DOMAIN queue /\ old(i) # n
  BY <1>1
<1>3. \A i, k \in DOMAIN rest : old(i) = old(k) => i = k
  BY <1>1
<1>4. \A i \in DOMAIN rest : rest[i] = queue[old(i)]
  BY Zenon DEF Rest
<1> HIDE DEF old
<1>5. \A m, k \in DOMAIN queue : queue[m] = queue[k] => m = k
  BY Zenon DEF Holds
<1>6. \A m \in DOMAIN queue : queue[m] \in Jobs /\ step[queue[m]] = at
  BY DEF Holds
<1> QED
  BY <1>2, <1>3, <1>4, <1>5, <1>6

\* The completion function adds a job that is at its end, or none.
LEMMA CompletionFnReady ==
  ASSUME QueueTypes, ReadyInv, NEW j \in Jobs, step[j] \in Away, NEW result,
         CompletionFn(j, result), readyJobs' = readyJobs
  PROVE  ReadyInv'
<1>1. CASE readyPriorityJobs' = readyPriorityJobs
  <2>1. \E to \in Away : step' = [step EXCEPT ![j] = to]
    BY <1>1 DEF CompletionFn, Away, Steps, QueueTypes
  <2> QED
    BY <1>1, <2>1, ReadyKept, Zenon
<1>2. CASE /\ j \in HasDeps /\ readyPriorityJobs' = Append(readyPriorityJobs, j)
           /\ step' = [step EXCEPT ![j] = "depsReady"]
  <2>1. /\ step \in [Jobs -> Steps] /\ readyPriorityJobs \in Seq(HasDeps)
        /\ readyJobs \in Seq(Jobs) /\ HasDeps \in SUBSET Jobs
    BY JobsAssumption, Zenon DEF QueueTypes
  <2>2. Holds(readyPriorityJobs, "depsReady")'
    BY <1>2, <2>1, HoldsOneMore DEF ReadyInv, Holds, Away
  <2>3. \A n \in DOMAIN readyJobs : step'[readyJobs[n]] = step[readyJobs[n]]
    BY <1>2, <2>1 DEF ReadyInv, Holds, Away
  <2> QED
    BY <2>2, <2>3, Zenon DEF ReadyInv, Holds
<1>3. \/ readyPriorityJobs' = readyPriorityJobs
      \/ /\ j \in HasDeps /\ readyPriorityJobs' = Append(readyPriorityJobs, j)
         /\ step' = [step EXCEPT ![j] = "depsReady"]
  BY Zenon DEF CompletionFn
<1> QED
  BY <1>1, <1>2, <1>3, Zenon

\* What the engine and the lanes do.
LEMMA QueueStepReady ==
  ASSUME QueueTypes, ReadyInv, EngineStep \/ \E l \in 1 .. NumLanes : LaneStep(l)
  PROVE  ReadyInv'
<1> USE DEF queueVars
<1>0. /\ step \in [Jobs -> Steps] /\ readyPriorityJobs \in Seq(HasDeps)
      /\ readyJobs \in Seq(Jobs) /\ HasDeps \in SUBSET Jobs
  BY JobsAssumption, Zenon DEF QueueTypes
<1>1. ASSUME NEW j \in Jobs, AddJob(j) PROVE ReadyInv'
  <2>1. /\ step[j] = "new" /\ readyJobs' = Append(readyJobs, j)
        /\ step' = [step EXCEPT ![j] = "ready"] /\ readyPriorityJobs' = readyPriorityJobs
    BY <1>1, Zenon DEF AddJob
  <2>2. Holds(readyJobs, "ready")'
    BY <1>0, <2>1, HoldsOneMore DEF ReadyInv, Holds
  <2>3. \A n \in DOMAIN readyPriorityJobs :
          step'[readyPriorityJobs[n]] = step[readyPriorityJobs[n]]
    BY <1>0, <2>1 DEF ReadyInv, Holds
  <2> QED
    BY <2>1, <2>2, <2>3 DEF ReadyInv, Holds
<1>2. CASE ReleaseQueue \/ JoinLanes \/ JoinKiller \/ DestroyGroup
  BY <1>2, ReadyKept, Zenon DEF ReleaseQueue, JoinLanes, JoinKiller, DestroyGroup
<1>3. ASSUME NEW l \in Lanes, TakeJob(l), readyPriorityJobs # << >> PROVE ReadyInv'
  <2> DEFINE j == readyPriorityJobs[1]
             rest == Tail(readyPriorityJobs)
  <2>1. /\ 1 \in DOMAIN readyPriorityJobs /\ j \in Jobs
        /\ rest \in Seq(HasDeps) /\ Rest(rest, readyPriorityJobs, 1)
    BY <1>0, <1>3 DEF Rest
  <2>2. /\ step' = [step EXCEPT ![j] = "deps"] /\ readyPriorityJobs' = rest
        /\ readyJobs' = readyJobs
    BY <1>0, <1>3 DEF TakeJob
  <2>3. Holds(readyPriorityJobs, "depsReady")
    BY Zenon DEF ReadyInv
  <2> HIDE DEF rest
  <2>4. Holds(readyPriorityJobs, "depsReady")'
    <3>0. \A i \in Jobs : i # readyPriorityJobs[1] => step'[i] = step[i]
      BY <1>0, <2>2, Zenon
    <3>1. \A k \in DOMAIN rest :
            /\ step'[rest[k]] = "depsReady"
            /\ \A m \in DOMAIN rest : rest[m] = rest[k] => m = k
      BY <1>0, <2>1, <2>3, <3>0, HoldsOneLess, SMTT(60)
    <3> QED
      BY <2>2, <3>1, Zenon DEF Holds
  <2>5. \A n \in DOMAIN readyJobs : step'[readyJobs[n]] = step[readyJobs[n]]
    <3>1. step[j] = "depsReady"
      BY <2>1, <2>3, Zenon DEF Holds
    <3> HIDE DEF j
    <3> QED
      BY <1>0, <2>1, <2>2, <3>1 DEF ReadyInv, Holds
  <2> QED
    BY <2>2, <2>4, <2>5 DEF ReadyInv, Holds
<1>4. ASSUME NEW l \in Lanes, TakeJob(l), readyPriorityJobs = << >> PROVE ReadyInv'
  <2>1. PICK n \in DOMAIN readyJobs :
          /\ step' = [step EXCEPT ![readyJobs[n]] = "execute"]
          /\ readyJobs' = SubSeq(readyJobs, 1, n - 1)
                            \o SubSeq(readyJobs, n + 1, Len(readyJobs))
          /\ readyPriorityJobs' = readyPriorityJobs
    BY <1>4, Zenon DEF TakeJob
  <2>2. readyJobs' \in Seq(Jobs) /\ Rest(readyJobs', readyJobs, n)
    BY <1>0, <2>1, TakeOut, Zenon
  <2>3. Holds(readyJobs, "ready") /\ Jobs \in SUBSET Jobs
    BY Zenon DEF ReadyInv
  <2>4. Holds(readyJobs, "ready")'
    <3> DEFINE rest == readyJobs'
    <3>0. \A i \in Jobs : i # readyJobs[n] => step'[i] = step[i]
      BY <1>0, <2>1, Zenon
    <3>1. \A k \in DOMAIN rest :
            /\ step'[rest[k]] = "ready"
            /\ \A m \in DOMAIN rest : rest[m] = rest[k] => m = k
      BY <1>0, <2>2, <2>3, <3>0, HoldsOneLess
    <3> QED
      BY <3>1, Zenon DEF Holds
  <2>5. Holds(readyPriorityJobs, "depsReady")'
    BY <1>4, <2>1 DEF Holds
  <2> QED
    BY <2>4, <2>5, Zenon DEF ReadyInv
<1>5. ASSUME NEW l \in 1 .. NumLanes, FindNoJob(l) \/ FinishJob(l) \/ WakeSpuriously(l)
      PROVE  ReadyInv'
  BY <1>5, ReadyKept, Zenon DEF FindNoJob, FinishJob, WakeSpuriously
<1> QED
  BY <1>1, <1>2, <1>3, <1>4, <1>5, Zenon DEF EngineStep, LaneStep, TakeJob

\* What the thread that handles a job does, what may fail on its way, and what its
\* process does.
LEMMA JobStepReady ==
  ASSUME QueueTypes, ReadyInv, NEW j \in Jobs, ThreadStep(j) \/ FaultStep(j) \/ ProcessStep(j)
  PROVE  ReadyInv'
<1> USE DEF queueVars
<1>0. {"execute", "spawn", "poll", "refused", "wait", "reaped", "removed", "deps", "cancel",
       "cancelling", "complete", "deadlocked", "abandoned"} \subseteq Away
  BY DEF Steps, Away
<1>1. CASE ExecuteProcess(j)
  BY <1>0, <1>1, CompletionFnReady, ReadyKept, Zenon DEF ExecuteProcess
<1>2. CASE SpawnProcess(j) \/ PipesClosed(j) \/ RefuseRelease(j) \/ Wait4(j) \/ RemoveProcess(j)
  BY <1>0, <1>2, ReadyKept DEF SpawnProcess, PipesClosed, RefuseRelease, Wait4, RemoveProcess
<1>3. CASE SkipSpawn(j) \/ SpawnFails(j) \/ ReportProcess(j)
  BY <1>0, <1>3, CompletionFnReady, Zenon DEF SkipSpawn, SpawnFails, ReportProcess
<1>4. CASE PipesFail(j)
  BY <1>0, <1>4, CompletionFnReady, ReadyKept, Zenon DEF PipesFail
<1>5. CASE PollFails(j) \/ ReleaseLane(j) \/ EndBackground(j)
  BY <1>0, <1>5, ReadyKept, Zenon DEF PollFails, ReleaseLane, EndBackground
<1>6. ASSUME NEW result \in {"succeeded", "failed"}, ReadDeps(j, result) PROVE ReadyInv'
  BY <1>0, <1>6, ReadyKept, Zenon DEF ReadDeps
<1>7. CASE CancelFromJob(j) \/ CancelAgain(j)
  BY <1>0, <1>7, ReadyKept, Zenon DEF CancelFromJob, CloseGroup, CancelAgain, ToldEngine
<1>8. ASSUME NEW how, ProcessEnds(j, how) PROVE ReadyInv'
  BY <1>8, ReadyKept, Zenon DEF ProcessEnds
<1> QED
  BY <1>1, <1>2, <1>3, <1>4, <1>5, <1>6, <1>7, <1>8, Zenon DEF ThreadStep, FaultStep, ProcessStep

\* The steps of a cancellation, and none.
LEMMA CancelStepReady ==
  ASSUME QueueTypes, ReadyInv, CancelFromClient \/ CancelStep \/ UNCHANGED vars
  PROVE  ReadyInv'
<1>1. UNCHANGED <<readyJobs, readyPriorityJobs>>
  BY Zenon DEF CancelFromClient, CloseGroup, CancelStep, InterruptAll, StartKiller, KillerStarts,
         KillAll, queueVars, vars
<1>2. \/ step' = step
      \/ \E j \in Jobs : step[j] = "cancelling" /\ step' = [step EXCEPT ![j] = "complete"]
  BY Zenon DEF CancelFromClient, CloseGroup, CancelStep, InterruptAll, StartKiller, KillerStarts,
         KillAll, ToldEngine, vars
<1>3. {"cancelling", "complete"} \subseteq Away
  BY Zenon DEF Steps, Away
<1> QED
  BY <1>1, <1>2, <1>3, ReadyKept, Zenon

\* The invariant holds throughout, with the types and the limits.
LEMMA ReadyAlways == Spec => [](QueueTypes /\ FilesFit /\ ReadyInv)
<1>1. Init => QueueTypes /\ FilesFit /\ ReadyInv
  BY InitTypes DEF Init, ReadyInv, Holds
<1>2. QueueTypes /\ FilesFit /\ ReadyInv /\ [Next]_vars => (QueueTypes /\ FilesFit /\ ReadyInv)'
  <2> SUFFICES ASSUME QueueTypes, FilesFit, ReadyInv, [Next]_vars
               PROVE  QueueTypes' /\ FilesFit' /\ ReadyInv'
    BY Zenon
  <2>1. QueueTypes'
    BY NextTypes, Zenon
  <2>2. ReadyInv'
    BY QueueStepReady, JobStepReady, CancelStepReady, Zenon DEF Next
  <2>3. FilesFit'
    BY LimitsStay, Zenon DEF FilesFit
  <2> QED
    BY <2>1, <2>2, <2>3, Zenon
<1> QED
  BY <1>1, <1>2, PTL DEF Spec
-----------------------------------------------------------------------------
(***************************************************************************)
(* Open files.  A job whose pipes are open has a lane, or a detached       *)
(* thread that backgroundTaskCount counts.  releaseFn counts a job before  *)
(* it knows whether it may release its lane, so the counter is the number  *)
(* of detached threads and of the jobs about to be refused.                *)
(***************************************************************************)
Later == {"wait", "reaped", "removed", "depsReady", "deps", "cancel", "cancelling", "complete"}
Served == {"execute", "spawn", "poll", "refused", "wait"}
Started == {"poll", "refused", "wait", "reaped", "removed", "abandoned"}

Serves(l, j) == lane[l].job = j /\ lane[l].at \in {"command", "deps"}

JobInv(j) ==
  /\ background[j] # "none" => step[j] \in Later
  /\ step[j] \in Served => background[j] = "wait" \/ \E l \in Lanes : Serves(l, j)
  /\ j \in reporting => step[j] \in Started

Refused == {j \in Jobs : step[j] = "refused"}
Spread == {j \in Jobs : background[j] # "none"}

CountInv ==
  /\ IsFiniteSet(Refused) /\ IsFiniteSet(Spread)
  /\ backgroundTaskCount = Cardinality(Refused) + Cardinality(Spread)
  /\ Cardinality(Spread) <= limits.background

ServeInv == (\A j \in Jobs : JobInv(j)) /\ CountInv

\* What happens to one job leaves the others alone, if the lanes that work for them do.
OnlyJob(j) ==
  /\ \A i \in Jobs \ {j} : /\ step'[i] = step[i] /\ background'[i] = background[i]
                           /\ i \in reporting' => i \in reporting
  /\ \A l \in Lanes : lane[l].at \in {"command", "deps"} /\ lane[l].job # j => lane'[l] = lane[l]

\* A step of one job leaves the lanes and threads of the others alone.
LEMMA OthersKept ==
  ASSUME QueueTypes, \A i \in Jobs : JobInv(i), limits' = limits, NEW j \in Jobs, OnlyJob(j),
         JobInv(j)'
  PROVE  \A i \in Jobs : JobInv(i)'
<1> SUFFICES ASSUME NEW i \in Jobs, i # j PROVE JobInv(i)'
  BY Zenon
<1>1. /\ JobInv(i) /\ Lanes' = Lanes
      /\ step'[i] = step[i] /\ background'[i] = background[i] /\ (i \in reporting' => i \in reporting)
  BY Zenon DEF OnlyJob, Lanes
<1>2. \A l \in Lanes : Serves(l, i) => Serves(l, i)'
  BY Zenon DEF OnlyJob, Serves
<1> QED
  BY <1>1, <1>2, Zenon DEF JobInv

\* The counters agree when no job comes to or leaves what they count.
LEMMA CountKept ==
  ASSUME CountInv, limits' = limits, backgroundTaskCount' = backgroundTaskCount,
         \A i \in Jobs : /\ step'[i] = "refused" <=> step[i] = "refused"
                         /\ background'[i] = "none" <=> background[i] = "none"
  PROVE  CountInv'
<1>1. Refused' = Refused /\ Spread' = Spread
  BY Zenon DEF Refused, Spread
<1> QED
  BY <1>1, Zenon DEF CountInv

\* The completion function ends what a lane or a detached thread does for a job.
LEMMA CompletionFnServes ==
  ASSUME QueueTypes, ServeInv, NEW j \in Jobs, step[j] \in {"execute", "spawn", "removed"},
         NEW result, CompletionFn(j, result), limits' = limits,
         backgroundTaskCount' = backgroundTaskCount,
         reporting' \subseteq reporting, step[j] = "removed" => j \notin reporting'
  PROVE  ServeInv'
<1>1. \E to \in {"depsReady", "cancel", "complete"} : step' = [step EXCEPT ![j] = to]
  BY Zenon DEF CompletionFn
<1>2. background' \in {background, Detached(j)}
  BY Zenon DEF CompletionFn
<1>3. /\ \A i \in Jobs : background'[i] = "none" <=> background[i] = "none"
      /\ \A i \in Jobs \ {j} : background'[i] = background[i]
  BY <1>2, Zenon DEF Detached, QueueTypes
<1>4. /\ step'[j] \in {"depsReady", "cancel", "complete"}
      /\ \A i \in Jobs \ {j} : step'[i] = step[i]
  BY <1>1, Zenon DEF QueueTypes
<1>5. \A l \in Lanes : lane[l].at \in {"command", "deps"} /\ lane[l].job # j => lane'[l] = lane[l]
  <2> DEFINE returned == Returned(j)
  <2>1. lane' \in {lane, returned} \/ \E l \in Waiting : lane' = Woken(returned, l)
    BY Zenon DEF CompletionFn
  <2>2. /\ returned \in [Lanes -> [at : LaneStates, job : Jobs \cup {NoJob}]]
        /\ \A l \in Lanes : lane[l].job # j => returned[l] = lane[l]
    BY ReturnedTypes, Zenon
  <2> HIDE DEF returned
  <2> QED
    BY <2>1, <2>2, Zenon DEF Woken, Waiting
<1>6. OnlyJob(j)
  BY <1>3, <1>4, <1>5, Zenon DEF OnlyJob
<1>7. j \notin reporting'
  BY Zenon DEF ServeInv, JobInv, Started
<1>8. JobInv(j)'
  BY <1>4, <1>7, Zenon DEF JobInv, Later, Served
<1>9. CountInv'
  BY <1>3, <1>4, CountKept, Zenon DEF ServeInv
<1> QED
  BY <1>6, <1>8, <1>9, OthersKept, Zenon DEF ServeInv

\* A job goes on to another step, and stays with the thread it has.
LEMMA ServeMoves ==
  ASSUME QueueTypes, ServeInv, NEW j \in Jobs, NEW to, step' = [step EXCEPT ![j] = to],
         "refused" \notin {to, step[j]}, UNCHANGED <<limits, background, backgroundTaskCount>>,
         step[j] \in Later => to \in Later,
         to \in Served => step[j] \in Served,
         \A i \in Jobs \ {j} : i \in reporting' => i \in reporting,
         j \in reporting' => to \in Started,
         \A l \in Lanes : lane[l].at \in {"command", "deps"} => lane'[l] = lane[l]
  PROVE  ServeInv'
<1>1. step'[j] = to /\ \A i \in Jobs \ {j} : step'[i] = step[i]
  BY Zenon DEF QueueTypes
<1>2. OnlyJob(j)
  BY <1>1, Zenon DEF OnlyJob
<1>3. JobInv(j)'
  <2>1. \A l \in Lanes : Serves(l, j) => Serves(l, j)'
    BY Zenon DEF Serves
  <2> QED
    BY <1>1, <2>1, Zenon DEF ServeInv, JobInv, Lanes
<1>4. CountInv'
  BY <1>1, CountKept, Zenon DEF ServeInv
<1> QED
  BY <1>2, <1>3, <1>4, OthersKept, Zenon DEF ServeInv

\* A job with no thread left goes to a step that needs none.
LEMMA ServeEnds ==
  ASSUME QueueTypes, ServeInv, NEW j \in Jobs, NEW to, step' = [step EXCEPT ![j] = to],
         "refused" \notin {to, step[j]}, UNCHANGED <<limits, backgroundTaskCount>>,
         background' \in {background, Detached(j)}, lane' \in {lane, Returned(j)},
         to \notin Served, step[j] \in Later => to \in Later, reporting' = reporting,
         j \in reporting => to \in Started
  PROVE  ServeInv'
<1>1. step'[j] = to /\ \A i \in Jobs \ {j} : step'[i] = step[i]
  BY Zenon DEF QueueTypes
<1>2. /\ \A i \in Jobs : background'[i] = "none" <=> background[i] = "none"
      /\ \A i \in Jobs \ {j} : background'[i] = background[i]
  BY Zenon DEF Detached, QueueTypes
<1>3. OnlyJob(j)
  BY <1>1, <1>2, ReturnedTypes DEF OnlyJob
<1>4. JobInv(j)'
  BY <1>1, <1>2, Zenon DEF ServeInv, JobInv
<1>5. CountInv'
  BY <1>1, <1>2, CountKept, Zenon DEF ServeInv
<1> QED
  BY <1>3, <1>4, <1>5, OthersKept, Zenon DEF ServeInv

\* Nothing happens to a job.
LEMMA ServeIdle ==
  ASSUME QueueTypes, ServeInv,
         UNCHANGED <<limits, step, background, backgroundTaskCount, reporting>>,
         \A l \in Lanes : lane[l].at \in {"command", "deps"} => lane'[l] = lane[l]
  PROVE  ServeInv'
<1>1. ASSUME NEW j \in Jobs PROVE JobInv(j)'
  <2>1. \A l \in Lanes : Serves(l, j) => Serves(l, j)'
    BY Zenon DEF Serves
  <2> QED
    BY <2>1, Zenon DEF ServeInv, JobInv, Lanes
<1>2. CountInv'
  BY CountKept, Zenon DEF ServeInv
<1> QED
  BY <1>1, <1>2, Zenon DEF ServeInv

\* What the engine and the lanes do.
LEMMA QueueStepServes ==
  ASSUME QueueTypes, ReadyInv, ServeInv, EngineStep \/ \E l \in 1 .. NumLanes : LaneStep(l)
  PROVE  ServeInv'
<1> USE DEF queueVars, processVars
<1>0. lane \in [Lanes -> [at : LaneStates, job : Jobs \cup {NoJob}]]
  BY Zenon DEF QueueTypes
<1>1. ASSUME NEW j \in Jobs, AddJob(j) PROVE ServeInv'
  <2>1. /\ step[j] = "new" /\ step' = [step EXCEPT ![j] = "ready"]
        /\ UNCHANGED <<limits, background, backgroundTaskCount, reporting>>
    BY <1>1, Zenon DEF AddJob
  <2>2. \A l \in Lanes : lane[l].at \in {"command", "deps"} => lane'[l] = lane[l]
    BY <1>0, <1>1, Zenon DEF AddJob, NotifyOne, Woken, Waiting
  <2>3. j \notin reporting
    BY <2>1, Zenon DEF ServeInv, JobInv, Started
  <2> QED
    BY <2>1, <2>2, <2>3, ServeMoves, Zenon DEF Later, Served
<1>2. CASE ReleaseQueue
  <2>1. \A l \in Lanes : lane[l].at \in {"command", "deps"} => lane'[l] = lane[l]
    BY <1>2, Zenon DEF ReleaseQueue, NotifyAll, Waiting
  <2> QED
    BY <1>2, <2>1, ServeIdle, Zenon DEF ReleaseQueue
<1>3. CASE JoinLanes \/ JoinKiller \/ DestroyGroup
  BY <1>3, ServeIdle, Zenon DEF JoinLanes, JoinKiller, DestroyGroup
<1>4. ASSUME NEW l \in Lanes, TakeJob(l), readyPriorityJobs # << >> PROVE ServeInv'
  <2> DEFINE j == Head(readyPriorityJobs)
  <2>1. readyPriorityJobs \in Seq(HasDeps) /\ HasDeps \subseteq Jobs
    BY JobsAssumption, Zenon DEF QueueTypes
  <2>2. j \in Jobs /\ 1 \in DOMAIN readyPriorityJobs /\ j = readyPriorityJobs[1]
    BY <1>4, <2>1
  <2>3. step[j] = "depsReady"
    BY <2>2, Zenon DEF ReadyInv, Holds
  <2>4. /\ step' = [step EXCEPT ![j] = "deps"] /\ lane[l].at = "take"
        /\ lane' = [lane EXCEPT ![l] = [at |-> "deps", job |-> j]]
        /\ UNCHANGED <<limits, background, backgroundTaskCount, reporting>>
    BY <1>4, Zenon DEF TakeJob
  <2> HIDE DEF j
  <2>5. \A m \in Lanes : lane[m].at \in {"command", "deps"} => lane'[m] = lane[m]
    BY <1>0, <2>4, Zenon
  <2>6. j \notin reporting
    BY <2>2, <2>3, Zenon DEF ServeInv, JobInv, Started
  <2> QED
    BY <2>2, <2>3, <2>4, <2>5, <2>6, ServeMoves, Zenon DEF Later, Served
<1>5. ASSUME NEW l \in Lanes, TakeJob(l), readyPriorityJobs = << >> PROVE ServeInv'
  <2>1. PICK n \in DOMAIN readyJobs :
          /\ lane[l].at = "take"
          /\ lane' = [lane EXCEPT ![l] = [at |-> "command", job |-> readyJobs[n]]]
          /\ step' = [step EXCEPT ![readyJobs[n]] = "execute"]
          /\ UNCHANGED <<limits, background, backgroundTaskCount, reporting>>
    BY <1>5, Zenon DEF TakeJob, processVars
  <2>2. PICK j \in Jobs : j = readyJobs[n]
    BY <2>1 DEF QueueTypes
  <2>3. step[j] = "ready"
    BY <2>1, <2>2, Zenon DEF ReadyInv, Holds
  <2>4. /\ lane' = [lane EXCEPT ![l] = [at |-> "command", job |-> j]]
        /\ step' = [step EXCEPT ![j] = "execute"]
    BY <2>1, <2>2, Zenon
  <2>5. Serves(l, j)' /\ Lanes' = Lanes
    BY <1>0, <2>1, <2>4 DEF Serves, Lanes
  <2>6. step'[j] = "execute" /\ \A i \in Jobs \ {j} : step'[i] = step[i]
    BY <2>2, <2>4, Zenon DEF QueueTypes
  <2>7. OnlyJob(j)
    BY <1>0, <2>1, <2>4, <2>6, Zenon DEF OnlyJob
  <2>8. JobInv(j)'
    BY <2>1, <2>2, <2>3, <2>5, <2>6, Zenon DEF ServeInv, JobInv, Later, Served, Started
  <2>9. CountInv'
    BY <2>1, <2>2, <2>3, <2>6, CountKept, Zenon DEF ServeInv
  <2> QED
    BY <2>1, <2>2, <2>7, <2>8, <2>9, OthersKept, Zenon DEF ServeInv
<1>6. ASSUME NEW l \in 1 .. NumLanes, FindNoJob(l) \/ FinishJob(l) \/ WakeSpuriously(l)
      PROVE  ServeInv'
  <2>1. \A m \in Lanes : lane[m].at \in {"command", "deps"} => lane'[m] = lane[m]
    BY <1>0, <1>6, Zenon DEF FindNoJob, FinishJob, WakeSpuriously, Woken
  <2> QED
    BY <1>6, <2>1, ServeIdle, Zenon DEF FindNoJob, FinishJob, WakeSpuriously
<1> QED
  BY <1>1, <1>2, <1>3, <1>4, <1>5, <1>6, Zenon DEF EngineStep, LaneStep, TakeJob

\* releaseFn, and what takes its count back.
LEMMA CounterServes ==
  ASSUME QueueTypes, ServeInv, NEW j \in Jobs,
         ReleaseLane(j) \/ RefuseRelease(j) \/ EndBackground(j)
  PROVE  ServeInv'
<1> USE DEF queueVars, processVars
<1>0. /\ limits' = limits /\ reporting' = reporting /\ limits.background \in Nat
      /\ step \in [Jobs -> Steps] /\ background \in [Jobs -> {"none", "wait", "decrement"}]
  BY Zenon DEF ReleaseLane, RefuseRelease, EndBackground, QueueTypes
<1>1. /\ IsFiniteSet(Refused) /\ Cardinality(Refused) \in Nat
      /\ IsFiniteSet(Spread) /\ Cardinality(Spread) \in Nat
      /\ backgroundTaskCount = Cardinality(Refused) + Cardinality(Spread)
      /\ Cardinality(Spread) <= limits.background
  BY FS_CardinalityType, Zenon DEF ServeInv, CountInv
<1>2. JobInv(j) /\ \A l \in Lanes : Returned(j)[l] = lane[l] \/ lane[l].job = j
  BY ReturnedTypes, Zenon DEF ServeInv
<1>3. CASE /\ step[j] = "poll" /\ backgroundTaskCount < limits.background
           /\ backgroundTaskCount' = backgroundTaskCount + 1
           /\ step' = [step EXCEPT ![j] = "wait"]
           /\ background' = [background EXCEPT ![j] = "wait"] /\ lane' = Returned(j)
  <2>1. background[j] = "none"
    BY <1>2, <1>3, Zenon DEF JobInv, Later
  <2>2. OnlyJob(j)
    BY <1>0, <1>2, <1>3, Zenon DEF OnlyJob
  <2>3. JobInv(j)'
    BY <1>0, <1>3, Zenon DEF JobInv, Later, Started
  <2>4. Refused' = Refused
    BY <1>0, <1>3, Zenon DEF Refused
  <2>5. Spread' = Spread \cup {j} /\ j \notin Spread
    BY <1>0, <1>3, <2>1, Zenon DEF Spread
  <2>6. IsFiniteSet(Spread') /\ Cardinality(Spread') = Cardinality(Spread) + 1
    BY <1>1, <2>5, FS_AddElement, Zenon
  <2>7. CountInv'
    BY <1>0, <1>1, <1>3, <2>4, <2>6 DEF CountInv
  <2> QED
    BY <1>0, <2>2, <2>3, <2>7, OthersKept, Zenon DEF ServeInv
<1>4. CASE /\ step[j] = "poll" /\ backgroundTaskCount' = backgroundTaskCount + 1
           /\ step' = [step EXCEPT ![j] = "refused"] /\ UNCHANGED <<background, lane>>
  <2>1. OnlyJob(j)
    BY <1>0, <1>4, Zenon DEF OnlyJob
  <2>2. JobInv(j)'
    BY <1>0, <1>2, <1>4, Zenon DEF JobInv, Later, Started, Served, Serves, Lanes
  <2>3. Spread' = Spread
    BY <1>4, Zenon DEF Spread
  <2>4. Refused' = Refused \cup {j} /\ j \notin Refused
    BY <1>0, <1>4, Zenon DEF Refused
  <2>5. IsFiniteSet(Refused') /\ Cardinality(Refused') = Cardinality(Refused) + 1
    BY <1>1, <2>4, FS_AddElement, Zenon
  <2>6. CountInv'
    BY <1>0, <1>1, <1>4, <2>3, <2>5 DEF CountInv
  <2> QED
    BY <1>0, <2>1, <2>2, <2>6, OthersKept, Zenon DEF ServeInv
<1>5. CASE RefuseRelease(j)
  <2>1. /\ step[j] = "refused" /\ step' = [step EXCEPT ![j] = "wait"]
        /\ backgroundTaskCount' = backgroundTaskCount - 1 /\ UNCHANGED <<background, lane>>
    BY <1>5, Zenon DEF RefuseRelease
  <2>2. OnlyJob(j)
    BY <1>0, <2>1, Zenon DEF OnlyJob
  <2>3. JobInv(j)'
    BY <1>0, <1>2, <2>1, Zenon DEF JobInv, Later, Started, Served, Serves, Lanes
  <2>4. Spread' = Spread
    BY <2>1, Zenon DEF Spread
  <2>5. Refused' = Refused \ {j} /\ j \in Refused
    BY <1>0, <2>1, Zenon DEF Refused
  <2>6. IsFiniteSet(Refused') /\ Cardinality(Refused') = Cardinality(Refused) - 1
    BY <1>1, <2>5, FS_RemoveElement, Zenon
  <2>7. CountInv'
    BY <1>0, <1>1, <2>1, <2>4, <2>6 DEF CountInv
  <2> QED
    BY <1>0, <2>2, <2>3, <2>7, OthersKept, Zenon DEF ServeInv
<1>6. CASE EndBackground(j)
  <2>1. /\ background[j] = "decrement" /\ background' = [background EXCEPT ![j] = "none"]
        /\ backgroundTaskCount' = backgroundTaskCount - 1 /\ UNCHANGED <<step, lane>>
    BY <1>6, Zenon DEF EndBackground
  <2>2. OnlyJob(j)
    BY <1>0, <2>1, Zenon DEF OnlyJob
  <2>3. JobInv(j)'
    BY <1>0, <1>2, <2>1, Zenon DEF JobInv, Served, Serves, Lanes
  <2>4. Refused' = Refused
    BY <2>1, Zenon DEF Refused
  <2>5. Spread' = Spread \ {j} /\ j \in Spread
    BY <1>0, <2>1, Zenon DEF Spread
  <2>6. IsFiniteSet(Spread') /\ Cardinality(Spread') = Cardinality(Spread) - 1
    BY <1>1, <2>5, FS_RemoveElement, Zenon
  <2>7. CountInv'
    BY <1>0, <1>1, <2>1, <2>4, <2>6 DEF CountInv
  <2> QED
    BY <1>0, <2>2, <2>3, <2>7, OthersKept, Zenon DEF ServeInv
<1> QED
  BY <1>3, <1>4, <1>5, <1>6, Zenon DEF ReleaseLane

\* What else the thread that handles a job does, what may fail on its way, and what its
\* process does.
LEMMA JobStepServes ==
  ASSUME QueueTypes, ServeInv, NEW j \in Jobs, ThreadStep(j) \/ FaultStep(j) \/ ProcessStep(j)
  PROVE  ServeInv'
<1> USE DEF queueVars, processVars
<1>0. j \in reporting => step[j] \in Started
  BY Zenon DEF ServeInv, JobInv
<1>1. CASE ExecuteProcess(j)
  <2>1. step[j] = "execute" /\ j \notin reporting
    BY <1>0, <1>1, Zenon DEF ExecuteProcess, Started
  <2>2. CASE cancelled
    BY <1>1, <2>1, <2>2, CompletionFnServes, Zenon DEF ExecuteProcess
  <2>3. CASE ~cancelled
    BY <1>1, <2>1, <2>3, ServeMoves, Zenon DEF ExecuteProcess, Later, Served
  <2> QED
    BY <2>2, <2>3, Zenon
<1>2. CASE SpawnProcess(j)
  BY <1>2, ServeMoves, Zenon DEF SpawnProcess, Later, Served, Started
<1>3. CASE PipesClosed(j)
  BY <1>3, ServeMoves, Zenon DEF PipesClosed, Later, Served, Started
<1>4. CASE Wait4(j) \/ RemoveProcess(j)
  BY <1>4, ServeMoves, Zenon DEF Wait4, RemoveProcess, Later, Served, Started
<1>5. CASE SkipSpawn(j) \/ SpawnFails(j)
  <2>1. step[j] = "spawn" /\ j \notin reporting
    BY <1>0, <1>5, Zenon DEF SkipSpawn, SpawnFails, Started
  <2> QED
    BY <1>5, <2>1, CompletionFnServes, Zenon DEF SkipSpawn, SpawnFails
<1>6. CASE ReportProcess(j)
  BY <1>6, CompletionFnServes, Zenon DEF ReportProcess
<1>7. CASE PipesFail(j)
  <2>1. step[j] = "spawn" /\ j \notin reporting
    BY <1>0, <1>7, Zenon DEF PipesFail, Started
  <2>2. CASE CancelOnFailure
    BY <1>7, <2>1, <2>2, ServeMoves, Zenon DEF PipesFail, Later, Served
  <2>3. CASE ~CancelOnFailure
    BY <1>7, <2>1, <2>3, CompletionFnServes, Zenon DEF PipesFail
  <2> QED
    BY <2>2, <2>3, Zenon
<1>8. CASE PollFails(j)
  BY <1>8, ServeEnds, Zenon DEF PollFails, Later, Served, Started
<1>9. ASSUME NEW result \in {"succeeded", "failed"}, ReadDeps(j, result) PROVE ServeInv'
  <2>1. step[j] = "deps" /\ j \notin reporting
    BY <1>0, <1>9, Zenon DEF ReadDeps, Started
  <2> QED
    BY <1>9, <2>1, ServeEnds, Zenon DEF ReadDeps, Later, Served
<1>10. CASE CancelFromJob(j)
  <2>1. step[j] = "cancel" /\ j \notin reporting
    BY <1>0, <1>10, Zenon DEF CancelFromJob, Started
  <2>2. \A l \in Lanes : lane[l].at \in {"command", "deps"} => lane'[l] = lane[l]
    BY <1>10, Zenon DEF CancelFromJob, CloseGroup, NotifyAll, Waiting
  <2> QED
    BY <1>10, <2>1, <2>2, ServeMoves, Zenon DEF CancelFromJob, CloseGroup, Later, Served
<1>11. CASE CancelAgain(j)
  <2>1. step[j] = "cancel" /\ j \notin reporting
    BY <1>0, <1>11, Zenon DEF CancelAgain, Started
  <2> QED
    BY <1>11, <2>1, ServeEnds, Zenon DEF CancelAgain, ToldEngine, Later, Served
<1>12. ASSUME NEW how, ProcessEnds(j, how) PROVE ServeInv'
  BY <1>12, ServeIdle, Zenon DEF ProcessEnds
<1> QED
  BY <1>1, <1>2, <1>3, <1>4, <1>5, <1>6, <1>7, <1>8, <1>9, <1>10, <1>11, <1>12, CounterServes, Zenon
  DEF ThreadStep, FaultStep, ProcessStep

\* The steps of a cancellation, and none.
LEMMA CancelStepServes ==
  ASSUME QueueTypes, ServeInv, CancelFromClient \/ CancelStep \/ UNCHANGED vars
  PROVE  ServeInv'
<1> USE DEF queueVars, processVars
<1>1. CASE CancelFromClient
  <2>1. \A l \in Lanes : lane[l].at \in {"command", "deps"} => lane'[l] = lane[l]
    BY <1>1, Zenon DEF CancelFromClient, CloseGroup, NotifyAll, Waiting
  <2> QED
    BY <1>1, <2>1, ServeIdle, Zenon DEF CancelFromClient, CloseGroup
<1>2. CASE InterruptAll \/ KillerStarts \/ KillAll \/ UNCHANGED vars
  BY <1>2, ServeIdle, Zenon DEF InterruptAll, KillerStarts, KillAll, vars
<1>3. CASE StartKiller
  <2>1. UNCHANGED <<limits, backgroundTaskCount, reporting>>
    BY <1>3, Zenon DEF StartKiller
  <2>2. CASE UNCHANGED <<step, lane, background>>
    BY <2>1, <2>2, ServeIdle, Zenon
  <2>3. ASSUME NEW j \in Jobs, step[j] = "cancelling", ToldEngine(j) PROVE ServeInv'
    <3>1. j \notin reporting
      BY <2>3, Zenon DEF ServeInv, JobInv, Started
    <3> QED
      BY <2>1, <2>3, <3>1, ServeEnds, Zenon DEF ToldEngine, Later, Served
  <2> QED
    BY <1>3, <2>2, <2>3, Zenon DEF StartKiller
<1> QED
  BY <1>1, <1>2, <1>3, Zenon DEF CancelStep

\* The invariant holds throughout.
LEMMA ServeAlways == Spec => []ServeInv
<1>1. Init => ServeInv
  <2> SUFFICES ASSUME Init PROVE ServeInv
    BY Zenon
  <2>1. Refused = {} /\ Spread = {}
    BY Zenon DEF Init, Refused, Spread
  <2>2. limits.background \in Nat /\ backgroundTaskCount = 0
    BY InitTypes, Zenon DEF QueueTypes, Init
  <2>3. CountInv
    BY <2>1, <2>2, FS_EmptySet DEF CountInv
  <2> QED
    BY <2>3, Zenon DEF Init, ServeInv, JobInv, Served
<1>2. QueueTypes /\ ReadyInv /\ ServeInv /\ [Next]_vars => ServeInv'
  BY QueueStepServes, JobStepServes, CancelStepServes, Zenon DEF Next
<1> QED
  BY <1>1, <1>2, ReadyAlways, PTL DEF Spec

\* The jobs the lanes have.
Held == {lane[l].job : l \in Lanes}

\* There are not more of them than lanes.
LEMMA HeldIsBounded ==
  ASSUME QueueTypes
  PROVE  IsFiniteSet(Held) /\ Cardinality(Held) <= limits.lanes
<1> DEFINE f == [l \in Lanes |-> lane[l].job]
<1>1. f \in Surjection(Lanes, Held)
  BY Zenon DEF Surjection, Held
<1>2. IsFiniteSet(Lanes) /\ Cardinality(Lanes) = limits.lanes
  BY LanesFinite, Zenon
<1> HIDE DEF f
<1> QED
  BY <1>1, <1>2, FS_Surjection

\* The pipes of the processes that run at a time fit in the limit on open files, for
\* whatever limit the system imposes, number of lanes and limit on background tasks.
THEOREM OpenFilesFit == Spec => []FilesAreBounded
<1>1. QueueTypes /\ FilesFit /\ ServeInv => FilesAreBounded
  <2> SUFFICES ASSUME QueueTypes, FilesFit, ServeInv,
                      limits.files >= ReservedFileCount + FilesPerTask
               PROVE  LET open == {j \in Jobs \ Console : step[j] \in {"poll", "refused", "wait"}}
                      IN  ReservedFileCount + FilesPerTask * Cardinality(open) <= limits.files
    BY Zenon DEF FilesAreBounded
  <2> DEFINE open == {j \in Jobs \ Console : step[j] \in {"poll", "refused", "wait"}}
  <2>1. open \subseteq Held \cup Spread
    BY DEF ServeInv, JobInv, Served, Serves, Held, Spread
  <2>2. /\ IsFiniteSet(Held) /\ Cardinality(Held) <= limits.lanes /\ Cardinality(Held) \in Nat
        /\ IsFiniteSet(Spread) /\ Cardinality(Spread) <= limits.background
        /\ Cardinality(Spread) \in Nat
    BY HeldIsBounded, FS_CardinalityType, Zenon DEF ServeInv, CountInv
  <2>3. /\ IsFiniteSet(Held \cup Spread)
        /\ Cardinality(Held \cup Spread) =
             Cardinality(Held) + Cardinality(Spread) - Cardinality(Held \cap Spread)
        /\ Cardinality(Held \cap Spread) \in Nat
    <3>1. IsFiniteSet(Held \cap Spread)
      BY <2>2, FS_Subset, Zenon
    <3> QED
      BY <2>2, <3>1, FS_Union, FS_CardinalityType, Zenon
  <2> HIDE DEF open
  <2>4. /\ Cardinality(open) <= Cardinality(Held \cup Spread)
        /\ Cardinality(open) \in Nat /\ Cardinality(Held \cup Spread) \in Nat
    BY <2>1, <2>3, FS_Subset, FS_CardinalityType, Zenon
  <2>5. limits.lanes \in Nat /\ limits.background \in Nat /\ limits.files \in Nat
    <3>1. limits \in [lanes : 1 .. NumLanes, background : Nat, files : OpenFileLimits]
      BY Zenon DEF QueueTypes
    <3>2. /\ limits.lanes \in 1 .. NumLanes /\ limits.background \in Nat
          /\ limits.files \in OpenFileLimits
      BY <3>1, Zenon
    <3>3. NumLanes \in Nat /\ limits.files \in Nat
      BY <3>2, LimitsAssumption, Zenon
    <3> QED
      BY <3>2, <3>3
  <2>6. Cardinality(open) <= limits.lanes + limits.background
    BY <2>2, <2>3, <2>4, <2>5
  <2>7. ReservedFileCount + FilesPerTask * Cardinality(open) <= limits.files
    BY <2>4, <2>5, <2>6 DEF FilesFit, ReservedFileCount, FilesPerTask
  <2> QED
    BY <2>7, Zenon DEF open
<1> QED
  BY <1>1, ReadyAlways, ServeAlways, PTL
-----------------------------------------------------------------------------
(***************************************************************************)
(* The end of the queue                                                    *)
(***************************************************************************)
\* The engine releases the queue when no job is under way, and nobody cancels it from
\* then on; it goes on when the lanes, the killer and the processes have ended.
EndInv ==
  /\ reporting \subseteq Jobs
  /\ canceller # "idle" => engine = "building" /\ mutex \in {"client", "job"}
  /\ engine # "building" => \A j \in Jobs : step[j] \in {"new", "complete"}
  /\ engine \in {"joinKiller", "awaitGroup", "released"} =>
       \A l \in Lanes : lane[l].at = "exited"
  /\ engine \in {"awaitGroup", "released"} => killer \in {"none", "done"}
  /\ engine = "released" => processes = {}

\* While it builds, the engine only has to know who cancels.
LEMMA EndBuilding ==
  ASSUME EndInv, engine' = "building", canceller' # "idle" => mutex' \in {"client", "job"},
         reporting' \subseteq Jobs
  PROVE  EndInv'
BY Zenon DEF EndInv

\* A ready job keeps the engine from releasing the queue.
LEMMA ReadyBuilds ==
  ASSUME QueueTypes, ReadyInv, EndInv, engine # "building"
  PROVE  readyJobs = << >> /\ readyPriorityJobs = << >>
<1>1. readyJobs \in Seq(Jobs) /\ readyPriorityJobs \in Seq(HasDeps) /\ HasDeps \subseteq Jobs
  BY JobsAssumption, Zenon DEF QueueTypes
<1>2. /\ \A n \in DOMAIN readyJobs : readyJobs[n] \in Jobs /\ step[readyJobs[n]] = "ready"
      /\ \A n \in DOMAIN readyPriorityJobs :
           readyPriorityJobs[n] \in Jobs /\ step[readyPriorityJobs[n]] = "depsReady"
  BY <1>1 DEF ReadyInv, Holds
<1>3. \A j \in Jobs : step[j] \in {"new", "complete"}
  BY Zenon DEF EndInv
<1>4. 1 \notin DOMAIN readyJobs /\ 1 \notin DOMAIN readyPriorityJobs
  BY <1>2, <1>3, Zenon
<1> QED
  BY <1>1, <1>4

\* What the engine and the lanes do.
LEMMA QueueStepEnds ==
  ASSUME QueueTypes, ReadyInv, EndInv, EngineStep \/ \E l \in 1 .. NumLanes : LaneStep(l)
  PROVE  EndInv'
<1> USE DEF queueVars, cancelVars, releaseVars, processVars
<1>0. lane \in [Lanes -> [at : LaneStates, job : Jobs \cup {NoJob}]]
  BY Zenon DEF QueueTypes
<1>1. ASSUME NEW j \in Jobs, AddJob(j) PROVE EndInv'
  BY <1>1, EndBuilding, Zenon DEF AddJob, EndInv
<1>2. CASE ReleaseQueue
  BY <1>2, Zenon DEF ReleaseQueue, EndInv
<1>3. CASE JoinLanes
  BY <1>3, Zenon DEF JoinLanes, EndInv, Lanes
<1>4. CASE JoinKiller
  BY <1>4, Zenon DEF JoinKiller, EndInv, Lanes
<1>5. CASE DestroyGroup
  BY <1>5, Zenon DEF DestroyGroup, EndInv, Lanes
<1>6. ASSUME NEW l \in Lanes, TakeJob(l) PROVE EndInv'
  <2>1. readyJobs # << >> \/ readyPriorityJobs # << >>
    <3>1. readyPriorityJobs # << >> \/ \E n \in DOMAIN readyJobs : NextJob(n)
      BY <1>6, Zenon DEF TakeJob
    <3> QED
      BY <3>1
  <2>2. engine = "building"
    BY <2>1, ReadyBuilds, Zenon
  <2> QED
    BY <1>6, <2>2, EndBuilding, Zenon DEF TakeJob, EndInv
<1>7. ASSUME NEW l \in Lanes, FindNoJob(l) \/ FinishJob(l) \/ WakeSpuriously(l) PROVE EndInv'
  <2>1. /\ UNCHANGED <<limits, canceller, engine, mutex, step, killer, processes, reporting>>
        /\ lane[l].at \in {"take", "finish", "wait"}
    BY <1>7, Zenon DEF FindNoJob, FinishJob, WakeSpuriously
  <2>2. engine \notin {"joinKiller", "awaitGroup", "released"}
    BY <2>1, Zenon DEF EndInv
  <2> QED
    BY <2>1, <2>2, Zenon DEF EndInv
<1> QED
  BY <1>1, <1>2, <1>3, <1>4, <1>5, <1>6, <1>7, Zenon
  DEF EngineStep, LaneStep, TakeJob, FindNoJob, FinishJob, WakeSpuriously

\* What the thread that handles a job does, what may fail on its way, and what its
\* process does.
LEMMA JobStepEnds ==
  ASSUME QueueTypes, EndInv, NEW j \in Jobs, ThreadStep(j) \/ FaultStep(j) \/ ProcessStep(j)
  PROVE  EndInv'
<1> USE DEF queueVars, cancelVars, releaseVars, processVars
<1>1. CASE EndBackground(j)
  BY <1>1, Zenon DEF EndBackground, EndInv, Lanes
<1>2. ASSUME NEW how, ProcessEnds(j, how) PROVE EndInv'
  BY <1>2, Zenon DEF ProcessEnds, EndInv, Lanes
<1>3. ASSUME step[j] \notin {"new", "complete"}, UNCHANGED <<engine, mutex, canceller>>,
             reporting' \subseteq reporting \cup {j}
      PROVE  EndInv'
  BY <1>3, EndBuilding, Zenon DEF EndInv
<1>4. CASE ExecuteProcess(j) \/ SpawnProcess(j) \/ SkipSpawn(j) \/ RefuseRelease(j) \/ Wait4(j)
  BY <1>3, <1>4, Zenon DEF ExecuteProcess, SpawnProcess, SkipSpawn, RefuseRelease, Wait4
<1>5. CASE RemoveProcess(j) \/ ReportProcess(j) \/ CancelAgain(j) \/ SpawnFails(j) \/ PollFails(j)
  BY <1>3, <1>5, Zenon DEF RemoveProcess, ReportProcess, CancelAgain, SpawnFails, PollFails
<1>6. ASSUME NEW result, ReadDeps(j, result) PROVE EndInv'
  BY <1>3, <1>6, Zenon DEF ReadDeps
<1>7. CASE PipesClosed(j) \/ ReleaseLane(j)
  BY <1>3, <1>7, Zenon DEF PipesClosed, ReleaseLane
<1>8. CASE CancelFromJob(j)
  BY <1>8, EndBuilding, Zenon DEF CancelFromJob, CloseGroup, EndInv
<1>9. CASE PipesFail(j)
  <2>1. step[j] = "spawn" /\ UNCHANGED <<canceller, engine, reporting>> /\ mutex' \in {mutex, "job"}
    BY <1>9, Zenon DEF PipesFail
  <2> QED
    BY <2>1, EndBuilding, Zenon DEF EndInv
<1> QED
  BY <1>1, <1>2, <1>4, <1>5, <1>6, <1>7, <1>8, <1>9, Zenon DEF ThreadStep, FaultStep, ProcessStep

\* The steps of a cancellation, and none.
LEMMA CancelStepEnds ==
  ASSUME QueueTypes, EndInv, CancelFromClient \/ CancelStep \/ UNCHANGED vars
  PROVE  EndInv'
<1> USE DEF queueVars, cancelVars, releaseVars, processVars
<1>1. CASE CancelFromClient
  BY <1>1, EndBuilding, Zenon DEF CancelFromClient, CloseGroup, EndInv
<1>2. CASE InterruptAll
  BY <1>2, EndBuilding, Zenon DEF InterruptAll, EndInv
<1>3. CASE StartKiller
  BY <1>3, EndBuilding, Zenon DEF StartKiller, EndInv
<1>4. CASE KillerStarts \/ KillAll
  <2>1. /\ UNCHANGED <<limits, lane, canceller, engine, mutex, step, processes, reporting>>
        /\ killer \in {"start", "wait"}
    BY <1>4, Zenon DEF KillerStarts, KillAll
  <2> QED
    BY <2>1, Zenon DEF EndInv, Lanes
<1>5. CASE UNCHANGED vars
  BY <1>5, Zenon DEF EndInv, Lanes, vars
<1> QED
  BY <1>1, <1>2, <1>3, <1>4, <1>5, Zenon DEF CancelStep

\* When the engine has released the queue, no process, no unfinished report, no ready
\* job, no lane and no killer is left, however the build and its cancellation went.
THEOREM ReleasedIsEmpty == Spec => []NothingRunsOn
<1>1. Init => EndInv
  BY Zenon DEF Init, EndInv
<1>2. QueueTypes /\ ReadyInv /\ EndInv /\ [Next]_vars => EndInv'
  BY QueueStepEnds, JobStepEnds, CancelStepEnds, Zenon DEF Next
<1>3. QueueTypes /\ ReadyInv /\ ServeInv /\ GroupIsCurrent /\ EndInv => NothingRunsOn
  <2> SUFFICES ASSUME QueueTypes, ReadyInv, ServeInv, GroupIsCurrent, EndInv,
                      engine = "released"
               PROVE  /\ \A j \in Jobs : process[j] # "alive"
                      /\ reporting = {}
                      /\ readyJobs = << >> /\ readyPriorityJobs = << >>
                      /\ \A l \in Lanes : lane[l].at = "exited"
                      /\ killer \in {"none", "done"}
    BY Zenon DEF NothingRunsOn
  <2>1. processes = {} /\ \A j \in Jobs : step[j] \in {"new", "complete"}
    BY Zenon DEF EndInv
  <2>2. \A j \in Jobs : process[j] # "alive"
    BY <2>1, Zenon DEF GroupIsCurrent
  <2>3. \A j \in Jobs : j \notin reporting
    BY <2>1, Zenon DEF ServeInv, JobInv, Started
  <2> QED
    BY <2>2, <2>3, ReadyBuilds, Zenon DEF EndInv
<1> QED
  BY <1>1, <1>2, <1>3, ReadyAlways, ServeAlways, GroupCurrent, PTL DEF Spec
============================================================================
