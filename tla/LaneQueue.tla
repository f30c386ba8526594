----------------------------- MODULE LaneQueue -----------------------------
(***************************************************************************)
(* The lane based execution queue, the process group it tracks its         *)
(* subprocesses in, and the two threads that use it: the engine, which     *)
(* adds jobs and finally releases the queue, and whoever cancels.          *)
(*                                                                         *)
(* A job is a command that spawns one process.  The lane that took it, or  *)
(* a detached thread once the process has released the lane, brings it     *)
(* through the values of "step".  What runs under one mutex, without       *)
(* blocking, is one action; the one place where a mutex stays held while   *)
(* its holder blocks is the step "deadlocked".                             *)
(***************************************************************************)
EXTENDS Naturals, Sequences, FiniteSets

CONSTANTS
  Jobs,             \* the commands; naturals, the order of their ordinal names
  NumLanes,         \* the number of lanes asked for
  OpenFileLimits,   \* the limits on open files the system may impose
  BackgroundTaskMax,\* {n} if LLBUILD_BACKGROUND_TASK_MAX is set to n, else {}
  Algorithm,        \* the scheduler: "NamePriority" or "FIFO"
  Interruptible,    \* ProcessAttributes::canSafelyInterrupt
  Console,          \* ProcessAttributes::connectToConsole
  HasDeps,          \* commands that read discovered dependencies afterwards
  Faults,           \* the system calls that may fail
  CancelOnFailure   \* whether hadCommandFailure() cancels the build

NoJob == 0

ASSUME JobsAssumption ==
  /\ Jobs \subseteq Nat \ {NoJob}
  /\ Interruptible \subseteq Jobs /\ Console \subseteq Jobs /\ HasDeps \subseteq Jobs
  /\ CancelOnFailure \in BOOLEAN

ASSUME LimitsAssumption ==
  NumLanes \in Nat \ {0} /\ OpenFileLimits \subseteq Nat /\ BackgroundTaskMax \subseteq Nat

VARIABLES
  limits,           \* [lanes, background, files]: the limits of this queue
  readyJobs, readyPriorityJobs,
  cancelled, shutdown, queueComplete,
  lane,             \* lane -> where its thread is, and on which job
  step,             \* job -> how far it has come
  background,       \* job -> its detached thread, if it has one
  backgroundTaskCount,
  processes,        \* ProcessGroup::processes: the jobs whose pid is in it
  closed,           \* ProcessGroup::closed
  process,          \* job -> the state of its process; how it ended
  signals,          \* job -> the signals its process has been sent
  reporting,        \* jobs with a processStarted() and no processFinished()
  mutex,            \* the holder of the engine's executionQueueMutex
  canceller,        \* where the holder is in cancelAllJobs
  killer,           \* the thread of killAfterTimeout
  engine            \* where the engine is in releasing the queue

queueVars == <<limits, readyJobs, readyPriorityJobs, shutdown, lane>>
processVars == <<processes, process, signals, reporting>>
cancelVars == <<cancelled, closed, mutex, canceller>>
releaseVars == <<queueComplete, killer, engine>>
vars == <<queueVars, processVars, cancelVars, releaseVars, step, background,
          backgroundTaskCount>>

ReservedFileCount == 10
FilesPerTask == 2

\* The lanes and background tasks the queue allows itself: estimateTaskLimits.
EstimateTaskLimits(files) ==
  LET tasks == (files - ReservedFileCount) \div FilesPerTask
      atLeast1(n) == IF n = 0 THEN 1 ELSE n
      smaller(m, n) == IF m < n THEN m ELSE n
      wanted == IF BackgroundTaskMax = {} THEN smaller(1024, NumLanes * 64)
                ELSE CHOOSE n \in BackgroundTaskMax : TRUE
  IN  CASE files < ReservedFileCount -> [lanes |-> 1, background |-> 0]
        [] files >= ReservedFileCount /\ NumLanes > tasks ->
             [lanes |-> atLeast1(tasks), background |-> 0]
        [] OTHER -> [lanes |-> NumLanes,
                     background |-> smaller(wanted, tasks - NumLanes)]

Lanes == 1 .. limits.lanes

Steps == {"new", "ready", "execute", "spawn", "poll", "refused", "wait", "reaped",
          "removed", "depsReady", "deps", "cancel", "cancelling", "complete",
          "deadlocked", "abandoned"}

ProcessStates == {"none", "alive", "succeeded", "failed", "cancelled"}
Signals == {"SIGINT", "SIGKILL"}

Init ==
  /\ \E files \in OpenFileLimits :
       limits = [lanes |-> EstimateTaskLimits(files).lanes,
                 background |-> EstimateTaskLimits(files).background,
                 files |-> files]
  /\ readyJobs = << >> /\ readyPriorityJobs = << >>
  /\ cancelled = FALSE /\ shutdown = FALSE /\ queueComplete = FALSE /\ closed = FALSE
  /\ lane = [l \in Lanes |-> [at |-> "take", job |-> NoJob]]
  /\ step = [j \in Jobs |-> "new"]
  /\ background = [j \in Jobs |-> "none"] /\ backgroundTaskCount = 0
  /\ processes = {} /\ reporting = {}
  /\ process = [j \in Jobs |-> "none"] /\ signals = [j \in Jobs |-> {}]
  /\ mutex = "free" /\ canceller = "idle" /\ killer = "none" /\ engine = "building"

\* No thread is blocked with readyJobsMutex and the mutex of the process group in
\* its hands.
Unlocked == \A j \in Jobs : step[j] # "deadlocked"

-----------------------------------------------------------------------------
(***************************************************************************)
(* The ready queue                                                         *)
(***************************************************************************)
Waiting == {l \in Lanes : lane[l].at = "wait"}

Woken(lanes, l) == [lanes EXCEPT ![l].at = "take"]

\* Mutant of NotifyOne: addJob forgets to notify.
NotifyOne_Nobody(lanes) == lanes = lane

\* notify_one wakes one of the waiting lanes, if there is one.
NotifyOne(lanes) ==
  \/ Waiting = {} /\ lanes = lane
  \/ \E l \in Waiting : lanes = Woken(lane, l)

NotifyAll == [l \in Lanes |-> IF l \in Waiting THEN [lane[l] EXCEPT !.at = "take"]
                              ELSE lane[l]]

\* readyJobs->getNextJob() returns the job at n: FifoScheduler the oldest one,
\* PriorityQueueScheduler the one with the greatest ordinal name.
NextJob(n) == IF Algorithm = "FIFO" THEN n = 1
              ELSE \A m \in DOMAIN readyJobs : readyJobs[m] <= readyJobs[n]

\* addJob, called by the engine when the inputs of the command are available.
AddJob(j) ==
  /\ engine = "building" /\ Unlocked /\ step[j] = "new"
  /\ readyJobs' = Append(readyJobs, j)
  /\ NotifyOne(lane')
  /\ step' = [step EXCEPT ![j] = "ready"]
  /\ UNCHANGED <<limits, readyPriorityJobs, shutdown, processVars, cancelVars,
                 releaseVars, background, backgroundTaskCount>>

\* A lane takes the next job, the ones of high priority first.
TakeJob(l) ==
  /\ l \in Lanes /\ lane[l].at = "take" /\ Unlocked
  /\ \/ /\ readyPriorityJobs # << >>
        /\ LET j == Head(readyPriorityJobs)
           IN  /\ lane' = [lane EXCEPT ![l] = [at |-> "deps", job |-> j]]
               /\ step' = [step EXCEPT ![j] = "deps"]
        /\ readyPriorityJobs' = Tail(readyPriorityJobs)
        /\ UNCHANGED readyJobs
     \/ /\ readyPriorityJobs = << >>
        /\ \E n \in DOMAIN readyJobs :
             /\ NextJob(n)
             /\ lane' = [lane EXCEPT ![l] = [at |-> "command", job |-> readyJobs[n]]]
             /\ step' = [step EXCEPT ![readyJobs[n]] = "execute"]
             /\ readyJobs' = SubSeq(readyJobs, 1, n - 1)
                               \o SubSeq(readyJobs, n + 1, Len(readyJobs))
        /\ UNCHANGED readyPriorityJobs
  /\ UNCHANGED <<limits, shutdown, processVars, cancelVars, releaseVars,
                 background, backgroundTaskCount>>

\* A lane finds the queue empty: it waits, or ends its thread at a shutdown.
FindNoJob(l) ==
  /\ l \in Lanes /\ lane[l].at = "take" /\ Unlocked
  /\ readyJobs = << >> /\ readyPriorityJobs = << >>
  /\ lane' = [lane EXCEPT ![l].at = IF shutdown THEN "exited" ELSE "wait"]
  /\ UNCHANGED <<limits, readyJobs, readyPriorityJobs, shutdown, processVars,
                 cancelVars, releaseVars, step, background, backgroundTaskCount>>

\* A condition variable may also wake a thread nobody notified.
WakeSpuriously(l) ==
  /\ l \in Lanes /\ lane[l].at = "wait"
  /\ lane' = Woken(lane, l)
  /\ UNCHANGED <<limits, readyJobs, readyPriorityJobs, shutdown, processVars,
                 cancelVars, releaseVars, step, background, backgroundTaskCount>>

\* job.execute() has returned; queueJobFinished(), and the next iteration.
FinishJob(l) ==
  /\ l \in Lanes /\ lane[l].at = "finish"
  /\ lane' = [lane EXCEPT ![l] = [at |-> "take", job |-> NoJob]]
  /\ UNCHANGED <<limits, readyJobs, readyPriorityJobs, shutdown, processVars,
                 cancelVars, releaseVars, step, background, backgroundTaskCount>>

-----------------------------------------------------------------------------
(***************************************************************************)
(* What ends a job.  The completion function of the process tells the      *)
(* engine the result; a success of a command with dependency files first   *)
(* adds a job of high priority that reads them, and a failure may make the *)
(* client cancel the build before the engine is told.                      *)
(***************************************************************************)
\* The thread that ran the completion function goes on: its lane returns from
\* job.execute(), a detached thread has its counter left to decrement.
Returned(j) ==
  [l \in Lanes |-> IF lane[l].job = j /\ lane[l].at \in {"command", "deps"}
                   THEN [lane[l] EXCEPT !.at = "finish"] ELSE lane[l]]

Detached(j) == IF background[j] = "wait" THEN [background EXCEPT ![j] = "decrement"]
               ELSE background

\* completionFn(result), by a thread that holds no mutex of the queue.
CompletionFn(j, result) ==
  \/ /\ result = "succeeded" /\ j \in HasDeps /\ Unlocked
     /\ readyPriorityJobs' = Append(readyPriorityJobs, j)
     /\ step' = [step EXCEPT ![j] = "depsReady"]
     /\ background' = Detached(j)
     /\ \/ Waiting = {} /\ lane' = Returned(j)
        \/ \E l \in Waiting : lane' = Woken(Returned(j), l)
  \/ /\ result = "failed" /\ CancelOnFailure
     /\ step' = [step EXCEPT ![j] = "cancel"]
     /\ UNCHANGED <<readyPriorityJobs, background, lane>>
  \/ /\ \/ result = "cancelled"
        \/ result = "succeeded" /\ j \notin HasDeps
        \/ result = "failed" /\ ~CancelOnFailure
     /\ step' = [step EXCEPT ![j] = "complete"]
     /\ lane' = Returned(j) /\ background' = Detached(j)
     /\ UNCHANGED readyPriorityJobs

-----------------------------------------------------------------------------
(***************************************************************************)
(* Running a process                                                       *)
(***************************************************************************)
\* executeProcess looks at the cancellation under readyJobsMutex.  After it,
\* the completion function is called with that mutex held; its result is not a
\* failure, so it never needs the mutex again.
ExecuteProcess(j) ==
  /\ step[j] = "execute" /\ Unlocked
  /\ IF cancelled THEN CompletionFn(j, "cancelled")
     ELSE /\ step' = [step EXCEPT ![j] = "spawn"]
          /\ UNCHANGED <<readyPriorityJobs, lane, background>>
  /\ UNCHANGED <<limits, readyJobs, shutdown, processVars, cancelVars,
                 releaseVars, backgroundTaskCount>>

\* Mutant of SpawnProcess: isClosed() is not looked at again under the mutex.
SpawnProcess_NotClosed(j) ==
  /\ step[j] = "spawn" /\ Unlocked
  /\ step' = [step EXCEPT ![j] = "poll"]
  /\ processes' = processes \cup {j}
  /\ process' = [process EXCEPT ![j] = "alive"]
  /\ reporting' = reporting \cup {j}
  /\ UNCHANGED <<queueVars, signals, cancelVars, releaseVars, background,
                 backgroundTaskCount>>

\* spawnProcess up to the posix_spawn, under the mutex of the group.
SpawnProcess(j) ==
  /\ step[j] = "spawn" /\ Unlocked /\ ~closed
  /\ step' = [step EXCEPT ![j] = "poll"]
  /\ processes' = processes \cup {j}
  /\ process' = [process EXCEPT ![j] = "alive"]
  /\ reporting' = reporting \cup {j}
  /\ UNCHANGED <<queueVars, signals, cancelVars, releaseVars, background,
                 backgroundTaskCount>>

\* The group was closed since executeProcess looked.
SkipSpawn(j) ==
  /\ step[j] = "spawn" /\ Unlocked /\ closed
  /\ CompletionFn(j, "cancelled")
  /\ UNCHANGED <<limits, readyJobs, shutdown, processVars, cancelVars,
                 releaseVars, backgroundTaskCount>>

\* The command line is empty, its directory cannot be set, or posix_spawn fails:
\* processStarted(), processHadError(), processFinished(), completion.
SpawnFails(j) ==
  /\ step[j] = "spawn"
  /\ \/ "command" \in Faults
     \/ "spawn" \in Faults /\ Unlocked /\ ~closed
  /\ CompletionFn(j, "failed")
  /\ UNCHANGED <<limits, readyJobs, shutdown, processVars, cancelVars,
                 releaseVars, backgroundTaskCount>>

\* No pipe can be created: the same calls, but with the mutex of the group held.
\* A completion function that cancels the build takes executionQueueMutex and
\* readyJobsMutex, and then waits for ever for the mutex its own thread holds.
PipesFail(j) ==
  /\ step[j] = "spawn" /\ "pipe" \in Faults /\ j \notin Console
  /\ Unlocked /\ ~closed
  /\ IF CancelOnFailure
     THEN /\ mutex = "free" /\ mutex' = "job"
          /\ step' = [step EXCEPT ![j] = "deadlocked"]
          /\ UNCHANGED <<readyPriorityJobs, lane, background>>
     ELSE CompletionFn(j, "failed") /\ UNCHANGED mutex
  /\ UNCHANGED <<limits, readyJobs, shutdown, processVars, cancelled, closed,
                 canceller, releaseVars, backgroundTaskCount>>

\* poll() fails: the lane gives up, and leaves the process in the group.
PollFails(j) ==
  /\ step[j] = "poll" /\ "poll" \in Faults /\ j \notin Console
  /\ step' = [step EXCEPT ![j] = "abandoned"]
  /\ lane' = Returned(j)
  /\ UNCHANGED <<limits, readyJobs, readyPriorityJobs, shutdown, processVars,
                 cancelVars, releaseVars, background, backgroundTaskCount>>

\* Both pipes are at their end: the process has closed them or has ended.  A
\* process on the console has none.
PipesClosed(j) ==
  /\ step[j] = "poll"
  /\ step' = [step EXCEPT ![j] = "wait"]
  /\ UNCHANGED <<queueVars, processVars, cancelVars, releaseVars, background,
                 backgroundTaskCount>>

\* Mutants of ReleaseLane: one background task too many; a refused task is not
\* counted before it is taken back.
ReleaseLane_OneMore(j) ==
  /\ step[j] = "poll" /\ j \notin Console
  /\ backgroundTaskCount' = backgroundTaskCount + 1
  /\ \/ /\ backgroundTaskCount <= limits.background
        /\ step' = [step EXCEPT ![j] = "wait"]
        /\ background' = [background EXCEPT ![j] = "wait"]
        /\ lane' = Returned(j)
     \/ /\ backgroundTaskCount > limits.background
        /\ step' = [step EXCEPT ![j] = "refused"]
        /\ UNCHANGED <<background, lane>>
  /\ UNCHANGED <<limits, readyJobs, readyPriorityJobs, shutdown, processVars,
                 cancelVars, releaseVars>>

ReleaseLane_NotCounted(j) ==
  /\ step[j] = "poll" /\ j \notin Console
  /\ \/ /\ backgroundTaskCount < limits.background
        /\ backgroundTaskCount' = backgroundTaskCount + 1
        /\ step' = [step EXCEPT ![j] = "wait"]
        /\ background' = [background EXCEPT ![j] = "wait"]
        /\ lane' = Returned(j)
     \/ /\ backgroundTaskCount >= limits.background
        /\ step' = [step EXCEPT ![j] = "refused"]
        /\ UNCHANGED <<background, backgroundTaskCount, lane>>
  /\ UNCHANGED <<limits, readyJobs, readyPriorityJobs, shutdown, processVars,
                 cancelVars, releaseVars>>

\* The process asks on its control pipe to release its lane: releaseFn counts
\* it, and either a detached thread waits for the process or the lane does.
ReleaseLane(j) ==
  /\ step[j] = "poll" /\ j \notin Console
  /\ backgroundTaskCount' = backgroundTaskCount + 1
  /\ \/ /\ backgroundTaskCount < limits.background
        /\ step' = [step EXCEPT ![j] = "wait"]
        /\ background' = [background EXCEPT ![j] = "wait"]
        /\ lane' = Returned(j)
     \/ /\ backgroundTaskCount >= limits.background
        /\ step' = [step EXCEPT ![j] = "refused"]
        /\ UNCHANGED <<background, lane>>
  /\ UNCHANGED <<limits, readyJobs, readyPriorityJobs, shutdown, processVars,
                 cancelVars, releaseVars>>

\* Not allowed to release: the counter is taken back, the lane waits itself.
RefuseRelease(j) ==
  /\ step[j] = "refused"
  /\ step' = [step EXCEPT ![j] = "wait"]
  /\ backgroundTaskCount' = backgroundTaskCount - 1
  /\ UNCHANGED <<queueVars, processVars, cancelVars, releaseVars, background>>

\* Mutant of Wait4: it returns although the process has not ended.
Wait4_NoHang(j) ==
  /\ step[j] = "wait"
  /\ step' = [step EXCEPT ![j] = "reaped"]
  /\ UNCHANGED <<queueVars, processVars, cancelVars, releaseVars, background,
                 backgroundTaskCount>>

\* wait4 returns, and the release pipe is closed.  When it fails the process is
\* reported as failed.
Wait4(j) ==
  /\ step[j] = "wait" /\ process[j] \notin {"none", "alive"}
  /\ step' = [step EXCEPT ![j] = "reaped"]
  /\ \/ UNCHANGED process
     \/ "wait" \in Faults /\ process' = [process EXCEPT ![j] = "failed"]
  /\ UNCHANGED <<queueVars, processes, signals, reporting, cancelVars, releaseVars,
                 background, backgroundTaskCount>>

\* ProcessGroup::remove
RemoveProcess(j) ==
  /\ step[j] = "reaped" /\ Unlocked
  /\ step' = [step EXCEPT ![j] = "removed"]
  /\ processes' = processes \ {j}
  /\ UNCHANGED <<queueVars, process, signals, reporting, cancelVars, releaseVars,
                 background, backgroundTaskCount>>

\* The end of cleanUpExecutedProcess: processFinished() and the completion.
ReportProcess(j) ==
  /\ step[j] = "removed"
  /\ reporting' = reporting \ {j}
  /\ CompletionFn(j, process[j])
  /\ UNCHANGED <<limits, readyJobs, shutdown, processes, process, signals,
                 cancelVars, releaseVars, backgroundTaskCount>>

\* The job that reads the dependency files succeeds or fails.
ReadDeps(j, result) ==
  /\ step[j] = "deps"
  /\ IF result = "failed" /\ CancelOnFailure
     THEN /\ step' = [step EXCEPT ![j] = "cancel"]
          /\ UNCHANGED lane
     ELSE /\ step' = [step EXCEPT ![j] = "complete"]
          /\ lane' = Returned(j)
  /\ UNCHANGED <<limits, readyJobs, readyPriorityJobs, shutdown, processVars,
                 cancelVars, releaseVars, background, backgroundTaskCount>>

\* The last thing a detached thread does.
EndBackground(j) ==
  /\ background[j] = "decrement"
  /\ background' = [background EXCEPT ![j] = "none"]
  /\ backgroundTaskCount' = backgroundTaskCount - 1
  /\ UNCHANGED <<queueVars, processVars, cancelVars, releaseVars, step>>

-----------------------------------------------------------------------------
(***************************************************************************)
(* Cancellation.  cancelBuild holds the engine's executionQueueMutex while *)
(* cancelAllJobs closes the group, interrupts what is in it and starts the *)
(* thread that kills what is left after a timeout.                         *)
(***************************************************************************)
\* The thread that ran a failed command's completion function tells the engine
\* the result once cancel() has returned.
ToldEngine(j) ==
  /\ step' = [step EXCEPT ![j] = "complete"]
  /\ lane' = Returned(j) /\ background' = Detached(j)

\* The first part of cancelAllJobs, under readyJobsMutex and the group's mutex.
CloseGroup(who) ==
  /\ mutex = "free" /\ engine = "building" /\ Unlocked /\ ~cancelled
  /\ mutex' = who /\ canceller' = "interrupt"
  /\ cancelled' = TRUE /\ closed' = TRUE
  /\ lane' = NotifyAll
  /\ UNCHANGED <<limits, readyJobs, readyPriorityJobs, shutdown, processVars,
                 releaseVars, background, backgroundTaskCount>>

CancelFromClient == CloseGroup("client") /\ UNCHANGED step

CancelFromJob(j) ==
  /\ step[j] = "cancel"
  /\ CloseGroup("job")
  /\ step' = [step EXCEPT ![j] = "cancelling"]

\* cancelAllJobs returns early when the queue is already cancelled.
CancelAgain(j) ==
  /\ step[j] = "cancel" /\ mutex = "free" /\ Unlocked /\ cancelled
  /\ ToldEngine(j)
  /\ UNCHANGED <<limits, readyJobs, readyPriorityJobs, shutdown, processVars,
                 cancelVars, releaseVars, backgroundTaskCount>>

\* Mutant of SignalAll: SIGKILL spares what may not be interrupted, too.
SignalAll_Spares(signal) ==
  [j \in Jobs |-> IF j \in processes /\ j \in Interruptible /\ j \notin Console
                  THEN signals[j] \cup {signal} ELSE signals[j]]

\* kill(-pid): the signal reaches a process that leads a group of its own.
SignalAll(signal) ==
  [j \in Jobs |->
     IF /\ j \in processes
        /\ signal = "SIGINT" => j \in Interruptible
        /\ j \notin Console
     THEN signals[j] \cup {signal} ELSE signals[j]]

InterruptAll ==
  /\ canceller = "interrupt" /\ Unlocked
  /\ canceller' = "startKiller"
  /\ signals' = SignalAll("SIGINT")
  /\ UNCHANGED <<queueVars, processes, process, reporting, cancelled, closed, mutex,
                 releaseVars, step, background, backgroundTaskCount>>

\* The thread is started, and cancelBuild returns.
StartKiller ==
  /\ canceller = "startKiller"
  /\ canceller' = "idle" /\ mutex' = "free" /\ killer' = "start"
  /\ \/ mutex = "client" /\ UNCHANGED <<step, lane, background>>
     \/ \E j \in Jobs : mutex = "job" /\ step[j] = "cancelling" /\ ToldEngine(j)
  /\ UNCHANGED <<limits, readyJobs, readyPriorityJobs, shutdown, processVars,
                 cancelled, closed, queueComplete, engine, backgroundTaskCount>>

\* killAfterTimeout: nothing is left to do if the queue is complete.
KillerStarts ==
  /\ killer = "start"
  /\ killer' = IF queueComplete THEN "done" ELSE "wait"
  /\ UNCHANGED <<queueVars, processVars, cancelVars, queueComplete, engine, step,
                 background, backgroundTaskCount>>

\* Its wait ends by the timeout, by the notification or spuriously; whichever it
\* was, everything still in the group is killed.
KillAll ==
  /\ killer = "wait" /\ Unlocked
  /\ killer' = "done"
  /\ signals' = SignalAll("SIGKILL")
  /\ UNCHANGED <<queueVars, processes, process, reporting, cancelVars, queueComplete,
                 engine, step, background, backgroundTaskCount>>

-----------------------------------------------------------------------------
(***************************************************************************)
(* The engine releases the queue when no task is outstanding: the          *)
(* destructor of the queue, with executionQueueMutex held throughout.      *)
(***************************************************************************)
ReleaseQueue ==
  /\ engine = "building" /\ mutex = "free" /\ Unlocked
  /\ \A j \in Jobs : step[j] \in {"new", "complete"}
  /\ engine' = "joinLanes" /\ mutex' = "engine"
  /\ shutdown' = TRUE
  /\ lane' = NotifyAll
  /\ UNCHANGED <<limits, readyJobs, readyPriorityJobs, processVars, cancelled, closed,
                 canceller, queueComplete, killer, step, background,
                 backgroundTaskCount>>

JoinLanes ==
  /\ engine = "joinLanes" /\ \A l \in Lanes : lane[l].at = "exited"
  /\ queueComplete' = (killer # "none")
  /\ engine' = "joinKiller"
  /\ UNCHANGED <<queueVars, processVars, cancelVars, killer, step, background,
                 backgroundTaskCount>>

\* Mutant of JoinKiller: the thread is not joined.
JoinKiller_Detached ==
  /\ engine = "joinKiller"
  /\ engine' = "awaitGroup"
  /\ UNCHANGED <<queueVars, processVars, cancelVars, queueComplete, killer, step,
                 background, backgroundTaskCount>>

JoinKiller ==
  /\ engine = "joinKiller" /\ killer \in {"none", "done"}
  /\ engine' = "awaitGroup"
  /\ UNCHANGED <<queueVars, processVars, cancelVars, queueComplete, killer, step,
                 background, backgroundTaskCount>>

\* ProcessGroup::~ProcessGroup, and the memory of the queue is gone.
DestroyGroup ==
  /\ engine = "awaitGroup" /\ Unlocked /\ processes = {}
  /\ engine' = "released" /\ mutex' = "free"
  /\ UNCHANGED <<queueVars, processVars, cancelled, closed, canceller, queueComplete,
                 killer, step, background, backgroundTaskCount>>

-----------------------------------------------------------------------------
(***************************************************************************)
(* The processes themselves: they end when they like, may ignore SIGINT    *)
(* and cannot ignore SIGKILL.                                              *)
(***************************************************************************)
ProcessEnds(j, how) ==
  /\ process[j] = "alive"
  /\ how = "cancelled" => signals[j] # {}
  /\ process' = [process EXCEPT ![j] = how]
  /\ UNCHANGED <<queueVars, processes, signals, reporting, cancelVars, releaseVars,
                 step, background, backgroundTaskCount>>

ProcessKilled(j) == "SIGKILL" \in signals[j] /\ ProcessEnds(j, "cancelled")

EngineStep ==
  \/ \E j \in Jobs : AddJob(j)
  \/ ReleaseQueue \/ JoinLanes \/ JoinKiller \/ DestroyGroup

LaneStep(l) == TakeJob(l) \/ FindNoJob(l) \/ WakeSpuriously(l) \/ FinishJob(l)

\* What the thread that handles a job does without waiting for its process.
ThreadStep(j) ==
  \/ ExecuteProcess(j) \/ SpawnProcess(j) \/ SkipSpawn(j) \/ RefuseRelease(j)
  \/ Wait4(j) \/ RemoveProcess(j) \/ ReportProcess(j) \/ EndBackground(j)
  \/ \E result \in {"succeeded", "failed"} : ReadDeps(j, result)
  \/ CancelFromJob(j) \/ CancelAgain(j)

FaultStep(j) == SpawnFails(j) \/ PipesFail(j) \/ PollFails(j)

CancelStep == InterruptAll \/ StartKiller \/ KillerStarts \/ KillAll

ProcessStep(j) ==
  \/ PipesClosed(j) \/ ReleaseLane(j)
  \/ \E how \in {"succeeded", "failed", "cancelled"} : ProcessEnds(j, how)

Next ==
  \/ EngineStep
  \/ \E l \in 1 .. NumLanes : LaneStep(l)
  \/ \E j \in Jobs : ThreadStep(j) \/ FaultStep(j) \/ ProcessStep(j)
  \/ CancelFromClient
  \/ CancelStep

Spec == Init /\ [][Next]_vars

\* Every thread runs on when it is not blocked, and a process ends once it has
\* been killed.  Nothing obliges a process to end by itself, the client to
\* cancel or a system call to fail.
Fairness ==
  /\ WF_vars(ReleaseQueue \/ JoinLanes \/ JoinKiller \/ DestroyGroup)
  /\ \A l \in 1 .. NumLanes :
       WF_vars(TakeJob(l) \/ FindNoJob(l) \/ FinishJob(l))
  /\ \A j \in Jobs : /\ WF_vars(ThreadStep(j))
                     /\ WF_vars(process[j] # "alive" /\ PipesClosed(j))
                     /\ WF_vars(ProcessKilled(j))
  /\ WF_vars(CancelStep)

FairSpec == Spec /\ Fairness

-----------------------------------------------------------------------------
\* The type invariant.  The counters stay natural numbers: backgroundTaskCount is
\* an unsigned that releaseFn and the detached threads decrement, and the queue
\* always has a lane.
TypeOK ==
  /\ limits \in [lanes : 1 .. NumLanes, background : Nat, files : OpenFileLimits]
  /\ readyJobs \in Seq(Jobs) /\ readyPriorityJobs \in Seq(HasDeps)
  /\ {cancelled, shutdown, queueComplete, closed} \subseteq BOOLEAN
  /\ lane \in [Lanes -> [at : {"take", "wait", "command", "deps", "finish", "exited"},
                         job : Jobs \cup {NoJob}]]
  /\ step \in [Jobs -> Steps]
  /\ background \in [Jobs -> {"none", "wait", "decrement"}]
  /\ backgroundTaskCount \in Nat
  /\ processes \subseteq Jobs /\ reporting \subseteq Jobs
  /\ process \in [Jobs -> ProcessStates]
  /\ signals \in [Jobs -> SUBSET Signals]
  /\ mutex \in {"free", "client", "job", "engine"}
  /\ canceller \in {"idle", "interrupt", "startKiller"}
  /\ killer \in {"none", "start", "wait", "done"}
  /\ engine \in {"building", "joinLanes", "joinKiller", "awaitGroup", "released"}

\* No wakeup is lost: while a lane sleeps on readyJobsCondition, every job in
\* the two ready queues has a lane of its own that is awake to take it, although
\* addJob only calls notify_one.
WakeupsMatchJobs ==
  Waiting # {} =>
    Len(readyJobs) + Len(readyPriorityJobs)
      <= Cardinality({l \in Lanes : lane[l].at = "take"})

\* The pipes of the processes that lanes and detached threads attend to, with
\* the descriptors set aside, stay within the limit on open files from which
\* estimateTaskLimits derived the number of lanes and of background tasks.
FilesAreBounded ==
  LET open == {j \in Jobs \ Console : step[j] \in {"poll", "refused", "wait"}}
  IN  limits.files >= ReservedFileCount + FilesPerTask =>
        ReservedFileCount + FilesPerTask * Cardinality(open) <= limits.files

\* The process group is what it claims to be: it is closed exactly when the queue
\* is cancelled, and a process that lives is in it, because cleanUpExecutedProcess
\* removes a process only after it has waited for it.
GroupIsCurrent ==
  /\ closed = cancelled
  /\ \A j \in Jobs : process[j] = "alive" => j \in processes
  /\ \A j \in Jobs : step[j] = "reaped" => process[j] # "alive"

\* Once cancelAllJobs has interrupted the group, no process that may be
\* interrupted runs on without having been: spawnProcess holds the mutex of the
\* group from its look at isClosed() to its add().
CancelReachesProcesses ==
  cancelled /\ canceller # "interrupt" =>
    \A j \in Interruptible \ Console :
      process[j] = "alive" => "SIGINT" \in signals[j]

\* When the engine has released the queue, nothing of the queue is left behind:
\* no process, no processStarted() without its processFinished(), no job in a
\* ready queue, no lane and no thread waiting to kill.
NothingRunsOn ==
  engine = "released" =>
    /\ \A j \in Jobs : process[j] # "alive"
    /\ reporting = {}
    /\ readyJobs = << >> /\ readyPriorityJobs = << >>
    /\ \A l \in Lanes : lane[l].at = "exited"
    /\ killer \in {"none", "done"}

\* A cancelled build ends: whatever the processes do with SIGINT, the lanes
\* drain the ready queue, the killer ends what is left, and the queue goes away.
CancelEnds == cancelled ~> (engine = "released")

\* A process that fails to complete after a cancellation "will ultimately be
\* sent a SIGKILL": none outlives the timeout without it.
KilledAfterTimeout ==
  killer = "done" =>
    \A j \in processes : process[j] = "alive" => "SIGKILL" \in signals[j]

\* Releasing the queue "implicitly waits for it to complete": no thread of the
\* queue is left that would still touch its backgroundTaskCount.
ReleaseWaitsForThreads ==
  engine = "released" => \A j \in Jobs : background[j] = "none"

\* "any jobStarted() call will be paired with exactly one jobFinished() call":
\* a lane that runs a job gets to its end, if the process of the job ends.
StartedJobsFinish ==
  \A l \in 1 .. NumLanes :
    (l \in Lanes /\ lane[l].at = "command") ~>
      (lane[l].at # "command" \/ \E j \in Jobs : process[j] = "alive")

=============================================================================
