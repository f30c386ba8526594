# A formal model of llbuild

TLA+ modules that model the engines of llbuild and what they stand on, TLC
configurations that check them on small instances, and TLAPS proofs about them.
`PROJECT.json` lists which lines of the source every definition stands for.

## The system

llbuild is a library for incremental builds and the tools made with it.

| Part | Source | State | Operations | What makes it hard |
| --- | --- | --- | --- | --- |
| Build engine | `lib/Core/BuildEngine.cpp` | rules with their last results, live tasks, five work queues, the epoch, the cancelled flag | `build`, `cancelBuild`, `resetForBuild`, `taskIsComplete`, the requests of tasks | one loop over five queues whose items create each other; threads that report at any time; cycles; cancellation; results that outlive the build |
| Build database | `lib/Core/SQLiteBuildDB.cpp`, `BuildDB.h` | results, key ids, the iteration; one transaction per build | `buildStarted`, `lookupRuleResult`, `setRuleResult`, `setCurrentIteration`, `buildComplete` | crashes inside the transaction, failing writes, two caches of ids |
| Dependency parsers | `lib/Core/MakefileDepsParser.cpp`, `DependencyInfoParser.cpp` | none | `parse` | escapes, truncated input |
| Execution queue | `lib/Basic/LaneBasedExecutionQueue.cpp` | ready jobs, lanes, background tasks, spawned processes | `addJob`, `executeProcess`, `cancelAllJobs`, destruction | cancel against spawn, the delayed kill, detached threads |
| Subprocesses | `lib/Basic/Subprocess.cpp` | process group, pipes | `spawnProcess`, `signalAll` | release of the lane while output is read |
| Serial queue | `lib/Basic/SerialQueue.cpp` | operations | `sync`, `async`, destruction | shutdown against waiting callers |
| Build system | `lib/BuildSystem/*` | the description, nodes, commands | rules and tasks for every kind of key | failed, skipped and missing inputs |
| Frontend | `lib/BuildSystem/BuildSystemFrontend.cpp` | status, failure counts, cancelled | `build`, `cancel`, `resetForBuild` | cancel between two builds |
| Ninja | `lib/Ninja/*`, `lib/Commands/NinjaBuildCommand.cpp` | manifest, scopes, build values | loading, building | scoping, restat, failure limits |
| llbuild3 engine | `src/llbuild3/Engine.cpp` | suspended tasks, the maps of what they requested, the task cache | `build`, the requests of tasks, notifications | completions that overtake the submission, replays from the cache, initialisation |
| llbuild3 executors | `src/llbuild3/ActionExecutor.cpp`, `LocalExecutor.cpp` | pending requests, two queues, lanes, the action cache | `submit`, the lanes, callbacks of processes, remote actions and subtasks, destruction | requests that pass through many threads, each with its failures |
| llbuild3 logs | `src/llbuild3/CASLog.cpp`, `CASLog.h`, `CASTree.cpp` | the open directory, pending writes, the stream's buffer | `write`, `flush`, `append`, answers of the store | answers in any order, failures, sealed directories |

A client gives the engine *rules* (how to find out whether a stored result is
still valid, and how to make a task) and *tasks* (what to request, what to
compute). The engine *scans* a rule: it looks at the inputs recorded in the last
build, brings each of them up to date, and decides whether the rule has to run.
A rule that runs has a task, which requests inputs, is provided their values,
and computes on a thread of the execution queue. A finished task's result goes
to the database, within a transaction that spans the build. Results carry two
epochs, `computedAt` (the value last changed) and `builtAt` (the value was last
known to be right); a rule runs when an input's `computedAt` is after its own
`builtAt`.

## Modules

| Module | Models |
| --- | --- |
| `BuildClient` | the rules and tasks as constant operators, and what a build from scratch computes (`CleanValues`), the reference for the engine |
| `BuildEngine` | the engine, the threads that compute, the client's calls, the database as the engine uses it, and every property |
| `MCIncremental`, `MCStaged`, `MCCycle` | three small build graphs |
| `BuildEngineProofs` | type correctness; the epochs are never from the future; what a step of the loop may do to one rule |
| `RequestProofs` | counting in lists; every step keeps the accounts of requests, wait counts and ready tasks |
| `EngineLoopProofs` | the threads, wake-ups and scan requests of the engine loop, and the theorems about it: counters, final values, inputs before tasks, one computation per build, no scan lost |
| `LaneQueue` | the execution queue, its process group, the threads that run, cancel and release it, and the processes |
| `MCLaneQueue` | three commands for the queue |
| `LaneQueueProofs` | a cancellation reaches every process; wake-ups, descriptors, and what is left at the end |
| `CleanBuild` | what the engine promises: a build is a build from scratch |
| `SQLiteBuildDB` | the database, used by several processes at once |
| `MCSQLiteBuildDB` | two keys and the dependencies of their results |
| `SQLiteBuildDBProofs` | locks, key ids and rows; what a process has in memory is what the tables say |
| `ActionContract` | what the llbuild3 engine relies on when it submits work |
| `ActionExecutor` | the llbuild3 executor, its lanes, processes, caches and shutdown |
| `ActionExecutorProofs` | the executor keeps the contract and finds what it looks up; its lanes wake up, and its destructor drains the subtasks |
| `TaskEngine` | the llbuild3 engine, over the contract |
| `MCTaskEngine` | an application, a library and the rule that initialises the engine |
| `TaskEngineProofs` | a task that waits is woken; exceptions have two causes |
| `CASLog` | the log of a process's output in the content addressed store |
| `CASLogProofs` | sealed directories, answers, and one log that only grows |

`BuildEngine` keeps the names of the source. Its variables are the members of
`BuildEngineImpl`, `RuleInfo`, `RuleScanRecord` and `TaskInfo`, with these
differences:

* a rule has one task at a time, so a task is named by its rule's key;
  `taskInfos` is the set of keys with a live task;
* `pc` is where the engine thread is: at the top of the loop, at one of the five
  queues, waiting, in `cancelRemainingTasks`, or about to return; a step handles
  one queue item. A scan request is handled one input at a time; it stays on top
  of the stack in between, and only threads and `cancelBuild` run in between,
  as in the code;
* `worker[k]` is where the thread that computes the task of `k` is inside
  `taskIsComplete`: computing, result stored, task queued, engine notified;
* single-use inputs are kept apart from the other dependencies, because
  `cleanSingleUseDependencies` drops them before any scan looks at the list;
* `db` is what is committed and `tx` the open transaction. A new process
  loads all results at once; the code loads each when the rule is first looked
  up, inside the same transaction, where it sees the same data;
* `result` is written by `taskIsComplete` on another thread, before the engine
  thread has taken the task from the queue: this order matters for cancellation
  and is kept.

`world` is everything a task reads outside the engine (files) and changes only
between builds; `manifest` is what the rules are made from and changes only with
a new process. A task interrupted by a cancellation may report the value
`Cancelled`, which `isResultValid` never accepts.

The condition variables are modelled with the lock: `WaitForTask` checks the
queue and blocks in one step, as the code does under `finishedTaskInfosMutex`,
and `SpuriousWakeup` may end any wait.

`findCycle` is a depth-first search in the order of keys; `IsCycleList` states
its result directly, as the lexicographically first walk from the key to build
that ends at the first rule met twice. `breakCycle` dereferences the position
after the end of its list in one case; the model then lets the process die or
go on with a rule that matches nothing.

`LaneQueue` stands on its own: the engine appears in it as the thread that adds
jobs and, when no task is outstanding, releases the queue. A job is a command
that spawns one process; `step[j]` is how far the thread in charge of it has
come in `executeProcess`, `spawnProcess`, `cleanUpExecutedProcess` and the
completion function. That thread is the lane `lane[l].job = j`, or a detached
thread (`background[j]`) once the process has asked to release its lane. What
runs under one mutex without blocking is one action. Two mutexes are held across
blocking operations and are therefore visible: the engine's `executionQueueMutex`
(`mutex`), during the whole of `cancelAllJobs` and of the destructor, and, in
one failure case, the mutex of the process group together with `readyJobsMutex`
(the step `deadlocked`). The completion function is the one of `ShellCommand`
and `CommandTask`: success of a command with dependency files adds a job of high
priority, a failure calls `hadCommandFailure`, which cancels the build in
`swift-build-tool` and `llbuild buildsystem build` (`CancelOnFailure`).
Processes, signals, spurious wake-ups and the moment a timeout expires are
external and nondeterministic: a process may ignore SIGINT and never end, but
not survive SIGKILL.

`CleanBuild` forgets everything between builds: a key is *settled* once in a build,
after the keys it reads and with a value a build from scratch gives it, and
`build` returns the value of its goal or nothing. `BuildEngine` implements it
(`ImplementsCleanBuild`): `memo` is the results of the complete rules, `building`
is `pc`, and scans, queues, threads, epochs, transactions and restarts are
stutters. It is stronger than a comparison at the end of a build, because it also
fixes when a rule may be complete. A cancelled build and a broken cycle give it up.

`SQLiteBuildDB` is the other side of `db` and `tx` in `BuildEngine`. Processes share
a path; the file at it may be unlinked and recreated while others are connected to
the old one, so files are numbered. `open` is split where another process can come
between: a file of another version is found and closed (`OpenMismatch`), and
whatever is at the path by then is replaced (`Recreate`). SQLite's
locks are `MayRead` and `MayLock`, and a build is one exclusive transaction on
`tx[f]`. `setRuleResult` is a job of several steps (the key id, each dependency id,
the row), because each step may extend the key table and the two caches.
Dependencies are packed as in the code: the id shifted by two bits, with the
flags below. `failed` has the statements whose last step failed, because the error
comes back from the next `sqlite3_reset`; `inserted` is the row a connection has
inserted last, because `getKeyIDFromDB` returns it after an insertion that was
ignored. `home`, `overtaken`, `mixed` and `broken` are history: which file a
process's knowledge is from, whether another process has built since it
attached, which contents were written with ids of another file or another key, and
for which keys a call has failed. They appear in properties and in no guard.

`TaskEngine` and `ActionExecutor` are the two halves of llbuild3. The engine does not
see the executor but `ActionContract`: a submission is accepted or refused, and
what was not refused is completed at most once, possibly before `submit` has
returned. `TaskEngine` makes the steps of the contract its own; `ActionExecutor` is
shown to implement it (`KeepsContract`), by TLC and by proof. In `TaskEngine` a task
has a context and a script of requests for each; `compute` is split into the
requests it makes, because `requestAction` and `spawnSubtask` unlock between the
submission and the recording of what was submitted. A transition of a cacheable
task is stored under its context and inputs, and later replayed on the thread
where the cache answers. In `ActionExecutor`, `stage[w]` is how far a request has
come and `pending` the table where callbacks look it up; the kinds are subtasks,
asynchronous subtasks, processes with and without a cached result, functions and
remote actions. The comparator of its queues is no ordering, so a lane takes any
item.

`CASLog` has a stream that buffers bytes and the writer below it. The store takes
chunks (`puts`) and directories (`syncs`) and answers each in any order, or with an
error. Sizes have the width `WordSize`, since the room left in the buffer is a
difference that wraps.

## Runs

Bounds of the engine's runs: `MaxEpoch` builds, `MaxCancels`, `MaxRestarts` and `MaxFaults` events.
Three builds are enough for a result to be stored, to be reused, and to be
reused again after the world has changed back; one cancellation, crash or
failure can hit every step of each of them.

| Run | Graph | Shows |
| --- | --- | --- |
| `incremental` | `MCIncremental` | over three builds with any change of two files: values as in a clean build; inputs before tasks; nothing runs without a reason or twice; `CleanBuild` is implemented |
| `restart` | `MCIncremental` | the same with a process that ends anywhere and returns with another manifest |
| `interrupted` | `MCStaged` | over two builds that are cancelled anywhere and in which one database operation fails anywhere: counters, wake-ups and the state left behind are exact, completed values are final, every build ends |
| `cycle` | `MCCycle` | over three builds, one of them cancelled anywhere: cycles that appear between builds are found, broken or reported, no request is lost, no scan is left over, every build ends |
| `lanes` | `MCLaneQueue` | three commands on one or two lanes, every system call may fail, a cancellation by a client or by a failed command anywhere: no lost wake-up, no more descriptors than allowed, no process that escapes, nothing left when the queue is released |
| `lanes_cancelled` | `MCLaneQueue` | two commands whose processes may hang: a cancelled build ends |
| `database` | `MCSQLiteBuildDB` | two processes, two builds, one fault (a crash, a failed commit or statement, a deleted file) anywhere: cached ids, rows, loaded results and locks, up to the three cases given up below |
| `executor` | | two requests of any kinds on two lanes, one asynchronous subtask at a time, a shutdown anywhere: the contract, no lost wake-up, lookups that succeed, and every accepted request is completed unless it is stuck in one of the ways below |
| `tasks` | `MCTaskEngine` | two builds in each of two engines that share the cache, one refused submission: every answer goes where it was asked for, replays are faithful, exceptions have two causes only, every build is answered |
| `log` | | up to five appends, three requests to the store open at a time, one failing: one log, which only grows; answers at most once, and not forgotten except behind a flush or after a failure |

`MCIncremental` has five keys with every kind of dependency (order-only,
single-use, discovered, requested after a value arrived, checked before
running). `MCStaged` has a task that requests an input depending on the value of
another one. `MCCycle` has two keys that depend on each other in some worlds and
a third that reaches them by a request or by a discovered dependency.
`MCLaneQueue` has a command with dependency files that may be interrupted, one
that may not, and one on the console. Three jobs on two lanes are enough for a
job to wait for a lane while another one is released to the background and a
third runs. The limits of 13 and 16 open files give one lane without background
tasks, and two lanes with one; 14, in `lanes_cancelled`, two lanes with none.

In `database`, two keys whose results depend on each other give two ids and two
dependencies with different flags, and three files are what two recreations need;
one of the two is stored in `database`, both are in `database_all`.
In `executor`, two requests of the same kind are the same action, so that one may
find the other's result in the cache; two lanes and two requests let one lane
sleep while the other works. In `tasks`, the second engine finds in the cache
what the first has stored; a subtask may report another value than before, so
that a replay can go wrong. In `log`, the constructor raises the limit of one
entry to three, so that the third chunk seals the first directory, or the fourth
where the limit is four; five appends fill a directory, seal it and go on behind it.

`incremental_all`, `cycle_all`, `lanes_all`, `executor_all`, `log_all`, `tasks_all`
and `database_all` are the same instances with all invariants of their modules: the
type invariants, and `SuccessfulBuildIsClean` (which `CleanBuild` implies),
`BuiltAfterComputed`, `TasksAreInProgress`, `NothingLeftOver` for cycles,
`GroupIsCurrent`, `NothingElseLeaks`, `InflightIsExact`, `DirectoriesAreSound`,
`NoByteLost`, `InitializedFirst` and `EpochIsNew`. They pass as well.

Deadlock is checked in the runs of the engine; `Rest` says that a client need
not build again. The queue really stops: once it is released, and in the failure
cases described below. So do the other components, when their bounded work is
done.

### Fairness

`interrupted` and `cycle` use `FairSpec`, for `BuildTerminates`. It assumes weak
fairness of the engine thread (it is a running thread) and of each computing
thread (a task's contract is to call `complete()`, and the execution queue runs
every job). Nothing is assumed about cancellation, failures, spurious wake-ups or
new builds.

`lanes_cancelled` and `pipe_deadlock` use the `FairSpec` of `LaneQueue`: weak
fairness of the engine's release, of each lane, of the thread in charge of each
job and of the cancellation with its killing thread (all are running threads,
and the wait of the killing thread has a timeout), and of the end of a process
that was sent SIGKILL and of its pipes. No process is assumed to end by itself.

`executor` and `tasks` assume weak fairness of `Progress` only: as long as some
thread can run, or some callback of the store, the cache, the remote executor, a
process or (in `tasks`) the executor is due, one of them happens. That some
particular thread runs is not assumed; both systems do a bounded amount of
work for what is submitted, so this is enough. Submissions, builds, refusals
and the shutdown are not assumed.

### Disagreements between code and documentation

TLC ends each of these configurations with a counterexample. The first two are
runs of `PROJECT.json`, with a finding each.

| Configuration | Property | What happens |
| --- | --- | --- |
| `stale_after_cancel` | `SuccessfulBuildIsClean` | a task is cancelled while it waits for an input; its rule keeps the value and the epochs of an earlier build, but only those dependencies that were recorded again before the cancellation. The next build scans these, finds nothing changed and returns the old value although the other input has changed, against `BuildEngine.cpp:1414` |
| `flush_never_ends` | `FlushIsPending` | `flushPending` is set by the first flush of a log and never reset; every later append is held back and not answered, against `CASLog.cpp:94` |
| `cycle_out_of_bounds` | `CycleSearchInBounds` | `breakCycle` reads past its list at `BuildEngine.cpp:1332`: the first rule of a cycle has no "downstream node in the cycle that wants this input" |
| `undiagnosed_cycle` | `NoUndiagnosedCycle` | scans that wait for each other are not reported as a cycle, against `BuildEngine.h:435`; the comment at `BuildEngine.cpp:1121` says this was observed and not reproduced |
| `queue_outlived` | `ReleaseWaitsForThreads` | a detached thread tells the engine its task is complete and then touches the queue (`LaneBasedExecutionQueue.cpp:440`), which the engine may have destroyed, against `BuildEngine.cpp:1613` |
| `pipe_deadlock` | `StartedJobsFinish` | when a pipe cannot be created, the completion function runs with the mutex of the process group held (`Subprocess.cpp:1141`); if it cancels the build, the lane waits for itself, against `ExecutionQueue.h:196` |
| `console_not_killed` | `KilledAfterTimeout` | signals go to the process's own group (`Subprocess.cpp:463`), which a console process does not have, against `Subprocess.h:228` |
| `half_open` | `OpenIsReady` | `open()` fails after the connection is stored, and the next call takes the database for open (`SQLiteBuildDB.cpp:119`) with statements that were not prepared, against the comment at line 117 |
| `failed_search` | `IDIsOfItsKey` | a search of `key_names` that fails is taken for a key without a row (`SQLiteBuildDB.cpp:918`); the insertion is ignored if there is one, and the id of the row inserted last, another key's or 0, is used and cached, against the comment at line 895 ("return a DBKeyID for the given engine KeyID") |
| `failure_untold` | `FailureIsTold` | a flush fails while the store has not answered an append; when the store accepts its chunk the append is dropped without an answer, against the comment at `CASLog.cpp:76` ("error will have already been sent to the handler") |
| `async_lane_asleep` | `AsyncLaneKeepsUp` | the end of an asynchronous subtask notifies the local lanes (`ActionExecutor.cpp:1365`); the lane that waits for it sleeps on, against line 1268 |
| `rule_in_flight` | `RequestsAreServed` | `requestRule` returns the id of a task in flight without recording the request (`Engine.cpp:498`), and the caller's wait for it is an error, against `Engine.h:64` |

Five more follow from the model of the engine and have no configuration of their own. Each can be
seen with the property as the invariant of a configuration of the named module
without cancellations (other bounds are 0 where not given):

* `RecordedInRequestOrder` (`MCStaged`, `MaxEpoch = 2`, `BuildKeys = {3, 4}`):
  requests paused for a scan are recorded after later requests, against
  `BuildEngine.h:124`;
* `EpochsIdentifyBuilds` (`MCStaged`, `MaxEpoch = 2`, one restart, one fault,
  `BuildKeys = {4}`): a failing `setCurrentIteration` still commits the results
  of its epoch, which the next process gives to another build, against
  `BuildEngine.h:63`;
* `TasksAreInProgress` (`MCStaged`, `MaxEpoch = 2`, one fault, `BuildKeys =
  {4}`): a failing `setRuleResult` makes `cancelRemainingTasks` fail its
  assertion at `BuildEngine.cpp:1427`;
* `CycleIsFound` (`MCCycle`, `Worlds = {0, 1}`, `MaxEpoch = 2`, `BuildKeys =
  {3}`): a cycle behind a discovered dependency is not found from the key to
  build, against the assertion at `BuildEngine.cpp:1154`;
* `NoScanLeftOver` (`MCCycle`, `Worlds = {0, 1}`, `MaxEpoch = 3`, `BuildKeys =
  {1, 3}`): scans that wait for each other can outlive a build that succeeds,
  against the comment at `BuildEngine.cpp:1123`.

The passing runs exclude these cases by their bounds and by what they state, not
by the model: `interrupted` does not state clean values, `cycle` keeps to cycles
that are requested rather than discovered, `incremental` does not cancel, and
the worlds of `cycle` still reach `CycleReadsPastEnd`, whose dead process ends
the build. `lanes` has all failures and a console process; `lanes_cancelled`
leaves out the console, the pipes that cannot be created and a failing `poll`,
after which `spawnProcess` returns without completing the task: each of them
keeps a build from ending. `AnswerOnItsWay` leaves out appends held back behind a
flush and those whose chunk is accepted after the log has failed.
`AcceptedIsCompleted` leaves out an asynchronous subtask that stays in the queue of
a lane which sleeps for ever, and a process that is lost because its `poll` failed or
its output was empty (the flush that completes it does nothing for an empty buffer,
`CASLog.h:154`). The properties of `database` give up on a process in three cases:
its file was replaced, or its commit failed, since the code keeps its cached ids; or a
search for a key failed and gave it another key's id. They give up on a file that
such a process has written to. `MemoryIsStore` also gives up on a process that
another one has overtaken, since results and epoch are read before the transaction and
not again. `ReplayIsFaithful` leaves out transitions that consume the results of
subtasks, which are not in the key of the cache, and replays of an error, since a
refused submission is stored like any other. `NoLostWakeup` of `TaskEngine` says that
somebody will wake a task that waits, not that tasks do not wait for each other in
a circle, which the code does not look for; the tasks of `tasks` do not.

## Proofs

Every theorem is of the form `Spec => []Inv` or `Spec => [][A]_vars`, or a
refinement, and holds for every value of the constants that satisfies the
assumptions named in the modules. The proofs have one lemma for each action (or for
a group of actions of one form) and lemmas for what the helpers of the model return.
In the proofs of the build engine, a fact that only one proof needs is a step of that
proof, named for the fact (`<1>ScanAccounts`), and not a lemma of the module.

### The build engine

`BuildEngineProofs` proves `TypeCorrect == Spec => []TypeOK`. `TypeOK` is
inductive. It says more than the shape of the variables: positions in scan
requests start at 1, the requests that are pending on a task or waiting to be
provided come from a task and not from a dummy request, epochs and budgets stay
natural numbers.

It also proves `EpochBound == Spec => []EpochsAreBounded`: while no database
operation fails, no result in memory or in the transaction is from an epoch after
`currentEpoch`, and none in the database from one after the stored iteration. The
inductive invariant `EpochInvariant` adds `TypeOK` and `FaultsAreSpent` (failures
are only used up, so that "none so far" cannot become true again). The premise is
needed: see `EpochsIdentifyBuilds` above.

`RequestProofs` and `EngineLoopProofs` are about the loop. The inductive invariant
`LoopInv` accounts for everything a task waits for:

* `Counted`: the wait count of a task is the number of its requests in the input
  queue, in the queue of finished inputs, paused at a scan and pending on another
  task. `Count` is the cardinality of a set of positions, and a request that moves
  from one list to another is a transfer between two counts; this is where the
  finite set of keys is needed;
* `ReadyOnce`: a task is in the ready queue once if it waits for nothing and has
  not been started, and otherwise not at all;
* `Live`: a rule in progress has a task, and a rule without one has no remains;
* `Threads`: a computing thread belongs to a rule that computes, a task is queued
  once as finished, and then its thread no longer computes;
* `Turn`: what the present turn of the loop has found empty, and what is over when
  a build is;
* `OutstandingIsExact` and `NoLostWakeup` themselves.

From it follow `WaitCounts`, `OutstandingTasks`, `WakeupsAreKept` and
`BuildsLeaveNothing` (`WaitCountIsExact`, `OutstandingIsExact`, `NoLostWakeup`,
`NothingLeftOver`), for every client and however many cancellations, restarts, faults
and broken cycles. None of the four is inductive: that the wait count is exact
needs the lists not to hold requests of tasks that are gone, and that the engine
sleeps only when somebody will wake it needs the finished tasks to be counted
once.

The three modules divide the work by what it needs. What a step does to one rule,
to a turn and to the inputs recorded for a rule needs no counting: it follows from
`Turn` and `Sound` (`Live`, `Threads`, and the head of the ready queue is ready), and
is in `BuildEngineProofs`. `RequestProofs` has the counting and shows that every step
keeps `Accounts` (`Counted`, `ReadyOnce` and `Live`). `EngineLoopProofs` adds the
threads and draws the conclusions.

Four more results start from `LoopInv`:

* `ValuesAreFinal == Spec => CompleteIsFinal`. Every step of the loop changes a
  rule's value only where `RuleStep` allows it; a late thread could change it, but
  `Threads` says that its rule still computes;
* `ComputesAtMostOnce == Spec => ComputesOnce`, if `MaxFaults = 0`. `BuiltBefore`
  (a rule that is not complete was last built in an earlier build) is carried
  along with `EpochsAreBounded`. When `setCurrentIteration()` fails, what the build
  stored is committed all the same, and after a restart the next build has the epoch
  of the last one: TLC then finds a rule that computes twice in one epoch;
* `InputsComeFirst == Spec => []ComputesAfterInputs`, if no cycle is broken
  (`TRUE \notin ResolveCycle`). `InputsInv`: an input recorded for a rule in progress
  is complete, or the rule's request is among those pending on it. A broken cycle
  provides a value that is not complete, which is its purpose;
* `ScansAreKept == Spec /\ []NoScanLeftOver => []ScanRequestsAreLive`, and
  `ScansWithoutBreaking == Spec => []ScanRequestsAreLive /\ []NoForced`, if no cycle is
  broken. `ScanInv`: a rule that is being scanned has exactly one scan request, in
  the queue, deferred to another scan or deferred to a task; a rule that has a
  request and is not being scanned was forced to run, and is not scanned again in
  this build; and requests are deferred only to a scan that goes on.
  `ScanRequestsAreLive` is not inductive: it says neither that the forced rule is not
  scanned again in this build, which would give it two requests, nor where a request
  may wait. One of the two premises is needed where a build starts: a rule that was
  forced keeps its old request until the scan that holds it ends, and if that scan
  outlives the build, the next build scans the rule a second time.

### The execution queue

`LaneQueueProofs` is for any jobs, lanes, limits and failures.

* `CancelReaches == Spec => []CancelReachesProcesses` and `GroupCurrent == Spec =>
  []GroupIsCurrent`, together inductive as `CancelInv`. The first alone is not: that
  `InterruptAll` reaches every process needs to know that the living ones are in
  the group, and that none starts afterwards needs `closed` and `cancelled` to agree.
* `NoWakeupIsLost == Spec => []WakeupsMatchJobs`, with `QueueTypes`: at most as many
  lanes are asleep as can be without leaving a ready job to nobody.
* `OpenFilesFit == Spec => []FilesAreBounded`, from `FilesFit` (what
  `estimateTaskLimits` returns fits in the limit) and `ServeInv`: a job between spawn
  and wait has a lane or a detached thread of its own, and `backgroundTaskCount` is
  the number of these threads and of those about to be refused.
* `ReleasedIsEmpty == Spec => []NothingRunsOn`, from `ReadyInv` (a job in a ready
  queue is there once and waits for a lane), `ServeInv` and `EndInv` (the order in
  which the destructor goes on).

### The database

`SQLiteBuildDBProofs` proves `IDsStayRight`, `RowsBelongToKeys` and
`LocksEndWithBuilds`, for any processes, keys and files and any conversion the
column makes of a key's text. None of the three is inductive. The invariant `Inv`
adds that a file is locked exactly while a process builds on it and is otherwise
what is committed, that a transaction only adds names beyond the last id and
changes none, that what a process knows is from one file, and that the ids
collected for a result under way are names of the transaction. Whichever way
`getKeyID` comes to an id (`Gets`), either the id names the key or the process is
given up in the same step (`home` becomes 0), so that a failed search is one more case
of the lemmas about it and not an exception to them.

`MemoryMirrorsStore == Spec => []MemoryIsStore` holds where the column keeps texts as
they are (`TextsAreKept`; two keys that are converted to the same text share
a row). `MemoryInv` adds to `Inv` that no two ids of a file name the same key, that a
process which is not yet attached knows no result, that the dependencies of a
result under way are encoded as far as the job has come, and that `MemoryIsStore`
holds in every stage in which the process is attached, not only while it builds:
results loaded before the transaction are still right when it begins, unless
another process has built in between.

### llbuild3

`ActionExecutorProofs` proves `ExecutorKeepsContract == Spec => KeepsContract`, the
refinement that lets `TaskEngine` be checked against `ActionContract` alone, and
from the same invariant `PendingItemsAreFound` (the assertions
`it != pending.end()`) and `OnlyProcessesLeak`. The invariant `ExecutorInv` ties, for
each request, the stage it is at to the table, the queues, the outstanding remote
callbacks and the number of completions: a callback completes a request only if
it finds it in the table, so a completed request must not be there while a
callback may still come. Every action is shown to keep the invariant and to be a
step of the contract or a stutter (`Good`). `IdleStep`, `CarryStep` and `EraseStep`
settle the actions of one form.

It also has `NoLaneOversleeps == Spec => []LanesKeepUp` (`KeepInv`:
inductive once the queue is known to be finite) and `DestructorDrainsSubtasks == Spec
=> []SubtasksAreDrained`. The invariant `DrainInv` says that lanes exit only with the
flag set and their queue empty, that nothing is submitted after the flag is set,
and that a subtask which was submitted is in a queue, with a lane, or over.

`TaskEngineProofs` proves `NoTaskIsForgotten == Spec => []NoLostWakeup` and
`ExceptionsHaveACause == Spec => []ThrowsOnlyFor`, for any rules, scripts and builds,
and whatever the executor and the cache answer. The invariant `EngineInv` says of
each task what it has asked for (`Asks`, `Inputs`), which work it owns (`Holds`), that
it waits for exactly those of the ids of its state that are open (`Waits`), and
that each of these will wake it (`Wakes`); of each work, that its owner knows it
unless the call that submits it has not returned (`WorkInv`); and of each entry of
the cache, that it can be replayed (`CacheInv`). The record of a task is an argument
of these definitions, so that a step that changes it in several places can be
taken apart. The proof showed that a task which waits for itself is
registered among its own requesters (`Engine.cpp:1097`), which an earlier version of the
model left out.

`CASLogProofs` is for all sizes and orders of answers.

* `SealedIsNewest == Spec => []FlushPrevails`, the assertion `op > lastWriteOp` of
  `postSync`, and `NoSecondAnswer == Spec => []AnsweredOnce`. `LogInv` says that a
  directory being sealed is newer than every other write in flight, because appends
  are held back from the moment it is started, and that an append is owed at most
  one answer, by the store or by one pending operation, and has had none.
* `NoAppendIsForgotten == Spec => []AnswerOnItsWay`. `DebtInv`: a pending operation has a
  write in flight that will answer it, and an append without an answer is known to
  the store or pending.
* `ToldIsOneLog == Spec => []PublishedIsOneLog` and the action property
  `LatestNeverGoesBack == Spec => LatestOnlyGrows`. `OneLogInv` describes the open
  directory, those in flight and those that were told as prefixes of one sequence
  of entries, in which every chunk is found once; the chain of directories is
  modelled as a sequence, so that no induction over it is needed.

### Assumptions

The assumptions are those named in the modules: the constants have their types, a
client's operators return what their names say, there are finitely many keys, rules,
builds and lanes and at least one lane, `NoWork`, `NoProc`, `NoKey` and `NoJob` are
none of the values they stand beside, no two rules produce the same artifact, the
ids of tasks and works differ, and `Affinity` is idempotent. Five theorems have a
premise of their own, given above: `MaxFaults = 0`, `TRUE \notin ResolveCycle` (two),
`[]NoScanLeftOver` and `TextsAreKept`.

### Only model-checked

* Liveness: `BuildTerminates`, `CancelEnds`, `AcceptedIsCompleted` and
  `BuildsAreAnswered` need fairness.
* `ImplementsCleanBuild` and the clean values: what a build from scratch computes is
  a recursive function of the graph, and the argument is an induction over it.
* `RunsForAReason`: the reason found by a scan (an input that changed in this build, a
  result that is out of date in this world) ends with the build, so the invariant
  has to say that a rule found to need a run is started in the same turn: that its
  request is at every moment on its way through the scan and input queues. That
  invariant is not worked out here.
* `CycleIsFound` and `NoScanLeftOver` are false for some clients (see above); they
  are checked for one whose cycles are requested.
* `InputsAreAnswers` and `ReplayIsFaithful` compare the inputs of a task, position by
  position, with the filtered list of ids it waited for; the filter is defined by
  recursion. The second also depends on the scripts: it does not hold for
  every one.

## Not modelled

In the engine: errors for misuse of its interface (a duplicate rule, a request
outside a callback, a second concurrent build), what a later build makes of a
result that `lookupRuleResult` has left half filled, the prior value handed to a
task, status callbacks, tracing, `dumpGraph`. The bookkeeping of scan records (free
lists and blocks) appears only as the rule that no scan outlives a build.

In the database: the queries of the analysis tools, failing statements inside
`open()`, errors after which SQLite rolls back the transaction by itself (a full disk,
an I/O error, no memory), and databases that refuse to be recreated.

In the queue and the subprocesses: the Windows branches, environments, job ids,
output, the bytes of the control protocol, the mutex that serialises console
commands, descendants that keep the pipes of a process open after its end, and a
pid that is reused between `wait4` and the removal from the group.

In llbuild3: listeners and the registration of providers at the executor, exit
codes (results are cached whatever they are, `ActionExecutor.cpp:1019`), the order of
its queues, the sandbox, cancellation (not implemented in the code), the order of
locks in the engine (`Engine.cpp:1390` requests a rule with `engineStateMutex`
held), collisions of hashes, and callbacks that arrive after an engine or an
executor is destroyed. The formats of stored objects and the databases behind the
store are left out.

The dependency file parsers, the build file and Ninja's lexer, parser and
manifest loader are functions of a text: what they say about characters is
better tested than modelled. The classes of the build system, the commands and the
Ninja command are clients of the engine; `BuildClient` stands for any client, and
which values they call valid is not modelled. The serial queue only orders what the
Ninja command prints. Frontends, the C and Swift interfaces and the tools forward,
parse options and print. Most of the repository's lines are third-party libraries
(protocol buffers, BLAKE3, LLVM support), generated code and tests, which the
modules do not stand for.
