-------------------------- MODULE EngineLoopProofs --------------------------

(***************************************************************************)
(* The engine loop neither loses nor repeats anything: every request,      *)
(* every ready task, every thread and every wake-up is accounted for, a    *)
(* value that was handed out is final, a rule computes after its inputs    *)
(* and at most once, and no scan request is lost.                          *)
(***************************************************************************)
EXTENDS RequestProofs

\* A leaf of the proofs that names no prover is left to Zenon.
USE Zenon

-----------------------------------------------------------------------------
(***************************************************************************)
(* The threads, and the count of what they have not reported               *)
(***************************************************************************)
Busy == {k \in Keys : Computing(k)}

\* The type of the queue of finished tasks.
LEMMA FinishedType ==
  ASSUME TypeOK
  PROVE  /\ finishedTaskInfos \in Seq(Keys) /\ Len(finishedTaskInfos) \in Nat
         /\ \A n \in DOMAIN finishedTaskInfos : finishedTaskInfos[n] \in Keys
<1>1. finishedTaskInfos \in Seq(Keys)
  BY DEF TypeOK
<1> QED BY ONLY <1>1, SMT

\* The busy threads are finitely many.
LEMMA BusyIsFinite == IsFiniteSet(Busy) /\ Cardinality(Busy) \in Nat
<1>1. Busy \in SUBSET Keys /\ IsFiniteSet(Keys)
  BY KeysAssumption DEF Busy
<1>2. IsFiniteSet(Busy)
  BY <1>1, FS_Subset
<1> QED BY <1>2, FS_CardinalityType

\* What the count says, in these terms.
LEMMA OutstandingIs == OutstandingIsExact <=> numOutstanding = Cardinality(Busy) + Len(finishedTaskInfos)
BY DEF OutstandingIsExact, Busy, Computing

\* A thread more, and one less.
LEMMA BusyGrows ==
  ASSUME TypeOK, NEW k \in Keys, worker' = [worker EXCEPT ![k] = "running"], ~Computing(k)
  PROVE  Cardinality(Busy') = Cardinality(Busy) + 1
<1>1. \A j \in Keys : worker'[j] = IF j = k THEN "running" ELSE worker[j]
  BY DEF TypeOK
<1>2. Busy' = Busy \cup {k}
  BY <1>1 DEF Busy, Computing
<1>3. k \notin Busy
  BY DEF Busy
<1> QED BY <1>2, <1>3, BusyIsFinite, FS_AddElement

\* A thread that has queued its task is one less that is busy.
LEMMA BusyShrinks ==
  ASSUME TypeOK, NEW k \in Keys, worker' = [worker EXCEPT ![k] = "queued"], Computing(k)
  PROVE  Cardinality(Busy') = Cardinality(Busy) - 1
<1>1. \A j \in Keys : worker'[j] = IF j = k THEN "queued" ELSE worker[j]
  BY DEF TypeOK
<1>2. Busy' = Busy \ {k}
  BY <1>1, SMT DEF Busy, Computing
<1>3. k \in Busy
  BY DEF Busy
<1> QED BY <1>2, <1>3, BusyIsFinite, FS_RemoveElement

\* With nothing outstanding no task computes and none is queued.
LEMMA NoneOutstanding ==
  ASSUME TypeOK, OutstandingIsExact, numOutstanding = 0
  PROVE  finishedTaskInfos = <<>> /\ \A k \in Keys : ~Computing(k)
<1>1. PICK b, l : b = Cardinality(Busy) /\ l = Len(finishedTaskInfos)
  OBVIOUS
<1>2. b \in Nat /\ l \in Nat /\ b + l = 0
  <2>1. b + l = 0
    BY <1>1, OutstandingIs
  <2> QED BY <1>1, <2>1, BusyIsFinite, FinishedType
<1>3. b = 0 /\ l = 0
  BY ONLY <1>2, SMT
<1>4. finishedTaskInfos = <<>>
  <2>1. Len(finishedTaskInfos) = 0 /\ finishedTaskInfos \in Seq(Keys)
    BY <1>1, <1>3, FinishedType
  <2> QED BY ONLY <2>1, SMT
<1>5. Busy = {}
  BY <1>1, <1>3, BusyIsFinite, FS_EmptySet
<1> QED BY <1>4, <1>5 DEF Busy

\* The invariant is enough for what the steps rely on.
LEMMA LoopIsSound == TypeOK /\ LoopInv => Sound
  BY AccountsAreSound DEF LoopInv

\* Every step keeps the threads and the count of outstanding tasks right.
LEMMA NextThreads ==
  ASSUME TypeOK, TypeOK', LoopInv, Next
  PROVE  Threads' /\ OutstandingIsExact'

\* What the count of outstanding tasks is after a step.
<1>NextOutstandingIs.
  OutstandingIsExact' <=> numOutstanding' = Cardinality(Busy') + Len(finishedTaskInfos')
  BY DEF OutstandingIsExact, Busy, Computing

\* A ready task gets a thread.
<1>ProcessReadyTaskThreads.
  ASSUME TypeOK, TypeOK', Accounts, Threads, OutstandingIsExact, ProcessReadyTask
  PROVE  Threads' /\ OutstandingIsExact'
  <2> USE <1>ProcessReadyTaskThreads
  <2>1. PICK k : k = Head(readyTaskInfos)
    OBVIOUS
  <2>2. k \in Keys /\ state[k] = "InProgressWaiting"
    BY <2>1, ProcessReadyTaskAccounts DEF IsReady
  <2>3. /\ state' = [state EXCEPT ![k] = "InProgressComputing"]
        /\ worker' = [worker EXCEPT ![k] = "running"]
        /\ numOutstanding' = numOutstanding + 1 /\ finishedTaskInfos' = finishedTaskInfos
    BY <2>1 DEF ProcessReadyTask
  <2>4. ~Computing(k) /\ \A n \in DOMAIN finishedTaskInfos : finishedTaskInfos[n] # k
    BY <2>2 DEF Threads
  <2>5. OutstandingIsExact'
    <3>1. Cardinality(Busy') = Cardinality(Busy) + 1 /\ Cardinality(Busy) \in Nat
      BY <2>2, <2>3, <2>4, BusyGrows, BusyIsFinite
    <3>2. numOutstanding = Cardinality(Busy) + Len(finishedTaskInfos)
      BY OutstandingIs
    <3>3. Len(finishedTaskInfos) \in Nat
      BY FinishedTypes
    <3>4. numOutstanding' = Cardinality(Busy') + Len(finishedTaskInfos')
      <4>1. Len(finishedTaskInfos') = Len(finishedTaskInfos)
        BY <2>3
      <4> QED BY ONLY <2>3, <3>1, <3>2, <3>3, <4>1, SMT
    <3> QED BY <3>4, <1>NextOutstandingIs
  <2>6. /\ \A j \in Keys : state'[j] = IF j = k THEN "InProgressComputing" ELSE state[j]
        /\ \A j \in Keys : worker'[j] = IF j = k THEN "running" ELSE worker[j]
    BY <2>2, <2>3 DEF TypeOK
  <2>7. \A n \in DOMAIN finishedTaskInfos : finishedTaskInfos[n] \in Keys
    BY FinishedTypes
  <2>8. \A j \in Keys : Computing(j)' => state'[j] = "InProgressComputing"
    BY <2>6 DEF Threads, Computing
  <2>9. \A n \in DOMAIN finishedTaskInfos :
          state'[finishedTaskInfos[n]] = "InProgressComputing" /\ ~Computing(finishedTaskInfos[n])'
    <3> TAKE n \in DOMAIN finishedTaskInfos
    <3>1. PICK j \in Keys : j = finishedTaskInfos[n] /\ j # k
      BY <2>4, <2>7
    <3>2. state[j] = "InProgressComputing" /\ ~Computing(j)
      BY <3>1 DEF Threads
    <3>3. state'[j] = state[j] /\ worker'[j] = worker[j]
      BY <2>6, <3>1
    <3> QED BY <2>3, <3>1, <3>2, <3>3 DEF Computing
  <2>10. Threads'
    BY <2>3, <2>8, <2>9 DEF Threads, Computing
  <2> QED BY <2>5, <2>10

\* A finished task is taken from the queue.
<1>CompleteRuleThreads.
  ASSUME TypeOK, TypeOK', Accounts, Threads, OutstandingIsExact,
         ProcessFinishedTask \/ FinishedTaskNotStored
  PROVE  Threads' /\ OutstandingIsExact'
  <2> USE <1>CompleteRuleThreads
  <2>1. PICK k, rest : k = Back(finishedTaskInfos) /\ rest = PopBack(finishedTaskInfos)
    OBVIOUS
  <2>2. finishedTaskInfos # <<>> /\ CompleteRule(k) /\ worker' = worker
    BY <2>1 DEF ProcessFinishedTask, FinishedTaskNotStored
  <2>3. finishedTaskInfos' = rest /\ numOutstanding' = numOutstanding - 1
    BY <2>1, <2>2 DEF CompleteRule
  <2>4. finishedTaskInfos \in Seq(Keys) /\ k \in Keys /\ rest \in Seq(Keys)
    BY <2>1, <2>2, BackType DEF TypeOK
  <2>5. PICK last : last = Len(finishedTaskInfos)
    OBVIOUS
  <2>6. /\ last \in Nat \ {0} /\ DOMAIN finishedTaskInfos = 1 .. last /\ k = finishedTaskInfos[last]
        /\ Len(rest) = last - 1 /\ DOMAIN rest = 1 .. last - 1
        /\ \A n \in 1 .. last - 1 : rest[n] = finishedTaskInfos[n]
    BY ONLY <2>1, <2>2, <2>4, <2>5, SMT DEF Back, PopBack
  <2>7. last \in 1 .. last /\ \A n \in 1 .. last - 1 : n \in 1 .. last /\ n # last
    BY ONLY <2>6, SMT
  <2>8. \A n \in DOMAIN rest : rest[n] = finishedTaskInfos[n] /\ n \in DOMAIN finishedTaskInfos /\ rest[n] # k
    BY <2>6, <2>7 DEF Threads
  <2>9. \A j \in Keys : state'[j] = IF j = k THEN "Complete" ELSE state[j]
    BY <2>2, <2>4 DEF CompleteRule, TypeOK
  <2>10. ~Computing(k)
    BY <2>6, <2>7 DEF Threads
  <2>11. \A j \in Keys : Computing(j)' => state'[j] = "InProgressComputing"
    BY <2>2, <2>9, <2>10 DEF Threads, Computing
  <2>12. \A n \in DOMAIN rest : rest[n] \in Keys
    BY ONLY <2>4, SMT
  <2>13. \A n \in DOMAIN rest :
           /\ state'[rest[n]] = "InProgressComputing" /\ ~Computing(rest[n])'
           /\ \A m \in DOMAIN rest : rest[m] = rest[n] => m = n
    <3> TAKE n \in DOMAIN rest
    <3>1. /\ state[rest[n]] = "InProgressComputing" /\ ~Computing(rest[n])
      BY <2>8 DEF Threads
    <3>2. \A m \in DOMAIN rest : rest[m] = rest[n] => m = n
      BY <2>8 DEF Threads
    <3>3. state'[rest[n]] = state[rest[n]]
      BY <2>8, <2>9, <2>12
    <3> QED BY <2>2, <3>1, <3>2, <3>3 DEF Computing
  <2>14. Threads'
    BY <2>3, <2>11, <2>13 DEF Threads, Computing
  <2>15. OutstandingIsExact'
    <3>1. Busy' = Busy
      BY <2>2 DEF Busy, Computing
    <3>2. numOutstanding = Cardinality(Busy) + last /\ Cardinality(Busy) \in Nat
      BY <2>5, OutstandingIs, BusyIsFinite
    <3>3. Len(finishedTaskInfos') = last - 1
      BY <2>3, <2>6
    <3>4. Cardinality(Busy') = Cardinality(Busy)
      BY <3>1
    <3>5. numOutstanding' = Cardinality(Busy') + Len(finishedTaskInfos')
      BY ONLY <2>3, <2>6, <3>2, <3>3, <3>4, SMT
    <3> QED BY <3>5, <1>NextOutstandingIs
  <2> QED BY <2>14, <2>15

\* cancelRemainingTasks() takes all queued tasks, and ends with none.
<1>DrainTasksThreads.
  ASSUME TypeOK, TypeOK', Threads, OutstandingIsExact, DrainTasks
  PROVE  Threads' /\ OutstandingIsExact'
  <2> USE <1>DrainTasksThreads
  <2>1. state' = state /\ worker' = worker
    BY DEF DrainTasks, ruleVars
  <2>2. CASE finishedTaskInfos = <<>>
    <3>1. numOutstanding' = numOutstanding /\ finishedTaskInfos' = finishedTaskInfos
      BY <2>2 DEF DrainTasks
    <3>2. Undisturbed
      BY <2>1, <3>1 DEF Undisturbed
    <3> QED BY <3>2, UndisturbedThreads
  <2>3. CASE finishedTaskInfos # <<>>
    <3>1. numOutstanding' = numOutstanding - Len(finishedTaskInfos) /\ finishedTaskInfos' = <<>>
      BY <2>3 DEF DrainTasks
    <3>2. DOMAIN finishedTaskInfos' = {} /\ Len(finishedTaskInfos') = 0
      BY ONLY <3>1, SMT
    <3>3. Threads'
      BY <2>1, <3>2 DEF Threads, Computing
    <3>4. Cardinality(Busy') = Cardinality(Busy)
      BY <2>1 DEF Busy, Computing
    <3>5. numOutstanding = Cardinality(Busy) + Len(finishedTaskInfos) /\ Cardinality(Busy) \in Nat
      BY OutstandingIs, BusyIsFinite
    <3>6. Len(finishedTaskInfos) \in Nat
      BY FinishedType
    <3>7. numOutstanding' = Cardinality(Busy') + Len(finishedTaskInfos')
      BY ONLY <3>1, <3>2, <3>4, <3>5, <3>6, SMT
    <3> QED BY <3>3, <3>7, <1>NextOutstandingIs
  <2> QED BY <2>2, <2>3

\* Where no task computes and none is queued, nothing is outstanding.
<1>NoThreads.
  ASSUME \A k \in Keys : ~Computing(k)', finishedTaskInfos' = <<>>, numOutstanding' = 0
  PROVE  Threads' /\ OutstandingIsExact'
  <2> USE <1>NoThreads
  <2>1. DOMAIN finishedTaskInfos' = {} /\ Len(finishedTaskInfos') = 0
    BY ONLY finishedTaskInfos' = <<>>, SMT
  <2>2. Threads'
    BY <2>1 DEF Threads, Computing
  <2>3. Busy' = {}
    BY DEF Busy
  <2>4. Cardinality(Busy') = 0
    BY <2>3, FS_EmptySet
  <2>5. numOutstanding' = Cardinality(Busy') + Len(finishedTaskInfos')
    BY ONLY <2>1, <2>4, numOutstanding' = 0, SMT
  <2> QED BY <2>2, <2>5, <1>NextOutstandingIs

\* cancelRemainingTasks() clears the tasks once no thread has any left.
<1>CancelRemainingTasksThreads.
  ASSUME TypeOK, OutstandingIsExact, CancelRemainingTasks
  PROVE  Threads' /\ OutstandingIsExact'
  <2> USE <1>CancelRemainingTasksThreads
  <2>1. numOutstanding = 0 /\ numOutstanding' = 0 /\ worker' = worker /\ finishedTaskInfos' = <<>>
    BY DEF CancelRemainingTasks
  <2>2. \A k \in Keys : ~Computing(k)'
    BY <2>1, NoneOutstanding DEF Computing
  <2> QED BY <2>1, <2>2, <1>NoThreads

\* A new process has no threads.
<1>RestartThreads.
  ASSUME Restart
  PROVE  Threads' /\ OutstandingIsExact'
  <2> USE <1>RestartThreads
  <2>1. numOutstanding' = 0 /\ worker' = [k \in Keys |-> "none"] /\ finishedTaskInfos' = <<>>
    BY DEF Restart
  <2>2. \A k \in Keys : ~Computing(k)'
    BY <2>1 DEF Computing
  <2> QED BY <2>1, <2>2, <1>NoThreads

\* The steps of a thread: it reports its result, queues its task and notifies.
<1>WorkerThreads.
  ASSUME TypeOK, TypeOK', Threads, OutstandingIsExact, NEW k \in Keys, WorkerStep(k)
  PROVE  Threads' /\ OutstandingIsExact'
  <2> USE <1>WorkerThreads
  <2>0. /\ state' = state /\ numOutstanding' = numOutstanding
        /\ \A n \in DOMAIN finishedTaskInfos : finishedTaskInfos[n] \in Keys
    <3>1. state' = state /\ numOutstanding' = numOutstanding
      BY DEF WorkerStep, TaskIsComplete, EnqueueFinishedTask, NotifyEngine, workerUnchanged
    <3> QED BY <3>1, FinishedType
  <2>1. CASE TaskIsComplete(k) \/ NotifyEngine(k)
    <3>1. finishedTaskInfos' = finishedTaskInfos
      BY <2>1 DEF TaskIsComplete, NotifyEngine
    <3>2. \A j \in Keys : Computing(j)' <=> Computing(j)
      <4>1. CASE TaskIsComplete(k)
        <5>1. worker' = [worker EXCEPT ![k] = "reported"] /\ worker[k] = "running"
          BY <4>1 DEF TaskIsComplete
        <5>2. \A j \in Keys : worker'[j] = IF j = k THEN "reported" ELSE worker[j]
          BY <5>1 DEF TypeOK
        <5> QED BY <5>1, <5>2 DEF Computing
      <4>2. CASE NotifyEngine(k)
        <5>1. worker' = [worker EXCEPT ![k] = "none"] /\ worker[k] = "queued"
          BY <4>2 DEF NotifyEngine
        <5>2. \A j \in Keys : worker'[j] = IF j = k THEN "none" ELSE worker[j]
          BY <5>1 DEF TypeOK
        <5> QED BY ONLY <5>1, <5>2, SMT DEF Computing
      <4> QED BY <2>1, <4>1, <4>2
    <3>3. Busy' = Busy
      BY <3>2 DEF Busy
    <3>4. OutstandingIsExact'
      BY <2>0, <3>1, <3>3, OutstandingIs, <1>NextOutstandingIs
    <3>5. \A n \in DOMAIN finishedTaskInfos : ~Computing(finishedTaskInfos[n])'
      BY <2>0, <3>1, <3>2 DEF Threads, Computing
    <3>6. Threads'
      BY <2>0, <3>1, <3>2, <3>5 DEF Threads
    <3> QED BY <3>4, <3>6
  <2>2. CASE EnqueueFinishedTask(k)
    <3>1. /\ worker' = [worker EXCEPT ![k] = "queued"] /\ worker[k] = "reported"
          /\ finishedTaskInfos' = Append(finishedTaskInfos, k)
      BY <2>2 DEF EnqueueFinishedTask
    <3>2. Computing(k)
      BY <3>1 DEF Computing
    <3>3. \A j \in Keys : worker'[j] = IF j = k THEN "queued" ELSE worker[j]
      BY <3>1 DEF TypeOK
    <3>4. \A j \in Keys : Computing(j)' <=> Computing(j) /\ j # k
      BY <3>3 DEF Computing
    <3>5. PICK last : last = Len(finishedTaskInfos)
      OBVIOUS
    <3>6. /\ last \in Nat /\ DOMAIN finishedTaskInfos = 1 .. last
          /\ DOMAIN finishedTaskInfos' = 1 .. last + 1 /\ Len(finishedTaskInfos') = last + 1
          /\ finishedTaskInfos'[last + 1] = k
          /\ \A n \in 1 .. last : finishedTaskInfos'[n] = finishedTaskInfos[n]
      <4>1. finishedTaskInfos \in Seq(Keys)
        BY FinishedType
      <4> QED BY ONLY <3>1, <3>5, <4>1, k \in Keys, SMT
    <3>7. \A n \in 1 .. last + 1 : n \in 1 .. last \/ n = last + 1
      BY ONLY <3>6, SMT
    <3>8. \A n \in 1 .. last :
            /\ state[finishedTaskInfos[n]] = "InProgressComputing"
            /\ finishedTaskInfos[n] # k /\ ~Computing(finishedTaskInfos[n])
            /\ \A m \in 1 .. last : finishedTaskInfos[m] = finishedTaskInfos[n] => m = n
      BY <3>2, <3>6 DEF Threads
    <3>9. state[k] = "InProgressComputing"
      BY <3>2 DEF Threads
    <3>10. \A n \in 1 .. last + 1 :
            /\ state'[finishedTaskInfos'[n]] = "InProgressComputing"
            /\ ~Computing(finishedTaskInfos[n])'
            /\ \A m \in 1 .. last + 1 : finishedTaskInfos'[m] = finishedTaskInfos'[n] => m = n
      <4> TAKE n \in 1 .. last + 1
      <4>1. CASE n \in 1 .. last
        <5>1. PICK j \in Keys : j = finishedTaskInfos[n] /\ j = finishedTaskInfos'[n]
          BY <2>0, <3>6, <4>1
        <5>2. state[j] = "InProgressComputing" /\ j # k /\ ~Computing(j)
          BY <3>8, <4>1, <5>1
        <5>3. ~Computing(j)'
          BY <3>4, <5>2
        <5>4. ~Computing(finishedTaskInfos[n])'
          BY <5>1, <5>3 DEF Computing
        <5>5. \A m \in 1 .. last + 1 : finishedTaskInfos'[m] = finishedTaskInfos'[n] => m = n
          <6> TAKE m \in 1 .. last + 1
          <6>1. CASE m \in 1 .. last
            BY <3>6, <3>8, <4>1, <6>1
          <6>2. CASE m = last + 1
            BY <3>6, <5>1, <5>2, <6>2
          <6> QED BY <3>7, <6>1, <6>2
        <5> QED BY <2>0, <5>1, <5>2, <5>4, <5>5
      <4>2. CASE n = last + 1
        <5>1. finishedTaskInfos'[n] = k
          BY <3>6, <4>2
        <5>2. ~Computing(finishedTaskInfos[n])'
          BY <3>4, <5>1 DEF Computing
        <5>3. \A m \in 1 .. last + 1 : finishedTaskInfos'[m] = k => m = n
          <6> TAKE m \in 1 .. last + 1
          <6>1. CASE m \in 1 .. last
            BY <3>6, <3>8, <6>1
          <6> QED BY <3>7, <4>2, <6>1
        <5> QED BY <2>0, <3>9, <5>1, <5>2, <5>3
      <4> QED BY <3>7, <4>1, <4>2
    <3>11. Threads'
      BY <2>0, <3>4, <3>6, <3>10 DEF Threads
    <3>12. Cardinality(Busy') = Cardinality(Busy) - 1 /\ Cardinality(Busy) \in Nat
      BY <3>1, <3>2, BusyShrinks, BusyIsFinite
    <3>13. numOutstanding = Cardinality(Busy) + last
      BY <3>5, OutstandingIs
    <3>14. numOutstanding' = Cardinality(Busy') + Len(finishedTaskInfos')
      BY ONLY <2>0, <3>6, <3>12, <3>13, SMT
    <3> QED BY <3>11, <3>14, <1>NextOutstandingIs
  <2> QED BY <2>1, <2>2 DEF WorkerStep
<1>1. Accounts /\ Threads /\ OutstandingIsExact
  BY DEF LoopInv
<1>2. CASE ProcessRuleScanRequest \/ ProcessInputRequest
  BY <1>1, <1>2, LoopsAreUndisturbing, UndisturbedThreads
<1>3. CASE ProcessReadyTask
  BY <1>1, <1>3, <1>ProcessReadyTaskThreads
<1>4. CASE ProcessFinishedTask \/ FinishedTaskNotStored
  BY <1>1, <1>4, <1>CompleteRuleThreads
<1>5. CASE DrainTasks
  BY <1>1, <1>5, <1>DrainTasksThreads
<1>6. CASE CancelRemainingTasks \/ Restart
  BY <1>1, <1>6, <1>CancelRemainingTasksThreads, <1>RestartThreads
<1>7. CASE \E k \in Keys : WorkerStep(k)
  BY <1>1, <1>7, <1>WorkerThreads
<1>8. CASE \/ ProcessFinishedInput \/ ResolveOrReportCycle
           \/ StartTurn \/ NextQueue \/ EndTurn \/ WaitForTask \/ BuildIsDone
           \/ BuildEnds \/ BuildEndsIterationNotStored
           \/ BuildStarts \/ BuildIsRefused \/ BuildIsNotStarted \/ CancelBuild \/ ResetForBuild
           \/ SpuriousWakeup \/ UNCHANGED vars
  BY <1>1, <1>8, OthersAreUndisturbing, UndisturbedThreads
<1> QED BY <1>2, <1>3, <1>4, <1>5, <1>6, <1>7, <1>8 DEF Next, EngineStep, ClientStep, Rest

\* The engine sleeps only while a thread has its wake-up still before it: it goes to
\* sleep when a task computes, and only that thread's notification, which wakes it,
\* ends that.
LEMMA NextNoLostWakeup ==
  ASSUME TypeOK, LoopInv, Next
  PROVE  NoLostWakeup'

\* With something outstanding and none queued, a task computes.
<1>SomeComputing.
  ASSUME TypeOK, OutstandingIsExact, numOutstanding # 0, finishedTaskInfos = <<>>
  PROVE  \E k \in Keys : Computing(k)
  <2> USE <1>SomeComputing
  <2>1. Len(finishedTaskInfos) = 0
    OBVIOUS
  <2>2. numOutstanding = Cardinality(Busy) + 0 /\ Cardinality(Busy) \in Nat
    BY <2>1, OutstandingIs, BusyIsFinite
  <2>3. Cardinality(Busy) # 0
    BY ONLY <2>2, numOutstanding # 0, SMT
  <2>4. Busy # {}
    BY <2>3, BusyIsFinite, FS_EmptySet
  <2> QED BY <2>4 DEF Busy
<1>1. OutstandingIsExact /\ NoLostWakeup
  BY DEF LoopInv
<1> SUFFICES ASSUME pc' \in {"waiting", "drainWaiting"}
             PROVE  \E k \in Keys : worker'[k] # "none"
  BY DEF NoLostWakeup
<1>2. CASE \/ ProcessRuleScanRequest \/ ProcessInputRequest \/ ProcessFinishedInput
           \/ ProcessReadyTask \/ ProcessFinishedTask \/ FinishedTaskNotStored
  BY <1>2, WorkTurn
<1>3. CASE ResolveOrReportCycle
  BY <1>3 DEF ResolveOrReportCycle, CycleForcesRule, CycleSuppliesPriorValue,
     CycleIsReported, CycleReadsPastEnd
<1>4. CASE \/ StartTurn \/ EndTurn \/ BuildStarts \/ SpuriousWakeup \/ NextQueue
           \/ BuildIsDone \/ CancelRemainingTasks \/ BuildEnds \/ BuildEndsIterationNotStored
           \/ Restart
  BY <1>4 DEF StartTurn, EndTurn, BuildStarts, SpuriousWakeup, NextQueue, BuildIsDone,
     CancelRemainingTasks, BuildEnds, BuildEndsIterationNotStored, Restart
<1>5. CASE WaitForTask \/ DrainTasks
  <2>1. numOutstanding # 0 /\ finishedTaskInfos = <<>> /\ worker' = worker
    <3>1. CASE WaitForTask
      BY <3>1 DEF WaitForTask, loopUnchanged, workVars
    <3>2. CASE DrainTasks
      BY <3>2 DEF DrainTasks
    <3> QED BY <1>5, <3>1, <3>2
  <2>2. PICK k \in Keys : Computing(k)
    BY <1>1, <2>1, <1>SomeComputing
  <2>3. worker[k] # "none"
    BY <2>2 DEF Computing
  <2> QED BY <2>1, <2>3
<1>6. CASE Aside
  BY <1>1, <1>6, AsideIs DEF NoLostWakeup
<1>7. ASSUME NEW k \in Keys, WorkerStep(k)
      PROVE  \E j \in Keys : worker'[j] # "none"
  <2>1. ~NotifyEngine(k)
    BY DEF NotifyEngine
  <2>2. worker' = [worker EXCEPT ![k] = "reported"] \/ worker' = [worker EXCEPT ![k] = "queued"]
    BY <1>7, <2>1 DEF WorkerStep, TaskIsComplete, EnqueueFinishedTask
  <2>3. worker'[k] \in {"reported", "queued"}
    BY <2>2 DEF TypeOK
  <2> QED BY <2>3
<1> QED BY <1>2, <1>3, <1>4, <1>5, <1>6, <1>7
        DEF Next, EngineStep, ClientStep, Rest, Aside

-----------------------------------------------------------------------------
(***************************************************************************)
(* The invariant of the loop, and what follows from it                     *)
(***************************************************************************)
\* It holds at first,
LEMMA InitLoopInv == Init => LoopInv
<1> SUFFICES ASSUME Init
             PROVE  LoopInv
  OBVIOUS
<1>1. Cleared
  BY DEF Init, Cleared, InProgress
<1>2. \A k \in Keys : ~Computing(k)
  BY DEF Init, Computing
<1>3. DOMAIN finishedTaskInfos = {} /\ Len(finishedTaskInfos) = 0
  BY SMT DEF Init
<1>4. Threads
  BY <1>2, <1>3 DEF Threads
<1>5. Busy = {}
  BY <1>2 DEF Busy
<1>6. numOutstanding = Cardinality(Busy) + Len(finishedTaskInfos)
  <2>1. Cardinality(Busy) = 0 /\ numOutstanding = 0
    BY <1>5, FS_EmptySet DEF Init
  <2> QED BY ONLY <1>3, <2>1, SMT
<1>7. Turn
  BY DEF Init, Turn
<1>8. NoLostWakeup
  BY DEF Init, NoLostWakeup
<1> QED BY <1>1, <1>4, <1>6, <1>7, <1>8, ClearedAccounts, OutstandingIs DEF LoopInv

\* Every step keeps the invariant of the loop.
LEMMA NextLoopInv == TypeOK /\ TypeOK' /\ LoopInv /\ [Next]_vars => LoopInv'
<1> SUFFICES ASSUME TypeOK, TypeOK', LoopInv, [Next]_vars
             PROVE  LoopInv'
  OBVIOUS
<1>1. CASE Next
  BY <1>1, NextAccounts, NextThreads, NextTurn, NextNoLostWakeup DEF LoopInv
<1>2. CASE UNCHANGED vars
  <2>1. Accounts /\ Threads /\ Turn /\ OutstandingIsExact /\ NoLostWakeup
    BY DEF LoopInv
  <2>2. Accounts'
    BY <1>2, <2>1, ElsewiseAccounts DEF Elsewise
  <2>3. Threads' /\ OutstandingIsExact'
    BY <1>2, <2>1, OthersAreUndisturbing, UndisturbedThreads
  <2>4. Aside
    BY <1>2 DEF Aside
  <2>5. Turn' /\ NoLostWakeup'
    BY <2>1, <2>4, AsideIs DEF Turn, NoLostWakeup
  <2> QED BY <2>2, <2>3, <2>5 DEF LoopInv
<1> QED BY <1>1, <1>2

\* Everything the loop has to do is accounted for at every step.
THEOREM LoopIsAccountedFor == Spec => []LoopInv
<1>1. Init => LoopInv
  BY InitLoopInv
<1>2. TypeOK /\ TypeOK' /\ LoopInv /\ [Next]_vars => LoopInv'
  BY NextLoopInv
<1> QED BY <1>1, <1>2, TypeCorrect, PTL DEF Spec

\* No input is lost or provided twice, and no task is made ready twice, for any rules
\* and requests of the client (decrementTaskWaitCount).
THEOREM WaitCounts == Spec => []WaitCountIsExact
<1>1. TypeOK /\ LoopInv => WaitCountIsExact
  BY CountedIsExact DEF LoopInv, Accounts
<1> QED BY <1>1, TypeCorrect, LoopIsAccountedFor, PTL

\* numOutstandingUnfinishedTasks counts what is computing or queued on every path, the
\* failing and cancelled ones included.
THEOREM OutstandingTasks == Spec => []OutstandingIsExact
<1>1. LoopInv => OutstandingIsExact
  BY DEF LoopInv
<1> QED BY <1>1, LoopIsAccountedFor, PTL

\* The engine thread never sleeps on finishedTaskInfosCondition with nobody left to
\* notify it.
THEOREM WakeupsAreKept == Spec => []NoLostWakeup
<1>1. LoopInv => NoLostWakeup
  BY DEF LoopInv
<1> QED BY <1>1, LoopIsAccountedFor, PTL

\* A build that returns, by whatever path, leaves no task, queued request or thread.
THEOREM BuildsLeaveNothing == Spec => []NothingLeftOver
<1>1. TypeOK /\ LoopInv => NothingLeftOver
  <2> SUFFICES ASSUME TypeOK, LoopInv, pc = "idle"
               PROVE  /\ taskInfos = {} /\ numOutstanding = 0
                      /\ \A k \in Keys : ~InProgress(k) /\ worker[k] = "none"
                      /\ ruleInfosToScan = <<>> /\ inputRequests = <<>>
                      /\ finishedInputRequests = <<>>
                      /\ readyTaskInfos = <<>> /\ finishedTaskInfos = <<>>
    BY DEF NothingLeftOver
  <2>1. Counted /\ ReadyOnce /\ Live /\ Turn /\ OutstandingIsExact
    BY DEF LoopInv, Accounts
  <2>2. /\ taskInfos = {} /\ numOutstanding = 0 /\ ruleInfosToScan = <<>> /\ inputRequests = <<>>
        /\ \A k \in Keys : worker[k] = "none"
    BY <2>1 DEF Turn
  <2>3. \A k \in Keys : ~InProgress(k) /\ task[k] = NewTask
    BY <2>1, <2>2 DEF Live
  <2>4. finishedTaskInfos = <<>>
    BY <2>1, <2>2, NoneOutstanding
  <2>5. ASSUME NEW T, NEW s \in Seq(T), \A n \in DOMAIN s : FALSE
        PROVE  s = <<>>
    BY <2>5, SMT
  <2>6. readyTaskInfos = <<>>
    <3>1. readyTaskInfos \in Seq(Keys) /\ \A n \in DOMAIN readyTaskInfos : readyTaskInfos[n] \in Keys
      BY RequestTypesOf, SMT
    <3>2. ASSUME NEW n \in DOMAIN readyTaskInfos PROVE FALSE
      <4>0. PICK k \in Keys : k = readyTaskInfos[n]
        BY <3>1, <3>2
      <4>1. PICK S : k = readyTaskInfos[n] /\ S = {k}
        BY <4>0
      <4>2. Count(readyTaskInfos, S) = 0
        BY <2>1, <2>3, <4>1 DEF ReadyOnce, IsReady, InProgress
      <4>3. \A m \in DOMAIN readyTaskInfos : readyTaskInfos[m] \notin S
        BY <3>1, <4>2, CountUniform
      <4> QED BY <3>2, <4>1, <4>3
    <3> QED BY <2>5, <3>1, <3>2
  <2>7. finishedInputRequests = <<>>
    <3>1. finishedInputRequests \in Seq(PendingRequest) /\ finishedInputRequests \in Seq(InputRequest)
      BY RequestTypesOf DEF TypeOK
    <3>2. ASSUME NEW n \in DOMAIN finishedInputRequests PROVE FALSE
      <4>1. finishedInputRequests[n] \in PendingRequest /\ finishedInputRequests[n] \in InputRequest
        BY ONLY <3>1, <3>2, SMT
      <4>2. PICK k \in Keys : k = finishedInputRequests[n].task
        BY <4>1 DEF PendingRequest, RequestsFrom
      <4>3. Requests(k) = 0
        <5>1. NewTask.waitCount = 0
          BY DEF NewTask
        <5> QED BY <2>1, <2>3, <5>1 DEF Counted
      <4>4. PICK a, b, c, d :
              /\ a = Count(inputRequests, Of(k)) /\ b = Count(finishedInputRequests, Of(k))
              /\ c = CountAt(pausedInputRequests, Of(k)) /\ d = CountAt(Pending, Of(k))
        OBVIOUS
      <4>5. a \in Nat /\ b \in Nat /\ c \in Nat /\ d \in Nat /\ (a + b) + (c + d) = 0
        BY <4>3, <4>4, RequestsType DEF Requests
      <4>6. b = 0
        BY ONLY <4>5, SMT
      <4>7. finishedInputRequests[n] \notin Of(k)
        BY <3>1, <4>4, <4>6, CountUniform
      <4> QED BY <4>1, <4>2, <4>7, IsOf
    <3> QED BY <2>5, <3>1, <3>2
  <2> QED BY <2>2, <2>3, <2>4, <2>6, <2>7
<1> QED BY <1>1, TypeCorrect, LoopIsAccountedFor, PTL

\* No late report of a thread, and no other step, changes a value that was handed to
\* other tasks: a thread reports only while its rule is computing.
THEOREM ValuesAreFinal == Spec => CompleteIsFinal
<1>1. TypeOK /\ TypeOK' /\ LoopInv /\ [Next]_vars =>
        [\A k \in Keys : IsComplete(k) /\ IsComplete(k)' =>
           /\ result'[k].value = result[k].value
           /\ result'[k].computedAt = result[k].computedAt]_vars
  BY LoopIsSound, ValuesAreKept DEF SameValue
<1> QED BY <1>1, TypeCorrect, LoopIsAccountedFor, PTL DEF Spec, CompleteIsFinal

\* As long as no database operation fails, a rule computes at most once in a build.
\* (After a failed setCurrentIteration the same epoch names two builds.)
THEOREM ComputesAtMostOnce ==
  ASSUME MaxFaults = 0
  PROVE  Spec => ComputesOnce
<1>1. TypeOK /\ FaultsAreSpent /\ EpochsAreBounded => ResultsUpTo(result, currentEpoch)
  <2> SUFFICES ASSUME TypeOK, FaultsAreSpent, EpochsAreBounded
               PROVE  ResultsUpTo(result, currentEpoch)
    OBVIOUS
  <2>1. budget.faults \in Nat /\ budget.faults <= 0
    BY DEF TypeOK, FaultsAreSpent
  <2>2. budget.faults = MaxFaults
    BY ONLY <2>1, MaxFaults = 0, SMT
  <2> QED BY <2>2 DEF EpochsAreBounded
<1>2. Init => BuiltBefore
  BY DEF Init, BuiltBefore
<1>3. TypeOK /\ TypeOK' /\ LoopInv /\ ResultsUpTo(result, currentEpoch) /\ BuiltBefore
      /\ [Next]_vars => BuiltBefore'
  <2>1. UNCHANGED vars /\ BuiltBefore => BuiltBefore'
    BY DEF vars, BuiltBefore, ruleVars, clientVars
  <2> QED BY <2>1, LoopIsSound, NextBuiltBefore
<1>4. TypeOK /\ TypeOK' /\ LoopInv /\ BuiltBefore /\ [Next]_vars =>
        [\A k \in Keys : worker[k] # "running" /\ worker'[k] = "running" =>
           state[k] = "InProgressWaiting" /\ result[k].builtAt # currentEpoch]_vars
  BY LoopIsSound, ComputesAfterWaiting
<1>5. Spec => [](TypeOK /\ FaultsAreSpent /\ EpochsAreBounded)
  <2>1. EpochInvariant => TypeOK /\ FaultsAreSpent /\ EpochsAreBounded
    BY DEF EpochInvariant
  <2> QED BY <2>1, EpochInvariantHolds, PTL
<1> QED BY <1>1, <1>2, <1>3, <1>4, <1>5, LoopIsAccountedFor, PTL DEF Spec, ComputesOnce

\* Where cycles are not broken, a rule only computes once everything recorded for it is
\* up to date: nothing of its task is pending any more, so nothing was left out.
THEOREM InputsComeFirst ==
  ASSUME TRUE \notin ResolveCycle
  PROVE  Spec => []ComputesAfterInputs
<1>1. Init => InputsInv
  BY DEF Init, InputsInv, InProgress
<1>2. TypeOK /\ TypeOK' /\ LoopInv /\ LoopInv' /\ InputsInv /\ [Next]_vars => InputsInv'
  <2>1. (TypeOK /\ LoopInv => Sound)'
    BY LoopIsSound, PTL
  <2> QED BY <2>1, LoopIsSound, NextInputs DEF LoopInv
<1>3. TypeOK /\ LoopInv /\ InputsInv => ComputesAfterInputs
  <2> SUFFICES ASSUME TypeOK, LoopInv, InputsInv, NEW k \in Keys, worker[k] = "running"
               PROVE  /\ \A d \in Range(result[k].dependencies) : IsComplete(d.key)
                      /\ \A i \in result[k].singleUse : IsComplete(i)
    BY DEF ComputesAfterInputs
  <2>1. state[k] = "InProgressComputing"
    BY DEF LoopInv, Threads, Computing
  <2>2. Requests(k) = 0
    BY <2>1 DEF LoopInv, Accounts, Live, Counted
  <2>3. CountAt(Pending, Of(k)) = 0
    <3>1. PICK a, b, c, d :
            /\ a = Count(inputRequests, Of(k)) /\ b = Count(finishedInputRequests, Of(k))
            /\ c = CountAt(pausedInputRequests, Of(k)) /\ d = CountAt(Pending, Of(k))
      OBVIOUS
    <3>2. a \in Nat /\ b \in Nat /\ c \in Nat /\ d \in Nat /\ (a + b) + (c + d) = 0
      BY <2>2, <3>1, RequestsType DEF Requests
    <3>3. d = 0
      BY ONLY <3>2, SMT
    <3> QED BY <3>1, <3>3
  <2>4. ASSUME NEW i \in Keys
        PROVE  ~WaitsAt(k, i)
    <3>1. Pending \in [Keys -> Seq(InputRequest)]
      BY RequestTypesOf
    <3>2. PICK s : s = task[i].requestedBy
      OBVIOUS
    <3>3. s \in Seq(InputRequest) /\ Count(s, Of(k)) = 0
      <4>1. Pending[i] = s /\ Count(Pending[i], Of(k)) = 0
        BY <2>3, <3>1, <3>2, CountAtZero DEF Pending
      <4> QED BY <3>1, <4>1
    <3>4. \A n \in DOMAIN s : s[n] \notin Of(k)
      BY <3>3, CountUniform
    <3>5. \A n \in DOMAIN s : s[n] \in InputRequest
      BY ONLY <3>3, SMT
    <3> QED BY <3>2, <3>4, <3>5, IsOf DEF WaitsAt
  <2>5. \A i \in Keys : Recorded(result[k], i) => IsComplete(i)
    BY <2>1, <2>4 DEF InputsInv, InProgress
  <2>6. result[k] \in Result
    BY DEF TypeOK
  <2>7. \A i \in result[k].singleUse : IsComplete(i)
    BY <2>5, <2>6 DEF Recorded, Result
  <2>8. ASSUME NEW d \in Range(result[k].dependencies)
        PROVE  IsComplete(d.key)
    <3>1. PICK n \in DOMAIN result[k].dependencies : d = result[k].dependencies[n]
      BY <2>8 DEF Range
    <3>2. result[k].dependencies \in Seq(Dependency)
      BY <2>6 DEF Result
    <3>3. d \in Dependency
      BY ONLY <3>1, <3>2, SMT
    <3>4. d.key \in Keys
      BY <3>3 DEF Dependency
    <3>5. Recorded(result[k], d.key)
      BY <3>1 DEF Recorded
    <3> QED BY <2>5, <3>4, <3>5
  <2> QED BY <2>7, <2>8
<1> QED BY <1>1, <1>2, <1>3, TypeCorrect, LoopIsAccountedFor, PTL DEF Spec

-----------------------------------------------------------------------------
(***************************************************************************)
(* The scan requests                                                       *)
(***************************************************************************)
\* The scan requests for rule k, wherever they are.
For(k) == {q \in ScanRequest : q.rule = k}
Deferred == [i \in Keys |-> task[i].deferredScans]
Scans(k) == Count(ruleInfosToScan, For(k))
            + (CountAt(deferredScanRequests, For(k)) + CountAt(Deferred, For(k)))

\* A rule with a request that does not scan was forced to run in this build, so that
\* it is not scanned again in it; and requests wait only for a scan that will end.
ScanInv ==
  \A k \in Keys :
    /\ IsScanning(k) => Scans(k) = 1
    /\ ~IsScanning(k) /\ Scans(k) # 0 => wasForced[k] /\ IsScanned(k)
    /\ deferredScanRequests[k] # <<>> => IsScanning(k)

ScanList == Seq(ScanRequest)
ScanLists == Lists(ScanRequest)

\* The lists of scan requests are lists of scan requests.
LEMMA ScanListTypes ==
  ASSUME TypeOK
  PROVE  /\ ruleInfosToScan \in ScanList /\ deferredScanRequests \in ScanLists
         /\ Deferred \in ScanLists
<1>1. \A i \in Keys : task[i].deferredScans \in Seq(ScanRequest)
  BY DEF TypeOK, TaskInfo
<1> QED BY <1>1 DEF TypeOK, Deferred, ScanList, ScanLists, Lists

\* The counts before and after a step.
ScanNumbered(k) ==
  /\ Count(ruleInfosToScan, For(k)) \in Nat /\ Count(ruleInfosToScan', For(k)) \in Nat
  /\ CountAt(deferredScanRequests, For(k)) \in Nat /\ CountAt(deferredScanRequests', For(k)) \in Nat
  /\ CountAt(Deferred, For(k)) \in Nat /\ CountAt(Deferred', For(k)) \in Nat
  /\ Scans(k) = Count(ruleInfosToScan, For(k))
                + (CountAt(deferredScanRequests, For(k)) + CountAt(Deferred, For(k)))
  /\ Scans(k)' = Count(ruleInfosToScan', For(k))
                 + (CountAt(deferredScanRequests', For(k)) + CountAt(Deferred', For(k)))

-----------------------------------------------------------------------------
(***************************************************************************)
(* What a step may do to the scan of one rule                              *)
(***************************************************************************)
\* It goes on or does not begin; it begins; it ends; its request is dropped; or it is
\* ended with the request still around.
ScanGoesOn(k) == (IsScanning(k)' <=> IsScanning(k)) /\ Scans(k)' = Scans(k)
ScanBegins(k) == StartsScan(k) /\ IsScanning(k)' /\ Scans(k)' = Scans(k) + 1
ScanEnds(k) == IsScanning(k) /\ ~IsScanning(k)' /\ Scans(k) = Scans(k)' + 1
ScanIsDropped(k) == ~IsScanning(k) /\ ~IsScanning(k)' /\ Scans(k) = Scans(k)' + 1
ScanIsForced(k) ==
  /\ IsScanning(k) /\ ~IsScanning(k)' /\ Scans(k)' = Scans(k)
  /\ wasForced'[k] /\ IsScanned(k)'

ScanStep(k) ==
  /\ \/ ScanGoesOn(k) \/ ScanBegins(k) \/ ScanEnds(k) \/ ScanIsDropped(k) \/ ScanIsForced(k)
  /\ IsScanned(k) /\ wasForced[k] => IsScanned(k)' /\ wasForced'[k]
  /\ deferredScanRequests'[k] # <<>> => IsScanning(k)'

\* What a step of the loop does to the scan of rule k.
ScanMove(k) ==
  /\ ScanGoesOn(k) \/ ScanBegins(k) \/ ScanEnds(k) \/ ScanIsDropped(k) \/ ScanIsForced(k)
  /\ Leaves(k)
  /\ deferredScanRequests'[k] # <<>> => IsScanning(k)'

\* Nothing is scanned and nothing is to be.
NoScans ==
  /\ ruleInfosToScan = <<>>
  /\ \A k \in Keys : deferredScanRequests[k] = <<>> /\ task[k] = NewTask /\ ~IsScanning(k)

\* Then there is no request.
LEMMA NoScansAre ==
  ASSUME TypeOK, NoScans, NEW k \in Keys
  PROVE  Scans(k) = 0
<1>1. \A i \in Keys : deferredScanRequests[i] = <<>> /\ Deferred[i] = <<>>
  <2>1. NewTask.deferredScans = <<>>
    BY DEF NewTask
  <2> QED BY <2>1 DEF NoScans, Deferred
<1>2. \A i \in Keys : Count(deferredScanRequests[i], For(k)) = 0 /\ Count(Deferred[i], For(k)) = 0
  BY <1>1, CountSmall
<1>3. CountAt(deferredScanRequests, For(k)) = 0 /\ CountAt(Deferred, For(k)) = 0
  BY <1>2, ScanListTypes, CountAtZero DEF ScanLists, Lists
<1>4. Count(ruleInfosToScan, For(k)) = 0
  BY CountSmall DEF NoScans
<1>5. Scans(k) = Count(ruleInfosToScan, For(k))
                 + (CountAt(deferredScanRequests, For(k)) + CountAt(Deferred, For(k)))
  BY DEF Scans
<1> QED BY ONLY <1>3, <1>4, <1>5, SMT

\* And none is missing.
LEMMA NoScansInv == TypeOK /\ NoScans => ScanInv
<1> SUFFICES ASSUME TypeOK, NoScans
             PROVE  ScanInv
  OBVIOUS
<1>1. \A k \in Keys : Scans(k) = 0
  BY NoScansAre
<1> QED BY <1>1 DEF NoScans, ScanInv

\* Every step keeps the invariant.
LEMMA NextScans ==
  ASSUME TypeOK, TypeOK', Sound, Turn, ScanInv, NoForced \/ NoScanLeftOver, [Next]_vars
  PROVE  ScanInv'

\* The lists of scan requests are of their types after a step, too.
<1>NextScanListTypes.
  ASSUME TypeOK'
  PROVE  /\ ruleInfosToScan' \in ScanList /\ deferredScanRequests' \in ScanLists
         /\ Deferred' \in ScanLists
  <2> USE <1>NextScanListTypes
  <2>1. \A i \in Keys : task'[i].deferredScans \in Seq(ScanRequest)
    BY DEF TypeOK, TaskInfo
  <2> QED BY <2>1 DEF TypeOK, Deferred, ScanList, ScanLists, Lists

\* Before and after a step, all the counts are numbers.
<1>ScanNumbers.
  ASSUME TypeOK, TypeOK', NEW k \in Keys
  PROVE  ScanNumbered(k) /\ Scans(k) \in Nat /\ Scans(k)' \in Nat
  <2> USE <1>ScanNumbers
  <2>1. ScanNumbered(k)
    BY ScanListTypes, <1>NextScanListTypes, CountType, CountAtType
       DEF ScanNumbered, Scans, ScanList, ScanLists, Lists
  <2>2. Scans(k) \in Nat /\ Scans(k)' \in Nat
    BY ONLY <2>1, SMT DEF ScanNumbered
  <2> QED BY <2>1, <2>2

\* A step that does to every rule what ScanStep allows keeps the invariant.
<1>ScanStepKeeps.
  ASSUME TypeOK, TypeOK', ScanInv, \A k \in Keys : ScanStep(k)
  PROVE  ScanInv'
  <2> USE <1>ScanStepKeeps
  <2> SUFFICES ASSUME NEW k \in Keys
               PROVE  /\ IsScanning(k)' => Scans(k)' = 1
                      /\ ~IsScanning(k)' /\ Scans(k)' # 0 => wasForced'[k] /\ IsScanned(k)'
                      /\ deferredScanRequests'[k] # <<>> => IsScanning(k)'
    BY DEF ScanInv
  <2>1. PICK n, m : n = Scans(k) /\ m = Scans(k)'
    OBVIOUS
  <2>2. n \in Nat /\ m \in Nat
    BY <2>1, <1>ScanNumbers
  <2>3. /\ IsScanning(k) => n = 1
        /\ ~IsScanning(k) /\ n # 0 => wasForced[k] /\ IsScanned(k)
    BY <2>1 DEF ScanInv
  <2>4. /\ IsScanned(k) /\ wasForced[k] => IsScanned(k)' /\ wasForced'[k]
        /\ deferredScanRequests'[k] # <<>> => IsScanning(k)'
    BY DEF ScanStep
  <2>5. CASE ScanGoesOn(k)
    BY <2>1, <2>3, <2>4, <2>5 DEF ScanGoesOn
  <2>6. CASE ScanBegins(k)
    <3>1. n = 0
      BY <2>3, <2>6 DEF ScanBegins, StartsScan
    <3>2. m = 1
      BY ONLY <2>1, <2>6, <3>1, SMT DEF ScanBegins
    <3> QED BY <2>1, <2>4, <2>6, <3>2 DEF ScanBegins
  <2>7. CASE ScanEnds(k)
    <3>1. n = 1 /\ n = m + 1
      BY <2>1, <2>3, <2>7 DEF ScanEnds
    <3>2. m = 0
      BY ONLY <2>2, <3>1, SMT
    <3> QED BY <2>1, <2>4, <2>7, <3>2 DEF ScanEnds
  <2>8. CASE ScanIsDropped(k)
    <3>1. n = m + 1 /\ ~IsScanning(k) /\ ~IsScanning(k)'
      BY <2>1, <2>8 DEF ScanIsDropped
    <3>2. n # 0
      BY ONLY <2>2, <3>1, SMT
    <3> QED BY <2>3, <2>4, <3>1, <3>2
  <2>9. CASE ScanIsForced(k)
    BY <2>4, <2>9 DEF ScanIsForced
  <2> QED BY <2>5, <2>6, <2>7, <2>8, <2>9 DEF ScanStep

\* Requests that stay where they are.
<1>SameScans.
  ASSUME UNCHANGED <<ruleInfosToScan, deferredScanRequests>>, Deferred' = Deferred
  PROVE  \A k \in Keys : Scans(k)' = Scans(k)
  BY <1>SameScans DEF Scans

\* A rule that is scanned stays so for the rest of the build.
<1>MoveIsStep.
  ASSUME NEW k \in Keys, ScanMove(k), RuleStep(k), currentEpoch' = currentEpoch
  PROVE  ScanStep(k)
  <2> USE <1>MoveIsStep
  <2>1. IsScanned(k) => ~StartsScan(k)
    BY DEF StartsScan
  <2>2. IsScanned(k) => IsScanned(k)'
    <3>1. CASE state'[k] = state[k] /\ result'[k].builtAt = result[k].builtAt
      BY <3>1 DEF IsScanned, IsComplete
    <3>2. CASE ~IsComplete(k) /\ (state'[k] = "Complete" => result'[k].builtAt = currentEpoch)
      <4>1. IsScanned(k) => state[k] \notin {"Incomplete", "IsScanning"}
        BY DEF IsScanned
      <4>2. IsScanned(k) => state'[k] \notin {"Incomplete", "IsScanning"}
        BY <2>1, <4>1 DEF ScanMove, Leaves
      <4> QED BY <3>2, <4>2 DEF IsScanned, IsComplete
    <3> QED BY <3>1, <3>2 DEF RuleStep, RuleBecomes
  <2> QED BY <2>1, <2>2 DEF ScanMove, ScanStep, Leaves

\* A step that changes other parts of one task.
<1>OneTaskDefers.
  ASSUME TypeOK, NEW t \in Keys, NEW new, task' = [task EXCEPT ![t] = new],
         new.deferredScans = task[t].deferredScans
  PROVE  Deferred' = Deferred
  <2> USE <1>OneTaskDefers
  <2>1. \A j \in Keys : task'[j] = IF j = t THEN new ELSE task[j]
    BY DEF TypeOK
  <2>2. \A j \in Keys : task'[j].deferredScans = task[j].deferredScans
    BY <2>1
  <2> QED BY <2>2 DEF Deferred

\* Every step of the loop.
<1>LoopScans.
  ASSUME TypeOK, TypeOK', Sound, ScanInv, OfLoop
  PROVE  \A k \in Keys : ScanMove(k)
  <2> USE <1>LoopScans
  \* Changing the list at one rule changes the count by what that list loses and gains.
  <2>ScansReplaced.
    ASSUME NEW old \in ScanLists, NEW new \in ScanLists, NEW i \in Keys,
           SameBut(new, old, i), NEW k \in Keys
    PROVE  /\ CountAt(new, For(k)) + Count(old[i], For(k)) = CountAt(old, For(k)) + Count(new[i], For(k))
           /\ Count(old[i], For(k)) \in Nat /\ Count(new[i], For(k)) \in Nat
    <3> USE <2>ScansReplaced
    <3>1. old \in [Keys -> Seq(ScanRequest)] /\ new \in [Keys -> Seq(ScanRequest)]
      BY DEF ScanLists, Lists
    <3>2. Replaced(new, old, i, For(k))
      BY CountReplace DEF ScanLists
    <3>3. Count(old[i], For(k)) \in Nat /\ Count(new[i], For(k)) \in Nat
      BY <3>1, CountType
    <3> QED BY <3>2, <3>3 DEF Replaced
  \* What appending, concatenating and taking from the end do to the count.
  <2>ScansJoined.
    ASSUME NEW s \in ScanList, NEW k \in Keys
    PROVE  /\ Count(s, For(k)) \in Nat
           /\ \A t \in ScanList : Joined(s \o t, s, t, For(k))
           /\ \A x \in ScanRequest : Joined(Append(s, x), s, <<x>>, For(k))
           /\ s # <<>> => /\ Joined(s, PopBack(s), <<Back(s)>>, For(k))
                          /\ Back(s) \in ScanRequest /\ PopBack(s) \in ScanList
    <3> USE <2>ScansJoined
    <3>1. s \in Seq(ScanRequest)
      BY DEF ScanList
    <3>2. PICK S : S = For(k)
      OBVIOUS
    <3>3. Count(s, S) \in Nat
      BY <3>1, CountType
    <3>4. ASSUME NEW t \in ScanList
          PROVE  Joined(s \o t, s, t, S)
      BY <3>1, CountConcat DEF ScanList, Joined
    <3>5. ASSUME NEW x \in ScanRequest
          PROVE  Joined(Append(s, x), s, <<x>>, S)
      BY <3>1, CountAppend DEF Joined
    <3>6. ASSUME s # <<>>
          PROVE  /\ Joined(s, PopBack(s), <<Back(s)>>, S)
                 /\ Back(s) \in ScanRequest /\ PopBack(s) \in ScanList
      BY <3>1, <3>6, CountPopBack, BackType DEF Joined, ScanList
    <3> QED BY <3>2, <3>3, <3>4, <3>5, <3>6
  \* A single scan request counts for its rule.
  <2>OneScan.
    ASSUME NEW x \in ScanRequest, NEW k \in Keys
    PROVE  Count(<<x>>, For(k)) = IF x.rule = k THEN 1 ELSE 0
    <3> USE <2>OneScan
    <3>1. x \in For(k) <=> x.rule = k
      BY DEF For
    <3>2. /\ x \in For(k) => Count(<<x>>, For(k)) = 1
          /\ x \notin For(k) => Count(<<x>>, For(k)) = 0
      BY CountSmall
    <3> QED BY <3>1, <3>2
  \* finishScanRequest gives the deferred requests back to the queue.
  <2>FinishScans.
    ASSUME TypeOK, TypeOK', NEW i \in Keys, NEW rest \in ScanList, FinishScanRequest(i, rest),
           Deferred' = Deferred, NEW k \in Keys
    PROVE  Scans(k)' + Count(ruleInfosToScan, For(k)) = Scans(k) + Count(rest, For(k))
    <3> USE <2>FinishScans
    <3>1. ScanNumbered(k)
      BY <1>ScanNumbers
    <3>2. PICK moved \in ScanList : moved = deferredScanRequests[i]
      BY ScanListTypes DEF ScanList, ScanLists, Lists
    <3>3. /\ ruleInfosToScan' = rest \o moved
          /\ deferredScanRequests' = [deferredScanRequests EXCEPT ![i] = <<>>]
      BY <3>2 DEF FinishScanRequest
    <3>4. Count(ruleInfosToScan', For(k)) = Count(rest, For(k)) + Count(moved, For(k))
      BY <3>3, <2>ScansJoined DEF Joined
    <3>5. deferredScanRequests'[i] = <<>> /\ SameBut(deferredScanRequests', deferredScanRequests, i)
      BY <3>3 DEF TypeOK, SameBut
    <3>6. CountAt(deferredScanRequests', For(k)) + Count(moved, For(k)) = CountAt(deferredScanRequests, For(k)) + 0
      <4>1. PICK new : new = deferredScanRequests'
        OBVIOUS
      <4>2. CountAt(new, For(k)) + Count(deferredScanRequests[i], For(k))
              = CountAt(deferredScanRequests, For(k)) + Count(new[i], For(k))
        BY <3>5, <4>1, ScanListTypes, <1>NextScanListTypes, <2>ScansReplaced
      <4>3. Count(<<>>, For(k)) = 0
        BY CountSmall
      <4> QED BY <3>2, <3>5, <4>1, <4>2, <4>3
    <3>7. Count(rest, For(k)) \in Nat /\ Count(moved, For(k)) \in Nat
      BY <2>ScansJoined
    <3>8. CountAt(Deferred', For(k)) = CountAt(Deferred, For(k))
      OBVIOUS
    <3> QED BY ONLY <3>1, <3>4, <3>6, <3>7, <3>8, SMT DEF ScanNumbered
  \* scanRule queues one request for a rule it leaves scanning.
  <2>NewScans.
    ASSUME TypeOK, NEW i \in Keys, ScanState(i) = "IsScanning", NEW k \in Keys
    PROVE  /\ NewScanRequests(i) \in ScanList
           /\ Count(NewScanRequests(i), For(k)) = IF k = i /\ StartsScan(i) THEN 1 ELSE 0
    <3> USE <2>NewScans
    <3>1. NewScanRequests(i) \in ScanList
      BY ScanTypes DEF ScanList
    <3>2. CASE ~StartsScan(i)
      <4>1. NewScanRequests(i) = <<>>
        BY <3>2 DEF NewScanRequests
      <4> QED BY <3>1, <3>2, <4>1, CountSmall
    <3>3. CASE StartsScan(i)
      <4>1. PICK x : x = [rule |-> i, inputIndex |-> 1, needsToRun |-> OutOfDate(i)]
        OBVIOUS
      <4>2. OutOfDate(i) \in BOOLEAN
        BY DEF OutOfDate
      <4>3. x \in ScanRequest /\ x.rule = i
        BY <4>1, <4>2, ScanRequestType
      <4>4. NewScanRequests(i) = <<x>>
        BY <3>3, <4>1 DEF NewScanRequests
      <4> QED BY <3>1, <3>3, <4>3, <4>4, <2>OneScan
    <3> QED BY <3>2, <3>3
  \* Most steps do nothing to it.
  <2>QuietScans.
    ASSUME ScanInv, \A k \in Keys : Leaves(k), SameScanning,
           deferredScanRequests' = deferredScanRequests, \A k \in Keys : Scans(k)' = Scans(k)
    PROVE  \A k \in Keys : ScanMove(k)
    BY <2>QuietScans DEF ScanInv, SameScanning, ScanMove, ScanGoesOn
  \* Every step of processRuleScanRequest.
  <2>ScanLoopScans.
    ASSUME TypeOK, TypeOK', Live, ScanInv, ProcessRuleScanRequest
    PROVE  \A k \in Keys : ScanMove(k)
    <3> USE <2>ScanLoopScans
    \* The request on top of the stack is taken, or put back.
    <3>TopScans.
      ASSUME TypeOK, TypeOK', ruleInfosToScan # <<>>, NEW k \in Keys,
             deferredScanRequests' = deferredScanRequests, Deferred' = Deferred
      PROVE  /\ ruleInfosToScan' = ScanRest =>
                  Scans(k) = Scans(k)' + (IF ScanTop.rule = k THEN 1 ELSE 0)
             /\ \A x \in ScanRequest :
                  ruleInfosToScan' = Append(ScanRest, x) /\ x.rule = ScanTop.rule => Scans(k)' = Scans(k)
      <4> USE <3>TopScans
      <4>1. ScanNumbered(k)
        BY <1>ScanNumbers
      <4>2. ScanRest \in ScanList /\ ScanTop \in ScanRequest
        BY ScanTopTypes DEF ScanList
      <4>3. PICK one : one = IF ScanTop.rule = k THEN 1 ELSE 0
        OBVIOUS
      <4>4. Count(ruleInfosToScan, For(k)) = Count(ScanRest, For(k)) + one
        <5>1. Joined(ruleInfosToScan, ScanRest, <<ScanTop>>, For(k))
          BY ScanListTypes, <2>ScansJoined DEF ScanRest, ScanTop
        <5> QED BY <4>2, <4>3, <5>1, <2>OneScan DEF Joined
      <4>5. Count(ScanRest, For(k)) \in Nat /\ one \in Nat
        <5>1. one \in Nat
          BY ONLY <4>3, SMT
        <5> QED BY <4>2, <5>1, <2>ScansJoined
      <4>6. /\ CountAt(deferredScanRequests', For(k)) = CountAt(deferredScanRequests, For(k))
            /\ CountAt(Deferred', For(k)) = CountAt(Deferred, For(k))
        OBVIOUS
      <4>7. ASSUME ruleInfosToScan' = ScanRest
            PROVE  Scans(k) = Scans(k)' + one
        <5>1. Count(ruleInfosToScan', For(k)) = Count(ScanRest, For(k))
          BY <4>7
        <5> QED BY ONLY <4>1, <4>4, <4>5, <4>6, <5>1, SMT DEF ScanNumbered
      <4>8. ASSUME NEW x \in ScanRequest, ruleInfosToScan' = Append(ScanRest, x), x.rule = ScanTop.rule
            PROVE  Scans(k)' = Scans(k)
        <5>1. Joined(ruleInfosToScan', ScanRest, <<x>>, For(k))
          BY <4>2, <4>8, <2>ScansJoined
        <5>2. Count(ruleInfosToScan', For(k)) = Count(ScanRest, For(k)) + one
          BY <4>3, <4>8, <5>1, <2>OneScan DEF Joined
        <5> QED BY ONLY <4>1, <4>4, <4>5, <4>6, <5>2, SMT DEF ScanNumbered
      <4> QED BY <4>3, <4>7, <4>8
    \* The scan that defers on another one: its request moves, and the other may begin.
    <3>ScanDefersOnScanScans.
      ASSUME TypeOK, TypeOK', ScanInv, ScanDefersOnScan
      PROVE  \A k \in Keys : ScanMove(k)
      <4> USE <3>ScanDefersOnScanScans
      <4>1. PICK i \in Keys : i = ScanInput
        BY ScanTopTypes DEF ScanDefersOnScan, AtInput, Scanning
      <4>2. PICK new : new = NewScanRequests(i)
        OBVIOUS
      <4>3. /\ ScanState(i) = "IsScanning" /\ ScanRule(i) /\ ruleInfosToScan # <<>>
            /\ ruleInfosToScan' = ScanRest \o new /\ Deferred' = Deferred
            /\ deferredScanRequests' = [deferredScanRequests EXCEPT ![i] = Append(@, ScanTop)]
        BY <4>1, <4>2 DEF ScanDefersOnScan, AtInput, Scanning, taskVars, Deferred
      <4>4. /\ \A k \in Keys : Leaves(k) /\ (k # i => (IsScanning(k)' <=> IsScanning(k)))
            /\ IsScanning(i)' /\ (~StartsScan(i) => IsScanning(i)) /\ (StartsScan(i) => ~IsScanning(i))
        BY <4>3, ScanLeaves
      <4>5. ScanTop \in ScanRequest /\ ScanRest \in ScanList /\ deferredScanRequests[i] \in ScanList
        BY <4>3, ScanTopTypes, ScanListTypes DEF ScanList, ScanLists, Lists
      <4>6. /\ SameBut(deferredScanRequests', deferredScanRequests, i)
            /\ deferredScanRequests'[i] = Append(deferredScanRequests[i], ScanTop)
        BY <4>3 DEF TypeOK, SameBut
      <4>7. ASSUME NEW k \in Keys
            PROVE  Scans(k)' = Scans(k) + (IF k = i /\ StartsScan(i) THEN 1 ELSE 0)
        <5>1. PICK begun : begun = IF k = i /\ StartsScan(i) THEN 1 ELSE 0
          OBVIOUS
        <5>2. PICK top : top = Count(<<ScanTop>>, For(k))
          OBVIOUS
        <5>3. PICK old : old = Count(deferredScanRequests[i], For(k))
          OBVIOUS
        <5>4. Count(ruleInfosToScan, For(k)) = Count(ScanRest, For(k)) + top
          BY <4>3, <5>2, ScanListTypes, <2>ScansJoined DEF ScanRest, ScanTop, Joined
        <5>5. Count(ruleInfosToScan', For(k)) = Count(ScanRest, For(k)) + begun
          <6>1. new \in ScanList /\ Count(new, For(k)) = begun
            BY <4>2, <4>3, <5>1, <2>NewScans
          <6> QED BY <4>3, <4>5, <6>1, <2>ScansJoined DEF Joined
        <5>6. CountAt(deferredScanRequests', For(k)) + old = CountAt(deferredScanRequests, For(k)) + (old + top)
          <6>1. PICK lists : lists = deferredScanRequests'
            OBVIOUS
          <6>2. CountAt(lists, For(k)) + Count(deferredScanRequests[i], For(k))
                  = CountAt(deferredScanRequests, For(k)) + Count(lists[i], For(k))
            BY <4>6, <6>1, ScanListTypes, <1>NextScanListTypes, <2>ScansReplaced
          <6>3. Count(lists[i], For(k)) = old + top
            <7>1. PICK list \in ScanList : list = deferredScanRequests[i]
              BY <4>5
            <7>2. Joined(Append(list, ScanTop), list, <<ScanTop>>, For(k))
              BY <4>5, <2>ScansJoined
            <7>3. lists[i] = Append(list, ScanTop) /\ old = Count(list, For(k))
              BY <4>6, <5>3, <6>1, <7>1
            <7> QED BY <5>2, <7>2, <7>3 DEF Joined
          <6> QED BY <5>3, <6>1, <6>2, <6>3
        <5>7. old \in Nat /\ Count(ScanRest, For(k)) \in Nat /\ ScanNumbered(k)
          BY <4>5, <5>3, <2>ScansJoined, <1>ScanNumbers
        <5>8. top \in Nat /\ begun \in Nat
          <6>1. top = IF ScanTop.rule = k THEN 1 ELSE 0
            BY <4>5, <5>2, <2>OneScan
          <6> QED BY ONLY <5>1, <6>1, SMT
        <5>9. CountAt(Deferred', For(k)) = CountAt(Deferred, For(k))
          BY <4>3
        <5>10. Scans(k)' = Scans(k) + begun
          BY ONLY <5>4, <5>5, <5>6, <5>7, <5>8, <5>9, SMT DEF ScanNumbered
        <5> QED BY <5>1, <5>10
      <4>8. ASSUME NEW k \in Keys
            PROVE  Scans(k)' = Scans(k) \/ (k = i /\ StartsScan(i) /\ Scans(k)' = Scans(k) + 1)
        <5>1. Scans(k) \in Nat
          BY <1>ScanNumbers
        <5>2. Scans(k) + 0 = Scans(k)
          BY ONLY <5>1, SMT
        <5> QED BY <4>7, <5>2
      <4>9. ASSUME NEW k \in Keys
            PROVE  deferredScanRequests'[k] # <<>> => IsScanning(k)'
        BY <4>4, <4>6 DEF SameBut, ScanInv
      <4>10. ASSUME NEW k \in Keys
             PROVE  ScanGoesOn(k) \/ ScanBegins(k)
        <5>1. CASE k = i /\ StartsScan(i)
          BY <4>4, <4>7, <5>1 DEF ScanBegins
        <5>2. CASE ~(k = i /\ StartsScan(i))
          BY <4>4, <4>8, <5>2 DEF ScanGoesOn
        <5> QED BY <5>1, <5>2
      <4> QED BY <4>4, <4>9, <4>10 DEF ScanMove
    \* The scan that defers on a task: its request moves to the task.
    <3>ScanDefersOnTaskScans.
      ASSUME TypeOK, TypeOK', Live, ScanInv, ScanDefersOnTask
      PROVE  \A k \in Keys : ScanMove(k)
      <4> USE <3>ScanDefersOnTaskScans
      <4>1. PICK i \in Keys : i = ScanInput
        BY ScanTopTypes DEF ScanDefersOnTask, AtInput, Scanning
      <4>2. PICK new : new = StartedTask(i)
        OBVIOUS
      <4>3. PICK q : q = Append(new[i].deferredScans, ScanTop)
        OBVIOUS
      <4>4. /\ ScanState(i) # "IsScanning" /\ DemandRule(i) /\ ruleInfosToScan # <<>> /\ pc \notin Draining
            /\ ruleInfosToScan' = ScanRest /\ deferredScanRequests' = deferredScanRequests
            /\ task' = [new EXCEPT ![i].deferredScans = q]
        BY <4>1, <4>2, <4>3 DEF ScanDefersOnTask, AtInput, Scanning, Draining
      <4>5. new \in [Keys -> TaskInfo] /\ \A j \in Keys : new[j].deferredScans = task[j].deferredScans
        BY <4>2, <4>4, DemandTypes, StartedIs
      <4>6. task'[i].deferredScans = q /\ \A j \in Keys : j # i => task'[j] = new[j]
        <5>1. task'[i] = [new[i] EXCEPT !.deferredScans = q] /\ \A j \in Keys : j # i => task'[j] = new[j]
          BY <4>4, <4>5
        <5>2. [new[i] EXCEPT !.deferredScans = q].deferredScans = q
          BY <4>5 DEF TaskInfo
        <5> QED BY <5>1, <5>2
      <4>7. Deferred'[i] = Append(Deferred[i], ScanTop) /\ SameBut(Deferred', Deferred, i)
        BY <4>3, <4>5, <4>6 DEF Deferred, SameBut
      <4>8. ScanTop \in ScanRequest /\ ScanRest \in ScanList /\ Deferred[i] \in ScanList
        BY <4>4, ScanTopTypes, ScanListTypes DEF ScanList, ScanLists, Lists
      <4>9. ASSUME NEW k \in Keys
            PROVE  Scans(k)' = Scans(k)
        <5>1. PICK top : top = Count(<<ScanTop>>, For(k))
          OBVIOUS
        <5>2. PICK old : old = Count(Deferred[i], For(k))
          OBVIOUS
        <5>3. Count(ruleInfosToScan, For(k)) = Count(ruleInfosToScan', For(k)) + top
          BY <4>4, <5>1, ScanListTypes, <2>ScansJoined DEF ScanRest, ScanTop, Joined
        <5>4. CountAt(Deferred', For(k)) + old = CountAt(Deferred, For(k)) + (old + top)
          <6>1. PICK lists : lists = Deferred'
            OBVIOUS
          <6>2. CountAt(lists, For(k)) + Count(Deferred[i], For(k)) = CountAt(Deferred, For(k)) + Count(lists[i], For(k))
            BY <4>7, <6>1, ScanListTypes, <1>NextScanListTypes, <2>ScansReplaced
          <6>3. Count(lists[i], For(k)) = old + top
            <7>1. PICK list \in ScanList : list = Deferred[i]
              BY <4>8
            <7>2. Joined(Append(list, ScanTop), list, <<ScanTop>>, For(k))
              BY <4>8, <2>ScansJoined
            <7>3. lists[i] = Append(list, ScanTop) /\ old = Count(list, For(k))
              BY <4>7, <5>2, <6>1, <7>1
            <7> QED BY <5>1, <7>2, <7>3 DEF Joined
          <6> QED BY <5>2, <6>1, <6>2, <6>3
        <5>5. old \in Nat /\ ScanNumbered(k)
          BY <4>8, <5>2, <2>ScansJoined, <1>ScanNumbers
        <5>6. top \in Nat
          <6>1. top = IF ScanTop.rule = k THEN 1 ELSE 0
            BY <4>8, <5>1, <2>OneScan
          <6> QED BY ONLY <6>1, SMT
        <5>7. CountAt(deferredScanRequests', For(k)) = CountAt(deferredScanRequests, For(k))
          BY <4>4
        <5> QED BY ONLY <5>3, <5>4, <5>5, <5>6, <5>7, SMT DEF ScanNumbered
      <4> QED BY <4>4, <4>9, DemandLeaves, <2>QuietScans
    \* A scan that ends gives back the requests deferred on it.
    <3>ScanEndsScans.
      ASSUME TypeOK, TypeOK', ScanInv, ruleInfosToScan # <<>>, Deferred' = Deferred,
             NEW j \in Keys, j = ScanTop.rule, IsScanning(j), ~IsScanning(j)',
             FinishScanRequest(j, ScanRest), \A k \in Keys : Leaves(k),
             \A k \in Keys : k # j => (IsScanning(k)' <=> IsScanning(k))
      PROVE  \A k \in Keys : ScanMove(k)
      <4> USE <3>ScanEndsScans
      <4>1. ScanRest \in ScanList /\ ScanTop \in ScanRequest
        BY ScanTopTypes DEF ScanList
      <4>2. ASSUME NEW k \in Keys
            PROVE  /\ k = j => Scans(k) = Scans(k)' + 1
                   /\ k # j => Scans(k)' = Scans(k)
        <5>1. PICK one : one = IF ScanTop.rule = k THEN 1 ELSE 0
          OBVIOUS
        <5>2. Count(ruleInfosToScan, For(k)) = Count(ScanRest, For(k)) + one
          <6>1. Joined(ruleInfosToScan, ScanRest, <<ScanTop>>, For(k))
            BY ScanListTypes, <2>ScansJoined DEF ScanRest, ScanTop
          <6> QED BY <4>1, <5>1, <6>1, <2>OneScan DEF Joined
        <5>3. Scans(k)' + Count(ruleInfosToScan, For(k)) = Scans(k) + Count(ScanRest, For(k))
          BY <4>1, <2>FinishScans
        <5>4. Count(ScanRest, For(k)) \in Nat /\ Scans(k) \in Nat /\ Scans(k)' \in Nat
          BY <4>1, <2>ScansJoined, <1>ScanNumbers
        <5>5. /\ k = j => one = 1
              /\ k # j => one = 0
          BY <5>1
        <5> QED BY ONLY <5>2, <5>3, <5>4, <5>5, SMT
      <4>3. /\ deferredScanRequests'[j] = <<>>
            /\ \A k \in Keys : k # j => deferredScanRequests'[k] = deferredScanRequests[k]
        BY DEF FinishScanRequest, TypeOK
      <4>4. ASSUME NEW k \in Keys
            PROVE  deferredScanRequests'[k] # <<>> => IsScanning(k)'
        BY <4>3 DEF ScanInv
      <4>5. ASSUME NEW k \in Keys
            PROVE  ScanGoesOn(k) \/ ScanEnds(k)
        BY <4>2 DEF ScanGoesOn, ScanEnds
      <4> QED BY <4>4, <4>5 DEF ScanMove
    <3>1. ruleInfosToScan # <<>>
      BY DEF ProcessRuleScanRequest, ScanDropped, ScanSkips, ScanDefersOnScan,
         ScanDefersOnTask, ScanNextInput, ScanFindsRebuiltInput, ScanReachesEnd, AtInput, Scanning
    <3>2. /\ ScanTop \in ScanRequest /\ ScanTop.rule \in Keys
          /\ ScanTop.inputIndex <= Len(ScanDeps) => ScanInput \in Keys
      BY <3>1, ScanTopTypes
    <3>3. PICK j \in Keys : j = ScanTop.rule
      BY <3>2
    <3>4. ~ScanDefersOnTask => Deferred' = Deferred
      BY DEF ProcessRuleScanRequest, ScanDropped, ScanSkips, ScanDefersOnScan,
         ScanNextInput, ScanFindsRebuiltInput, ScanReachesEnd, taskVars, Deferred
    <3>5. CASE ScanDropped
      <4>1. /\ ~IsScanning(j) /\ ruleInfosToScan' = ScanRest /\ Deferred' = Deferred
            /\ UNCHANGED <<state, wasForced, deferredScanRequests>>
        BY <3>3, <3>5 DEF ScanDropped, ruleVars, taskVars, Deferred
      <4>2. (\A k \in Keys : Leaves(k)) /\ SameScanning
        BY <4>1, NoneLeaves
      <4>3. ASSUME NEW k \in Keys
            PROVE  /\ k = j => Scans(k) = Scans(k)' + 1
                   /\ k # j => Scans(k)' = Scans(k)
        <5>1. Scans(k) = Scans(k)' + (IF j = k THEN 1 ELSE 0)
          BY <3>1, <3>3, <4>1, <3>TopScans
        <5>2. Scans(k) \in Nat /\ Scans(k)' \in Nat
          BY <1>ScanNumbers
        <5> QED BY ONLY <5>1, <5>2, SMT
      <4>4. ASSUME NEW k \in Keys
            PROVE  ScanGoesOn(k) \/ ScanIsDropped(k)
        BY <4>1, <4>2, <4>3 DEF SameScanning, ScanGoesOn, ScanIsDropped
      <4>5. ASSUME NEW k \in Keys
            PROVE  deferredScanRequests'[k] # <<>> => IsScanning(k)'
        BY <4>1, <4>2 DEF SameScanning, ScanInv
      <4> QED BY <4>2, <4>4, <4>5 DEF ScanMove
    <3>6. CASE ScanSkips
      <4>1. PICK x : x = [ScanTop EXCEPT !.inputIndex = @ + 1]
        OBVIOUS
      <4>2. /\ ruleInfosToScan' = Append(ScanRest, x) /\ Deferred' = Deferred
            /\ UNCHANGED <<state, wasForced, deferredScanRequests>>
        BY <3>6, <4>1 DEF ScanSkips, ruleVars, taskVars, Deferred
      <4>3. x \in ScanRequest /\ x.rule = ScanTop.rule
        BY ONLY <3>2, <4>1, SMT DEF ScanRequest
      <4>4. \A k \in Keys : Scans(k)' = Scans(k)
        BY <3>1, <4>2, <4>3, <3>TopScans
      <4> QED BY <4>2, <4>4, NoneLeaves, <2>QuietScans
    <3>7. CASE ScanNextInput
      <4>1. PICK b : b = (ScanTop.needsToRun \/ InputRebuilt)
        OBVIOUS
      <4>2. PICK x : x = [ScanTop EXCEPT !.inputIndex = @ + 1, !.needsToRun = b]
        OBVIOUS
      <4>3. /\ ruleInfosToScan' = Append(ScanRest, x) /\ deferredScanRequests' = deferredScanRequests
            /\ ScanInput \in Keys /\ Available(ScanInput) /\ DemandRule(ScanInput)
        BY <3>2, <3>7, <4>1, <4>2 DEF ScanNextInput, AtInput
      <4>4. x \in ScanRequest /\ x.rule = ScanTop.rule
        <5>1. b \in BOOLEAN
          BY <4>1
        <5>2. x \in ScanRequest
          BY <3>2, <4>2, <5>1, NextScanRequestType
        <5>3. x.rule = ScanTop.rule
          BY <3>2, <4>2 DEF ScanRequest
        <5> QED BY <5>2, <5>3
      <4>5. \A k \in Keys : Scans(k)' = Scans(k)
        BY <3>1, <3>4, <3>7, <4>3, <4>4, <3>TopScans DEF ScanNextInput, Deferred
      <4>6. ScanState(ScanInput) # "IsScanning"
        BY <4>3, NotInProgress
      <4>7. (\A k \in Keys : Leaves(k)) /\ SameScanning
        BY <4>3, <4>6, DemandLeaves
      <4> QED BY <4>3, <4>5, <4>7, <2>QuietScans
    <3>8. CASE ScanFindsRebuiltInput
      <4>1. PICK i \in Keys : i = ScanInput /\ Available(i)
        BY <3>2, <3>8 DEF ScanFindsRebuiltInput, AtInput
      <4>2. /\ IsScanning(j) /\ FinishScanRequest(j, ScanRest) /\ Deferred' = Deferred
            /\ state' = [state EXCEPT ![i] = "Complete", ![j] = "NeedsToRun"]
            /\ wasForced' = [wasForced EXCEPT ![i] = ScanForced(i)]
        BY <3>3, <3>8, <4>1 DEF ScanFindsRebuiltInput, AtInput, taskVars, Deferred
      <4>3. i # j /\ ~IsScanning(i)
        BY <4>1, <4>2 DEF Available, DemandState, ScanState, StartsScan, IsScanning
      <4>4. /\ \A k \in Keys : state'[k] = IF k = i THEN "Complete"
                                           ELSE IF k = j THEN "NeedsToRun" ELSE state[k]
            /\ \A k \in Keys : wasForced'[k] = IF k = i THEN ScanForced(i) ELSE wasForced[k]
        BY <4>2, <4>3 DEF TypeOK
      <4>5. \A k \in Keys : Leaves(k)
        BY <4>4 DEF Leaves, ScanForced
      <4>6. ~IsScanning(j)' /\ \A k \in Keys : k # j => (IsScanning(k)' <=> IsScanning(k))
        BY <4>3, <4>4 DEF IsScanning
      <4> QED BY <3>1, <3>3, <4>2, <4>5, <4>6, <3>ScanEndsScans
    <3>9. CASE ScanReachesEnd
      <4>1. PICK s \in {"NeedsToRun", "DoesNotNeedToRun"} : state' = [state EXCEPT ![j] = s]
        BY <3>3, <3>9 DEF ScanReachesEnd
      <4>2. /\ IsScanning(j) /\ FinishScanRequest(j, ScanRest) /\ Deferred' = Deferred
            /\ wasForced' = wasForced
        BY <3>3, <3>9 DEF ScanReachesEnd, taskVars, Deferred
      <4>3. \A k \in Keys : state'[k] = IF k = j THEN s ELSE state[k]
        BY <4>1 DEF TypeOK
      <4>4. s \notin {"Incomplete", "IsScanning"}
        OBVIOUS
      <4>5. \A k \in Keys : Leaves(k)
        BY <4>2, <4>3, <4>4 DEF Leaves
      <4>6. ~IsScanning(j)' /\ \A k \in Keys : k # j => (IsScanning(k)' <=> IsScanning(k))
        BY <4>3, <4>4 DEF IsScanning
      <4> QED BY <3>1, <3>3, <4>2, <4>5, <4>6, <3>ScanEndsScans
    <3> QED BY <3>5, <3>6, <3>7, <3>8, <3>9, <3>ScanDefersOnScanScans, <3>ScanDefersOnTaskScans
            DEF ProcessRuleScanRequest
  \* The other steps of the input request loop leave the scans alone.
  <2>InputLoopScans.
    ASSUME TypeOK, TypeOK', Live, ScanInv, ProcessInputRequest
    PROVE  \A k \in Keys : ScanMove(k)
    <3> USE <2>InputLoopScans
    \* A request that pauses: the scan it waits for may begin.
    <3>InputPausesScans.
      ASSUME TypeOK, TypeOK', ScanInv, InputPauses
      PROVE  \A k \in Keys : ScanMove(k)
      <4> USE <3>InputPausesScans
      <4>1. PICK i \in Keys : i = RequestInput
        BY RequestTypes DEF InputPauses, AtRequest
      <4>2. PICK new : new = NewScanRequests(i)
        OBVIOUS
      <4>3. /\ ScanState(i) = "IsScanning" /\ ScanRule(i) /\ ruleInfosToScan' = ruleInfosToScan \o new
            /\ deferredScanRequests' = deferredScanRequests /\ Deferred' = Deferred
        BY <4>1, <4>2 DEF InputPauses, taskVars, Deferred
      <4>4. /\ \A k \in Keys : Leaves(k) /\ (k # i => (IsScanning(k)' <=> IsScanning(k)))
            /\ IsScanning(i)' /\ (~StartsScan(i) => IsScanning(i)) /\ (StartsScan(i) => ~IsScanning(i))
        BY <4>3, ScanLeaves
      <4>5. ASSUME NEW k \in Keys
            PROVE  /\ k = i /\ StartsScan(i) => Scans(k)' = Scans(k) + 1
                   /\ ~(k = i /\ StartsScan(i)) => Scans(k)' = Scans(k)
        <5>1. PICK begun : begun = IF k = i /\ StartsScan(i) THEN 1 ELSE 0
          OBVIOUS
        <5>2. Count(ruleInfosToScan', For(k)) = Count(ruleInfosToScan, For(k)) + begun
          <6>1. new \in ScanList /\ Count(new, For(k)) = begun
            BY <4>2, <4>3, <5>1, <2>NewScans
          <6> QED BY <4>3, <6>1, ScanListTypes, <2>ScansJoined DEF Joined
        <5>3. /\ CountAt(deferredScanRequests', For(k)) = CountAt(deferredScanRequests, For(k))
              /\ CountAt(Deferred', For(k)) = CountAt(Deferred, For(k)) /\ ScanNumbered(k)
          BY <4>3, <1>ScanNumbers
        <5>4. /\ k = i /\ StartsScan(i) => begun = 1
              /\ ~(k = i /\ StartsScan(i)) => begun = 0
          BY <5>1
        <5>5. /\ begun = 1 => Scans(k)' = Scans(k) + 1
              /\ begun = 0 => Scans(k)' = Scans(k)
          BY ONLY <5>2, <5>3, SMT DEF ScanNumbered
        <5> QED BY <5>4, <5>5
      <4>6. ASSUME NEW k \in Keys
            PROVE  ScanGoesOn(k) \/ ScanBegins(k)
        <5>1. CASE k = i /\ StartsScan(i)
          BY <4>4, <4>5, <5>1 DEF ScanBegins
        <5>2. CASE ~(k = i /\ StartsScan(i))
          BY <4>4, <4>5, <5>2 DEF ScanGoesOn
        <5> QED BY <5>1, <5>2
      <4>7. ASSUME NEW k \in Keys
            PROVE  deferredScanRequests'[k] # <<>> => IsScanning(k)'
        BY <4>3, <4>4 DEF ScanInv
      <4> QED BY <4>4, <4>6, <4>7 DEF ScanMove
    <3>1. CASE InputPauses
      BY <3>1, <3>InputPausesScans
    <3>2. CASE InputIsDummy \/ InputIsAvailable \/ InputIsPending
      <4>1. PICK i \in Keys : i = RequestInput
        BY <3>2, RequestTypes DEF InputIsDummy, InputIsAvailable, InputIsPending, AtRequest
      <4>2. /\ ScanState(i) # "IsScanning" /\ DemandRule(i) /\ pc \notin Draining
            /\ UNCHANGED <<ruleInfosToScan, deferredScanRequests>>
        BY <3>2, <4>1 DEF InputIsDummy, InputIsAvailable, InputIsPending, AtRequest, Draining
      <4>3. PICK new : new = StartedTask(i)
        OBVIOUS
      <4>4. new \in [Keys -> TaskInfo] /\ \A j \in Keys : new[j].deferredScans = task[j].deferredScans
        BY <4>2, <4>3, DemandTypes, StartedIs
      <4>5. \A j \in Keys : task'[j].deferredScans = task[j].deferredScans
        <5>1. CASE InputIsDummy \/ InputIsAvailable
          BY <4>1, <4>3, <4>4, <5>1 DEF InputIsDummy, InputIsAvailable
        <5>2. CASE InputIsPending
          <6>1. PICK q : task' = [new EXCEPT ![i].requestedBy = q]
            BY <4>1, <4>3, <5>2 DEF InputIsPending
          <6>2. /\ task'[i] = [new[i] EXCEPT !.requestedBy = q]
                /\ \A j \in Keys : j # i => task'[j] = new[j]
            BY <4>4, <6>1
          <6>3. [new[i] EXCEPT !.requestedBy = q].deferredScans = new[i].deferredScans
            BY <4>4 DEF TaskInfo
          <6> QED BY <4>4, <6>2, <6>3
        <5> QED BY <3>2, <5>1, <5>2
      <4>6. \A k \in Keys : Scans(k)' = Scans(k)
        <5>1. Deferred' = Deferred
          BY <4>5 DEF Deferred
        <5> QED BY <4>2, <5>1, <1>SameScans
      <4>7. (\A k \in Keys : Leaves(k)) /\ SameScanning
        BY <4>2, DemandLeaves
      <4> QED BY <4>2, <4>6, <4>7, <2>QuietScans
    <3> QED BY <3>1, <3>2 DEF ProcessInputRequest
  \* A finished task gives back the requests deferred on it.
  <2>FinishedTaskScans.
    ASSUME TypeOK, TypeOK', Threads, ScanInv, ProcessFinishedTask \/ FinishedTaskNotStored
    PROVE  \A k \in Keys : ScanMove(k)
    <3> USE <2>FinishedTaskScans
    <3>1. PICK i : i = Back(finishedTaskInfos)
      OBVIOUS
    <3>2. finishedTaskInfos # <<>> /\ CompleteRule(i) /\ UNCHANGED <<wasForced, deferredScanRequests>>
      BY <3>1 DEF ProcessFinishedTask, FinishedTaskNotStored
    <3>3. finishedTaskInfos \in Seq(Keys) /\ i \in Keys
      BY <3>1, <3>2, BackType DEF TypeOK
    <3>4. PICK n : n \in DOMAIN finishedTaskInfos /\ finishedTaskInfos[n] = i
      BY ONLY <3>1, <3>2, <3>3, SMT DEF Back
    <3>5. ~IsScanning(i)
      BY <3>4 DEF Threads, IsScanning
    <3>6. (\A k \in Keys : Leaves(k)) /\ SameScanning
      <4>1. \A k \in Keys : state'[k] = IF k = i THEN "Complete" ELSE state[k]
        BY <3>2 DEF CompleteRule, TypeOK
      <4> QED BY <3>2, <3>5, <4>1 DEF Leaves, SameScanning, IsScanning
    <3>7. CASE FinishedTaskNotStored
      <4>1. Deferred' = Deferred /\ ruleInfosToScan' = ruleInfosToScan
        BY <3>7 DEF FinishedTaskNotStored, taskVars, Deferred
      <4> QED BY <3>2, <3>6, <4>1, <1>SameScans, <2>QuietScans
    <3>8. CASE ProcessFinishedTask
      <4>1. PICK moved \in ScanList : moved = Deferred[i]
        BY <3>3, ScanListTypes DEF ScanList, ScanLists, Lists
      <4>2. ruleInfosToScan' = ruleInfosToScan \o moved /\ task' = [task EXCEPT ![i] = NewTask]
        BY <3>1, <3>3, <3>8, <4>1 DEF ProcessFinishedTask, Deferred
      <4>3. Deferred'[i] = <<>> /\ SameBut(Deferred', Deferred, i)
        <5>1. \A j \in Keys : task'[j] = IF j = i THEN NewTask ELSE task[j]
          BY <4>2 DEF TypeOK
        <5>2. NewTask.deferredScans = <<>>
          BY DEF NewTask
        <5> QED BY <3>3, <5>1, <5>2 DEF Deferred, SameBut
      <4>4. ASSUME NEW k \in Keys
            PROVE  Scans(k)' = Scans(k)
        <5>1. Count(ruleInfosToScan', For(k)) = Count(ruleInfosToScan, For(k)) + Count(moved, For(k))
          BY <4>2, ScanListTypes, <2>ScansJoined DEF Joined
        <5>2. CountAt(Deferred', For(k)) + Count(moved, For(k)) = CountAt(Deferred, For(k)) + 0
          <6>1. PICK lists : lists = Deferred'
            OBVIOUS
          <6>2. CountAt(lists, For(k)) + Count(Deferred[i], For(k)) = CountAt(Deferred, For(k)) + Count(lists[i], For(k))
            BY <3>3, <4>3, <6>1, ScanListTypes, <1>NextScanListTypes, <2>ScansReplaced
          <6>3. Count(<<>>, For(k)) = 0
            BY CountSmall
          <6> QED BY <4>1, <4>3, <6>1, <6>2, <6>3
        <5>3. CountAt(deferredScanRequests', For(k)) = CountAt(deferredScanRequests, For(k))
          BY <3>2
        <5>4. Count(moved, For(k)) \in Nat /\ ScanNumbered(k)
          BY <2>ScansJoined, <1>ScanNumbers
        <5> QED BY ONLY <5>1, <5>2, <5>3, <5>4, SMT DEF ScanNumbered
      <4> QED BY <3>2, <3>6, <4>4, <2>QuietScans
    <3> QED BY <3>7, <3>8
  \* A cycle is broken at a rule that is scanning: its request is left behind.
  <2>CycleForcesRuleScans.
    ASSUME TypeOK, TypeOK', ScanInv, CycleForcesRule
    PROVE  \A k \in Keys : ScanMove(k)
    <3> USE <2>CycleForcesRuleScans
    <3>1. PICK i \in Keys : /\ IsScanning(i) /\ FinishScanRequest(i, ruleInfosToScan)
                            /\ state' = [state EXCEPT ![i] = "NeedsToRun"]
                            /\ wasForced' = [wasForced EXCEPT ![i] = TRUE]
      BY CycleListType DEF CycleForcesRule
    <3>2. /\ \A k \in Keys : state'[k] = IF k = i THEN "NeedsToRun" ELSE state[k]
          /\ \A k \in Keys : wasForced'[k] = IF k = i THEN TRUE ELSE wasForced[k]
          /\ \A k \in Keys : deferredScanRequests'[k] = IF k = i THEN <<>> ELSE deferredScanRequests[k]
      BY <3>1 DEF TypeOK, FinishScanRequest
    <3>3. Deferred' = Deferred
      BY DEF CycleForcesRule, taskVars, Deferred
    <3>4. ASSUME NEW k \in Keys
          PROVE  Scans(k)' = Scans(k)
      <4>1. Scans(k)' + Count(ruleInfosToScan, For(k)) = Scans(k) + Count(ruleInfosToScan, For(k))
        BY <3>1, <3>3, ScanListTypes, <2>FinishScans
      <4>2. Scans(k) \in Nat /\ Scans(k)' \in Nat /\ Count(ruleInfosToScan, For(k)) \in Nat
        BY <1>ScanNumbers, ScanListTypes, <2>ScansJoined
      <4> QED BY ONLY <4>1, <4>2, SMT
    <3>5. ScanIsForced(i)
      <4>1. state'[i] = "NeedsToRun" /\ wasForced'[i]
        BY <3>2
      <4>2. ~IsScanning(i)' /\ IsScanned(i)'
        BY <4>1 DEF IsScanning, IsScanned
      <4> QED BY <3>1, <3>4, <4>1, <4>2 DEF ScanIsForced
    <3>6. ASSUME NEW k \in Keys, k # i
          PROVE  ScanGoesOn(k)
      BY <3>2, <3>4, <3>6 DEF ScanGoesOn, IsScanning
    <3>7. \A k \in Keys : Leaves(k)
      BY <3>2 DEF Leaves
    <3>8. ASSUME NEW k \in Keys
          PROVE  deferredScanRequests'[k] # <<>> => IsScanning(k)'
      BY <3>2 DEF ScanInv, IsScanning
    <3> QED BY <3>5, <3>6, <3>7, <3>8 DEF ScanMove
  <2>1. Live /\ Threads
    BY DEF Sound
  <2>2. CASE ProcessRuleScanRequest \/ ProcessInputRequest
    BY <2>1, <2>2, <2>ScanLoopScans, <2>InputLoopScans
  <2>3. CASE ProcessFinishedTask \/ FinishedTaskNotStored
    BY <2>1, <2>3, <2>FinishedTaskScans
  <2>4. CASE CycleForcesRule
    BY <2>4, <2>CycleForcesRuleScans
  <2>5. CASE ProcessReadyTask
    <3>1. PICK i : i = Head(readyTaskInfos)
      OBVIOUS
    <3>2. i \in Keys /\ state[i] = "InProgressWaiting"
      BY <2>5, <3>1, NextIsReady DEF IsReady
    <3>3. /\ state' = [state EXCEPT ![i] = "InProgressComputing"] /\ wasForced' = wasForced
          /\ UNCHANGED <<ruleInfosToScan, deferredScanRequests>> /\ Deferred' = Deferred
      BY <2>5, <3>1 DEF ProcessReadyTask, taskVars, Deferred
    <3>4. \A k \in Keys : state'[k] = IF k = i THEN "InProgressComputing" ELSE state[k]
      BY <3>3 DEF TypeOK
    <3>5. (\A k \in Keys : Leaves(k)) /\ SameScanning
      <4>1. ~IsScanning(i) /\ ~IsScanning(i)'
        BY <3>2, <3>4 DEF IsScanning
      <4>2. \A k \in Keys : state'[k] = state[k] \/ state'[k] \notin {"Incomplete", "IsScanning"}
        BY <3>4
      <4> QED BY <3>3, <3>4, <4>1, <4>2 DEF Leaves, SameScanning, IsScanning
    <3> QED BY <3>3, <3>5, <1>SameScans, <2>QuietScans
  <2>6. CASE ProcessFinishedInput \/ CycleSuppliesPriorValue
    <3>1. UNCHANGED <<state, wasForced, ruleInfosToScan, deferredScanRequests>>
      BY <2>6 DEF ProcessFinishedInput, CycleSuppliesPriorValue, ruleVars
    <3>2. CASE ProcessFinishedInput
      <4>1. PICK x, t : x = Back(finishedInputRequests) /\ t = x.task
        OBVIOUS
      <4>2. x \in PendingRequest
        BY <3>2, <4>1, BackType DEF TypeOK, ProcessFinishedInput
      <4>3. t \in Keys
        BY <4>1, <4>2 DEF PendingRequest, RequestsFrom
      <4>4. PICK n, v : task' = [task EXCEPT ![t].waitCount = n, ![t].provided = v]
        BY <3>2, <4>1 DEF ProcessFinishedInput
      <4>5. PICK mid : mid = [task EXCEPT ![t].waitCount = n]
        OBVIOUS
      <4>6. task' = [mid EXCEPT ![t].provided = v]
        BY <4>4, <4>5
      <4>7. task \in [Keys -> TaskInfo] /\ task[t] \in TaskInfo
        BY <4>3 DEF TypeOK
      <4>8. \A j \in Keys : task'[j].deferredScans = task[j].deferredScans
        <5>1. /\ DOMAIN mid = Keys
              /\ \A j \in Keys : mid[j] = IF j = t THEN [task[t] EXCEPT !.waitCount = n] ELSE task[j]
          BY <4>5, <4>7
        <5>2. \A j \in Keys : task'[j] = IF j = t THEN [mid[t] EXCEPT !.provided = v] ELSE mid[j]
          BY <4>6, <5>1
        <5>3. PICK one : one = [task[t] EXCEPT !.waitCount = n]
          OBVIOUS
        <5>4. one.deferredScans = task[t].deferredScans /\ DOMAIN one = DOMAIN task[t]
          BY <4>7, <5>3 DEF TaskInfo
        <5>5. [one EXCEPT !.provided = v].deferredScans = one.deferredScans
          BY <4>7, <5>4 DEF TaskInfo
        <5> QED BY <4>3, <5>1, <5>2, <5>3, <5>4, <5>5
      <4>9. Deferred' = Deferred
        BY <4>8 DEF Deferred
      <4> QED BY <3>1, <4>9, <1>SameScans, NoneLeaves, <2>QuietScans
    <3>3. CASE CycleSuppliesPriorValue
      <4>1. PICK i \in Keys : \E q : task' = [task EXCEPT ![i].requestedBy = q]
        BY <3>3, CycleListType, ZenonT(60) DEF CycleSuppliesPriorValue
      <4>2. PICK q : task' = [task EXCEPT ![i].requestedBy = q]
        BY <4>1
      <4>3. PICK new : new = [task[i] EXCEPT !.requestedBy = q]
        OBVIOUS
      <4>4. task' = [task EXCEPT ![i] = new]
        BY <4>2, <4>3
      <4>5. new.deferredScans = task[i].deferredScans
        <5>1. task[i] \in TaskInfo
          BY DEF TypeOK
        <5> QED BY <4>3, <5>1 DEF TaskInfo
      <4>6. Deferred' = Deferred
        BY <4>4, <4>5, <1>OneTaskDefers
      <4> QED BY <3>1, <4>6, <1>SameScans, NoneLeaves, <2>QuietScans
    <3> QED BY <2>6, <3>2, <3>3
  <2>7. CASE \/ CycleIsReported \/ CycleReadsPastEnd \/ BuildIsDone \/ DrainTasks
             \/ BuildEnds \/ BuildEndsIterationNotStored
             \/ StartTurn \/ NextQueue \/ EndTurn \/ WaitForTask \/ SpuriousWakeup
             \/ Aside \/ \E k \in Keys : EnqueueFinishedTask(k) \/ NotifyEngine(k)
    <3>1. UNCHANGED <<state, wasForced, ruleInfosToScan, deferredScanRequests, task>>
      BY <2>7 DEF CycleIsReported, CycleReadsPastEnd, BuildIsDone, DrainTasks, BuildEnds,
         BuildEndsIterationNotStored, StartTurn, NextQueue, EndTurn, WaitForTask, SpuriousWakeup,
         Aside, BuildIsRefused, BuildIsNotStarted, CancelBuild, ResetForBuild, vars,
         EnqueueFinishedTask, NotifyEngine, loopUnchanged, workerUnchanged, ruleVars, queueVars,
         taskVars
    <3>2. Deferred' = Deferred
      BY <3>1 DEF Deferred
    <3> QED BY <3>1, <3>2, <1>SameScans, NoneLeaves, <2>QuietScans
  <2> QED BY <2>2, <2>3, <2>4, <2>5, <2>6, <2>7
          DEF OfLoop, Next, EngineStep, ClientStep, WorkerStep, ResolveOrReportCycle, Rest, Aside

\* A build that starts finds a request of a rule that does not scan only if a forced
\* rule has left it behind, and that only if a scan is left over from an earlier build.
<1>BuildStartsScans.
  ASSUME TypeOK, TypeOK', Sound, Turn, ScanInv, NoForced \/ NoScanLeftOver, BuildStarts
  PROVE  ScanInv'
  <2> USE <1>BuildStartsScans
  <2>1. /\ UNCHANGED <<state, wasForced, ruleInfosToScan, deferredScanRequests, task>> /\ pc = "idle"
    BY DEF BuildStarts, ruleVars, taskVars
  <2>2. \A k \in Keys : Scans(k)' = Scans(k)
    <3>1. Deferred' = Deferred
      BY <2>1 DEF Deferred
    <3> QED BY <2>1, <3>1, <1>SameScans
  <2>3. ASSUME NEW k \in Keys, ~IsScanning(k)
        PROVE  Scans(k) = 0
    <3>1. CASE NoForced
      BY <2>3, <3>1 DEF ScanInv, NoForced
    <3>2. CASE NoScanLeftOver
      <4>1. \A i \in Keys : ~IsScanning(i) /\ deferredScanRequests[i] = <<>>
        BY <2>1, <3>2 DEF NoScanLeftOver, ScanInv
      <4>2. ruleInfosToScan = <<>> /\ taskInfos = {}
        BY <2>1 DEF Turn
      <4>3. \A i \in Keys : task[i] = NewTask
        BY <4>2 DEF Sound, Live
      <4> QED BY <4>1, <4>2, <4>3, NoScansAre DEF NoScans
    <3> QED BY <3>1, <3>2
  <2>4. \A k \in Keys : IsScanning(k)' <=> IsScanning(k)
    BY <2>1 DEF IsScanning
  <2> QED BY <2>1, <2>2, <2>3, <2>4 DEF ScanInv
<1>1. (TypeOK /\ NoScans => ScanInv)'
  BY NoScansInv, PTL
<1>2. CASE OfLoop
  <2>1. \A k \in Keys : ScanStep(k)
    BY <1>2, LoopRules, <1>LoopScans, <1>MoveIsStep
  <2> QED BY <2>1, <1>ScanStepKeeps
<1>3. CASE BuildStarts
  BY <1>3, <1>BuildStartsScans
<1>4. CASE Restart
  <2>1. NoScans'
    BY <1>4 DEF Restart, NoScans, IsScanning
  <2> QED BY <1>1, <2>1
<1>5. CASE CancelRemainingTasks
  <2>1. \A k \in Keys : state'[k] = IF k \in CancelledRules THEN "Incomplete" ELSE state[k]
    BY <1>5 DEF CancelRemainingTasks
  <2>2. \A k \in Keys : IsScanning(k) => k \in CancelledRules
    BY DEF CancelledRules
  <2>3. \A k \in Keys : ~IsScanning(k)'
    BY <2>1, <2>2 DEF IsScanning
  <2>4. NoScans'
    BY <1>5, <2>3 DEF CancelRemainingTasks, NoScans
  <2> QED BY <1>1, <2>4
<1>6. ASSUME NEW i \in Keys, TaskIsComplete(i)
      PROVE  ScanInv'
  <2>1. PICK d : task' = [task EXCEPT ![i].discovered = d]
    BY <1>6 DEF TaskIsComplete
  <2>2. PICK new : new = [task[i] EXCEPT !.discovered = d]
    OBVIOUS
  <2>3. task' = [task EXCEPT ![i] = new] /\ new.deferredScans = task[i].deferredScans
    <3>1. task[i] \in TaskInfo
      BY DEF TypeOK
    <3>2. new.deferredScans = task[i].deferredScans
      BY <2>2, <3>1 DEF TaskInfo
    <3> QED BY <2>1, <2>2, <3>2
  <2>4. UNCHANGED <<state, wasForced, ruleInfosToScan, deferredScanRequests, currentEpoch>>
    BY <1>6 DEF TaskIsComplete, workerUnchanged, queueVars, clientVars
  <2>5. \A k \in Keys : Scans(k)' = Scans(k)
    BY <2>3, <2>4, <1>OneTaskDefers, <1>SameScans
  <2>6. \A k \in Keys : result'[k].builtAt = result[k].builtAt
    BY <1>6, ReportedIs
  <2>7. \A k \in Keys : (IsScanned(k)' <=> IsScanned(k)) /\ (IsScanning(k)' <=> IsScanning(k))
    BY <2>4, <2>6 DEF IsScanned, IsComplete, IsScanning
  <2> QED BY <2>4, <2>5, <2>7 DEF ScanInv
<1>7. CASE UNCHANGED vars
  <2>1. UNCHANGED <<state, wasForced, ruleInfosToScan, deferredScanRequests, currentEpoch, result, task>>
    BY <1>7 DEF vars, ruleVars, queueVars, taskVars, clientVars
  <2>2. \A k \in Keys : Scans(k)' = Scans(k)
    BY <2>1, <1>SameScans DEF Deferred
  <2> QED BY <2>1, <2>2 DEF ScanInv, IsScanned, IsComplete, IsScanning
<1> QED BY <1>2, <1>3, <1>4, <1>5, <1>6, <1>7 DEF OfLoop

\* The invariant counts what the property counts.
LEMMA ScansAreLive ==
  TypeOK /\ LoopInv /\ ScanInv => ScanRequestsAreLive
<1> SUFFICES ASSUME TypeOK, LoopInv, ScanInv
             PROVE  ScanRequestsAreLive
  OBVIOUS
<1> DEFINE all(k) == Cardinality(ScansAt(k, ruleInfosToScan))
                     + Cardinality(ScansAtRules(k, deferredScanRequests))
                     + Cardinality(ScansAtRules(k, [i \in Keys |-> task[i].deferredScans]))
<1>1. ASSUME NEW k \in Keys
      PROVE  IF IsScanning(k) THEN all(k) = 1 ELSE all(k) > 0 => wasForced[k]
  <2>1. ASSUME NEW s \in Seq(ScanRequest)
        PROVE  ScansAt(k, s) = Positions(s, For(k))
    <3>1. \A n \in DOMAIN s : s[n] \in ScanRequest
      BY SMT
    <3> QED BY <3>1 DEF ScansAt, Positions, For
  <2>2. ASSUME NEW l \in [Keys -> Seq(ScanRequest)]
        PROVE  ScansAtRules(k, l) = At(l, For(k))
    <3>1. \A i \in Keys : ScansAt(k, l[i]) = Positions(l[i], For(k))
      BY <2>1
    <3> QED BY <3>1 DEF ScansAtRules, At
  <2>3. PICK a, b, c : /\ a = Count(ruleInfosToScan, For(k))
                       /\ b = CountAt(deferredScanRequests, For(k)) /\ c = CountAt(Deferred, For(k))
    OBVIOUS
  <2>4. /\ Cardinality(ScansAt(k, ruleInfosToScan)) = a
        /\ Cardinality(ScansAtRules(k, deferredScanRequests)) = b
        /\ Cardinality(ScansAtRules(k, Deferred)) = c
    BY <2>1, <2>2, <2>3, ScanListTypes DEF Count, CountAt, ScanList, ScanLists, Lists
  <2>5. a \in Nat /\ b \in Nat /\ c \in Nat
    BY <2>3, ScanListTypes, CountType, CountAtType DEF ScanList, ScanLists, Lists
  <2>6. PICK n : n = all(k)
    OBVIOUS
  <2>7. n = a + b + c
    BY <2>4, <2>6 DEF Deferred
  <2>8. Scans(k) = a + (b + c)
    BY <2>3 DEF Scans
  <2>9. Scans(k) = n /\ (n > 0 => n # 0)
    BY ONLY <2>5, <2>7, <2>8, SMT
  <2> HIDE DEF all
  <2> QED BY <2>6, <2>9 DEF ScanInv
<1>2. Stuck => ruleInfosToScan = <<>>
  BY DEF Stuck, NoWorkLeft, LoopInv, Turn
<1> QED BY <1>1, <1>2 DEF ScanRequestsAreLive

\* Before the first build nothing is scanned.
LEMMA InitScans == Init => NoScans /\ NoForced
BY DEF Init, NoScans, IsScanning, NoForced

-----------------------------------------------------------------------------
(***************************************************************************)
(* No scan request is lost                                                 *)
(***************************************************************************)
\* As long as no scan outlives its build, every scan request is for a rule that scans,
\* through this one request, or for one that was forced to run; and none is queued
\* when a cycle is looked for.
THEOREM ScansAreKept == Spec /\ []NoScanLeftOver => []ScanRequestsAreLive
<1>1. Init /\ TypeOK => ScanInv
  BY InitScans, NoScansInv
<1>2. TypeOK /\ TypeOK' /\ LoopInv /\ ScanInv /\ NoScanLeftOver /\ [Next]_vars => ScanInv'
  BY LoopIsSound, NextScans DEF LoopInv
<1> QED BY <1>1, <1>2, ScansAreLive, TypeCorrect, LoopIsAccountedFor, PTL DEF Spec

\* Where the delegate breaks no cycle, no assumption is needed: then no request is
\* for a rule that does not scan.
THEOREM ScansWithoutBreaking ==
  ASSUME TRUE \notin ResolveCycle
  PROVE  Spec => []ScanRequestsAreLive /\ []NoForced
<1>1. Init /\ TypeOK => ScanInv /\ NoForced
  BY InitScans, NoScansInv
<1>2. TypeOK /\ TypeOK' /\ NoForced /\ [Next]_vars => NoForced'
  BY NextNoForced
<1>3. TypeOK /\ TypeOK' /\ LoopInv /\ ScanInv /\ NoForced /\ [Next]_vars => ScanInv'
  BY LoopIsSound, NextScans DEF LoopInv
<1> QED BY <1>1, <1>2, <1>3, ScansAreLive, TypeCorrect, LoopIsAccountedFor, PTL DEF Spec

=============================================================================
