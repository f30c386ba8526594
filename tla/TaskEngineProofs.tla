-------------------------- MODULE TaskEngineProofs --------------------------
(***************************************************************************)
(* The engine of llbuild3, for any rules, scripts and builds and whatever  *)
(* the executor and the cache answer: a task that waits is woken, and an   *)
(* exception has one of two causes.                                        *)
(*                                                                         *)
(* The invariant is stated of the value x of a task's record and of the    *)
(* parts of the state it depends on: the tasks that are live or over, the  *)
(* works and the executor's contract.                                      *)
(***************************************************************************)
EXTENDS TaskEngine, TLAPS

Fields ==
  {"stage", "context", "inputs", "subtasks", "todo", "step", "target", "ids", "failed",
   "cached", "stableIDMap", "requestedTaskInputs", "requestedBy", "pendingActions",
   "pendingSubtasks", "waitingOn", "next"}

LiveTasks == {t \in Tasks : Live(t)}
OverTasks == {t \in Tasks : Over(t)}

\* A request, and the stable id of one, for something there is.
IsRequest(q) == /\ q.kind = "artifact" => q.label \in Artifacts
                /\ q.kind = "rule" => q.label \in Tasks
IsStableID(sid) == /\ sid[1] = "artifact" => sid[2] \in Artifacts
                   /\ sid[1] = "rule" => sid[2] \in Tasks

\* The sequences of a record are sequences.
Formed(x) ==
  /\ DOMAIN x = Fields /\ x.context \in Nat /\ IsSequence(x.ids)
  /\ IsSequence(x.todo) /\ \A i \in DOMAIN x.todo : IsRequest(x.todo[i])

\* What a task does next, and how far it has come with the request it makes.
Asks(t, x, live, wk, cl, cm) ==
  /\ Formed(x)
  /\ x.stage = "replaying" => IsSequence(x.cached.ids)
  /\ x.step \in {"check", "rule", "construct", "record", "submitted"}
  /\ x.step # "check" => x.todo # << >> /\ x.stage \in {"computing", "replaying", "thrown"}
  /\ x.step \in {"rule", "construct", "record"} => Head(x.todo).kind \in {"artifact", "rule"}
  /\ x.step = "record" => x.target \in live
  /\ x.step = "submitted" =>
       /\ Head(x.todo).kind \in {"action", "subtask"}
       /\ x.target \in DOMAIN wk /\ cl[x.target] = "calling"
       /\ wk[x.target] = [task |-> t, request |-> Head(x.todo)]
       /\ x.stage # "thrown" => cm[x.target] = 0

\* The tasks whose results it has asked for.
Inputs(x, live) ==
  \A u \in DOMAIN x.requestedTaskInputs :
    u \in live /\ IsStableID(x.requestedTaskInputs[u])

\* The work it has handed to the executor.
Owns(t, w, wk, cl) == w \in DOMAIN wk /\ wk[w].task = t /\ cl[w] = "accepted"

Holds(t, x, wk, cl, cm) ==
  /\ x.stage = "absent" => x.pendingActions = NoMap /\ x.pendingSubtasks = NoMap
  /\ \A w \in DOMAIN x.pendingActions :
       /\ Owns(t, w, wk, cl) /\ wk[w].request.kind = "action"
       /\ DOMAIN x.pendingActions[w] = {"sid", "result"}
       /\ IsStableID(x.pendingActions[w].sid)
       /\ x.pendingActions[w].result = Pending <=> cm[w] = 0
  /\ \A w \in DOMAIN x.pendingSubtasks :
       /\ Owns(t, w, wk, cl) /\ wk[w].request.kind # "action"
       /\ x.pendingSubtasks[w] = Pending <=> cm[w] = 0

\* What it has asked for and not got.
Open(x, id, over) ==
  \/ id \in DOMAIN x.requestedTaskInputs /\ id \notin over
  \/ id \in DOMAIN x.pendingActions /\ x.pendingActions[id].result = Pending
  \/ id \in DOMAIN x.pendingSubtasks /\ x.pendingSubtasks[id] = Pending

\* What it waits for.
Waits(x, over) ==
  /\ x.stage = "waiting" <=> x.waitingOn # {}
  /\ x.stage = "waiting" =>
       \A id \in WaitIDs(x) : id \in x.waitingOn \/ ~Open(x, id, over)

Throws(x, cm) ==
  x.stage = "thrown" =>
    \/ x.step = "submitted" /\ cm[x.target] = 1
    \/ \E i, j \in DOMAIN x.ids : i # j /\ WaitID(x, i) = WaitID(x, j)

TaskInv(t, x, live, over, wk, cl, cm) ==
  /\ Asks(t, x, live, wk, cl, cm) /\ Inputs(x, live) /\ Holds(t, x, wk, cl, cm)
  /\ Waits(x, over) /\ Throws(x, cm)

\* Who will wake it.
Wakes(t, ti, wk, cl, cm) ==
  \A id \in ti[t].waitingOn :
    \/ id \in Tasks /\ t \in ti[id].requestedBy /\ ti[id].stage \notin {"absent", "done"}
    \/ Owns(t, id, wk, cl) /\ cm[id] = 0

\* No work is without its task.
WorkInv(ti, wk, cl, cm) ==
  /\ cl \in [Works -> {"idle", "calling", "accepted", "rejected"}] /\ cm \in [Works -> 0 .. 1]
  /\ \A w \in Works : cl[w] = "idle" => w \notin DOMAIN wk /\ cm[w] = 0
  /\ \A w \in DOMAIN wk :
       /\ w \in Works /\ wk[w].task \in Tasks
       /\ cl[w] = "calling" => /\ ti[wk[w].task].step = "submitted"
                               /\ ti[wk[w].task].target = w
       /\ cl[w] = "accepted" /\ cm[w] = 0 =>
            w \in DOMAIN ti[wk[w].task].pendingActions
                    \cup DOMAIN ti[wk[w].task].pendingSubtasks

\* What the cache says can be replayed.
CacheInv ==
  \A k \in DOMAIN actionCache :
    /\ IsSequence(actionCache[k].ids)
    /\ \A sid \in actionCache[k].requests : IsStableID(sid)

EngineInv ==
  /\ DOMAIN taskInfos = Tasks
  /\ \A t \in Tasks :
       /\ TaskInv(t, taskInfos[t], LiveTasks, OverTasks, work, call, completions)
       /\ Wakes(t, taskInfos, work, call, completions)
  /\ WorkInv(taskInfos, work, call, completions)
  /\ CacheInv

\* A leaf of the proofs that names no prover is left to Zenon.
USE Zenon

-----------------------------------------------------------------------------
(***************************************************************************)
(* Sequences                                                               *)
(***************************************************************************)
\* A sequence of elements of S is a function of the positions from 1 to its length, and
\* every such function is one.
LEMMA SequenceOf ==
  ASSUME NEW S
  PROVE  /\ \A s \in Seq(S) : /\ Len(s) \in Nat /\ DOMAIN s = 1 .. Len(s)
                             /\ s \in [1 .. Len(s) -> S]
         /\ \A n \in Nat : \A f \in [1 .. n -> S] : f \in Seq(S)
BY SMT

\* A sequence has positions from 1 to its length.
LEMMA SequenceIs ==
  ASSUME NEW s, IsSequence(s)
  PROVE  Len(s) \in Nat /\ DOMAIN s = 1 .. Len(s) /\ s = [i \in 1 .. Len(s) |-> s[i]]
BY SequenceOf DEF IsSequence

\* What has positions from 1 to a number is a sequence.
LEMMA IsASequence ==
  ASSUME NEW n \in Nat, NEW s, s = [i \in 1 .. n |-> s[i]]
  PROVE  IsSequence(s) /\ DOMAIN s = 1 .. n
<1>1. DOMAIN s = 1 .. n
  OBVIOUS
<1>2. s \in [1 .. n -> {s[i] : i \in DOMAIN s}]
  BY <1>1
<1>3. s \in Seq({s[i] : i \in DOMAIN s})
  BY <1>2, SequenceOf
<1> QED
  BY <1>1, <1>3 DEF IsSequence

\* The empty sequence, and one of a single element.
LEMMA SmallSequences ==
  /\ IsSequence(<< >>) /\ DOMAIN << >> = {}
  /\ \A e : IsSequence(<< e >>) /\ DOMAIN << e >> = {1} /\ << e >>[1] = e
<1>1. IsSequence(<< >>) /\ DOMAIN << >> = {}
  BY SMT DEF IsSequence
<1>2. ASSUME NEW e PROVE IsSequence(<< e >>) /\ DOMAIN << e >> = {1} /\ << e >>[1] = e
  BY SMT DEF IsSequence
<1> QED
  BY <1>1, <1>2

\* A sequence with one more element.
LEMMA AppendIs ==
  ASSUME NEW s, IsSequence(s), NEW e
  PROVE  IsSequence(Append(s, e))
<1> DEFINE S == {s[i] : i \in DOMAIN s}
           n == Len(s) + 1
           a == Append(s, e)
<1>1. s \in Seq(S) /\ Len(s) \in Nat
  BY SequenceIs DEF IsSequence
<1> HIDE DEF S
<1>2. s \in Seq(S \cup {e}) /\ e \in S \cup {e}
  BY <1>1, SMT
<1>3. a \in Seq(S \cup {e}) /\ Len(a) = n /\ n \in Nat
  BY ONLY <1>1, <1>2, SMT
<1>4. a = [i \in 1 .. n |-> a[i]]
  BY <1>3, SequenceOf
<1> QED
  BY <1>3, <1>4, IsASequence

\* What is left of a sequence without its first element.
LEMMA TailIs ==
  ASSUME NEW s, IsSequence(s), s # << >>
  PROVE  /\ 1 \in DOMAIN s /\ Head(s) = s[1] /\ IsSequence(Tail(s))
         /\ \A i \in DOMAIN Tail(s) : \E j \in DOMAIN s : Tail(s)[i] = s[j]
<1> DEFINE S == {s[i] : i \in DOMAIN s}
           a == Tail(s)
<1>1. s \in Seq(S) /\ Len(s) \in Nat /\ DOMAIN s = 1 .. Len(s)
  BY SequenceIs DEF IsSequence
<1>2. \A e \in S : \E j \in DOMAIN s : e = s[j]
  OBVIOUS
<1> HIDE DEF S
<1>3. 1 \in DOMAIN s /\ Head(s) = s[1]
  BY <1>1, SMT
<1>4. a \in Seq(S) /\ Len(a) \in Nat
  BY <1>1, SMT
<1>5. a = [i \in 1 .. Len(a) |-> a[i]] /\ \A i \in DOMAIN a : a[i] \in S
  BY <1>4, SequenceOf
<1> QED
  BY <1>2, <1>3, <1>4, <1>5, IsASequence
-----------------------------------------------------------------------------
(***************************************************************************)
(* Steps                                                                   *)
(***************************************************************************)
\* What every step leaves of a task's record: it stays live, it stays over, its requesters
\* stay and it gets no more to wait for.
Onward(x, y) ==
  /\ y.waitingOn \subseteq x.waitingOn
  /\ x.stage # "absent" => y.stage # "absent" /\ x.requestedBy \subseteq y.requestedBy
  /\ x.stage \in {"finished", "done"} => y.stage \in {"finished", "done"}
  /\ y.stage = "done" => x.stage = "done"

\* The submission that is under way, and the work that is not done, stay.
KeepsWork(x, y, cm) ==
  /\ x.step = "submitted" => y.step = "submitted" /\ y.target = x.target
  /\ \A w \in DOMAIN x.pendingActions \cup DOMAIN x.pendingSubtasks :
       cm[w] = 0 => w \in DOMAIN y.pendingActions \cup DOMAIN y.pendingSubtasks

\* What the others do to the works leaves those of t alone.
SameWorks(t, wk, cl, cm, wk2, cl2, cm2) ==
  \A w \in DOMAIN wk : /\ w \in DOMAIN wk2 /\ wk2[w] = wk[w]
                       /\ wk[w].task = t => cl2[w] = cl[w] /\ cm2[w] = cm[w]

\* A task whose record stays what it is keeps its invariant.
LEMMA TaskKept ==
  ASSUME NEW t, NEW x, NEW live, NEW over, NEW wk, NEW cl, NEW cm,
         TaskInv(t, x, live, over, wk, cl, cm),
         NEW live2, NEW over2, NEW wk2, NEW cl2, NEW cm2,
         live \subseteq live2, over \subseteq over2, SameWorks(t, wk, cl, cm, wk2, cl2, cm2)
  PROVE  TaskInv(t, x, live2, over2, wk2, cl2, cm2)
<1>1. Asks(t, x, live2, wk2, cl2, cm2)
  <2>1. Asks(t, x, live, wk, cl, cm)
    BY DEF TaskInv
  <2>2. x.step = "submitted" =>
          /\ x.target \in DOMAIN wk2 /\ cl2[x.target] = "calling"
          /\ wk2[x.target] = [task |-> t, request |-> Head(x.todo)]
          /\ x.stage # "thrown" => cm2[x.target] = 0
    <3> SUFFICES ASSUME x.step = "submitted"
                 PROVE  /\ x.target \in DOMAIN wk2 /\ cl2[x.target] = "calling"
                        /\ wk2[x.target] = [task |-> t, request |-> Head(x.todo)]
                        /\ x.stage # "thrown" => cm2[x.target] = 0
      OBVIOUS
    <3>1. /\ x.target \in DOMAIN wk /\ cl[x.target] = "calling"
          /\ wk[x.target] = [task |-> t, request |-> Head(x.todo)]
          /\ x.stage # "thrown" => cm[x.target] = 0
      BY <2>1 DEF Asks
    <3>2. wk[x.target].task = t
      BY ONLY <3>1, SMT
    <3> QED
      BY <3>1, <3>2 DEF SameWorks
  <2> QED
    BY <2>1, <2>2 DEF Asks
<1>2. Inputs(x, live2)
  BY DEF TaskInv, Inputs
<1>3. \A w : Owns(t, w, wk, cl) => /\ Owns(t, w, wk2, cl2) /\ cm2[w] = cm[w]
                                   /\ wk2[w].request = wk[w].request
  BY DEF Owns, SameWorks
<1>4. Holds(t, x, wk2, cl2, cm2)
  BY <1>3 DEF TaskInv, Holds
<1>5. Waits(x, over2)
  BY DEF TaskInv, Waits, Open
<1>6. Throws(x, cm2)
  <2>1. x.step = "submitted" => cm2[x.target] = cm[x.target]
    <3>1. x.step = "submitted" =>
            x.target \in DOMAIN wk /\ wk[x.target] = [task |-> t, request |-> Head(x.todo)]
      BY DEF TaskInv, Asks
    <3>2. x.step = "submitted" => x.target \in DOMAIN wk /\ wk[x.target].task = t
      BY ONLY <3>1, SMT
    <3> QED
      BY <3>2 DEF SameWorks
  <2> QED
    BY <2>1 DEF TaskInv, Throws
<1> QED
  BY <1>1, <1>2, <1>4, <1>5, <1>6 DEF TaskInv

\* A step that changes the record of one task, and perhaps its works.
LEMMA OneMoves ==
  ASSUME EngineInv, NEW t \in Tasks, NEW y, taskInfos' = [taskInfos EXCEPT ![t] = y],
         CacheInv', Onward(taskInfos[t], y),
         TaskInv(t, y, LiveTasks, OverTasks, work', call', completions'),
         \A u \in Tasks \ {t} : SameWorks(u, work, call, completions, work', call', completions'),
         \A id \in y.waitingOn : Owns(t, id, work, call) /\ completions[id] = 0 =>
                                   Owns(t, id, work', call') /\ completions'[id] = 0,
         WorkInv(taskInfos', work', call', completions')
  PROVE  EngineInv'
<1>1. /\ DOMAIN taskInfos' = Tasks /\ taskInfos'[t] = y
      /\ \A u \in Tasks \ {t} : taskInfos'[u] = taskInfos[u]
  BY DEF EngineInv
<1>2. LiveTasks \subseteq LiveTasks' /\ OverTasks \subseteq OverTasks'
  <2>1. \A u \in Tasks : /\ taskInfos[u].stage # "absent" => taskInfos'[u].stage # "absent"
                         /\ taskInfos[u].stage \in {"finished", "done"} =>
                              taskInfos'[u].stage \in {"finished", "done"}
    BY <1>1 DEF Onward
  <2> QED
    BY <2>1 DEF LiveTasks, OverTasks, Live, Over
<1>3. TaskInv(t, taskInfos'[t], LiveTasks', OverTasks', work', call', completions')
  <2>1. SameWorks(t, work', call', completions', work', call', completions')
    BY DEF SameWorks
  <2>2. TaskInv(t, y, LiveTasks', OverTasks', work', call', completions')
    BY <1>2, <2>1, TaskKept
  <2> QED
    BY <1>1, <2>2
<1>4. ASSUME NEW u \in Tasks \ {t}
      PROVE  TaskInv(u, taskInfos'[u], LiveTasks', OverTasks', work', call', completions')
  <2>1. TaskInv(u, taskInfos[u], LiveTasks, OverTasks, work, call, completions)
    BY DEF EngineInv
  <2>2. TaskInv(u, taskInfos[u], LiveTasks', OverTasks', work', call', completions')
    BY <1>2, <2>1, TaskKept
  <2> QED
    BY <1>1, <2>2
<1>5. \A v \in Tasks :
        /\ taskInfos[v].stage \notin {"absent", "done"} =>
             taskInfos'[v].stage \notin {"absent", "done"}
        /\ taskInfos[v].stage # "absent" => taskInfos[v].requestedBy \subseteq taskInfos'[v].requestedBy
        /\ taskInfos'[v].waitingOn \subseteq taskInfos[v].waitingOn
  BY <1>1 DEF Onward
<1>6. \A u \in Tasks : Wakes(u, taskInfos', work', call', completions')
  <2> SUFFICES ASSUME NEW u \in Tasks, NEW id \in taskInfos'[u].waitingOn
               PROVE  \/ /\ id \in Tasks /\ u \in taskInfos'[id].requestedBy
                         /\ taskInfos'[id].stage \notin {"absent", "done"}
                      \/ Owns(u, id, work', call') /\ completions'[id] = 0
    BY DEF Wakes
  <2>1. id \in taskInfos[u].waitingOn
    BY <1>5
  <2>2. CASE id \in Tasks /\ u \in taskInfos[id].requestedBy /\ taskInfos[id].stage \notin {"absent", "done"}
    BY <1>5, <2>2
  <2>3. CASE Owns(u, id, work, call) /\ completions[id] = 0
    <3>1. CASE u = t
      BY <1>1, <2>3, <3>1
    <3>2. CASE u # t
      BY <2>3, <3>2 DEF SameWorks, Owns
    <3> QED
      BY <3>1, <3>2
  <2> QED
    BY <2>1, <2>2, <2>3 DEF EngineInv, Wakes
<1>7. \A u \in Tasks : TaskInv(u, taskInfos'[u], LiveTasks', OverTasks', work', call', completions')
  BY <1>3, <1>4
<1> QED
  BY <1>1, <1>6, <1>7 DEF EngineInv

\* A step that changes the record of one task, and no work.
LEMMA QuietMove ==
  ASSUME EngineInv, NEW t \in Tasks, NEW y, taskInfos' = [taskInfos EXCEPT ![t] = y],
         UNCHANGED <<work, call, completions>>, CacheInv', Onward(taskInfos[t], y),
         KeepsWork(taskInfos[t], y, completions),
         TaskInv(t, y, LiveTasks, OverTasks, work, call, completions)
  PROVE  EngineInv'
<1>1. UNCHANGED work /\ UNCHANGED call /\ UNCHANGED completions
  OBVIOUS
<1>2. /\ DOMAIN taskInfos' = Tasks /\ taskInfos'[t] = y
      /\ \A u \in Tasks \ {t} : taskInfos'[u] = taskInfos[u]
  BY DEF EngineInv
<1>3. \A u \in Tasks : KeepsWork(taskInfos[u], taskInfos'[u], completions)
  BY <1>2 DEF KeepsWork
<1>4. WorkInv(taskInfos', work, call, completions)
  <2>1. WorkInv(taskInfos, work, call, completions)
    BY DEF EngineInv
  <2> QED
    BY <1>3, <2>1 DEF WorkInv, KeepsWork
<1>5. \A u : SameWorks(u, work, call, completions, work, call, completions)
  BY DEF SameWorks
<1>6. TaskInv(t, y, LiveTasks, OverTasks, work', call', completions')
  BY <1>1
<1>7. WorkInv(taskInfos', work', call', completions')
  BY <1>1, <1>4
<1>8. \A u \in Tasks \ {t} : SameWorks(u, work, call, completions, work', call', completions')
  BY <1>1, <1>5
<1> QED
  BY <1>1, <1>6, <1>7, <1>8, OneMoves

\* The same works, requesters and wait.
SameHeld(x, y) ==
  /\ y.pendingActions = x.pendingActions /\ y.pendingSubtasks = x.pendingSubtasks
  /\ y.waitingOn = x.waitingOn /\ y.requestedBy = x.requestedBy

\* A task that neither waits nor has submitted work.
IsRecord(y, live) ==
  /\ Formed(y)
  /\ y.stage \notin {"waiting", "thrown", "absent"}
  /\ y.stage = "replaying" => IsSequence(y.cached.ids)
  /\ y.step \in {"check", "rule", "construct", "record"}
  /\ y.step # "check" => y.todo # << >> /\ y.stage \in {"computing", "replaying"}
  /\ y.step \in {"rule", "construct", "record"} => Head(y.todo).kind \in {"artifact", "rule"}
  /\ y.step = "record" => y.target \in live

\* A task that neither waits nor submits work goes on with what it is doing.
LEMMA Moved ==
  ASSUME NEW t, NEW x, NEW live, NEW over, NEW wk, NEW cl, NEW cm,
         TaskInv(t, x, live, over, wk, cl, cm), x.stage # "waiting", x.step # "submitted",
         NEW y, IsRecord(y, live), SameHeld(x, y), Inputs(y, live)
  PROVE  TaskInv(t, y, live, over, wk, cl, cm) /\ KeepsWork(x, y, cm)
<1>1. Asks(t, y, live, wk, cl, cm)
  BY DEF IsRecord, Asks
<1>2. Holds(t, y, wk, cl, cm)
  <2>1. y.stage # "absent"
    BY DEF IsRecord
  <2> QED
    BY <2>1 DEF TaskInv, Holds, SameHeld
<1>3. Waits(y, over)
  BY DEF TaskInv, Waits, SameHeld, IsRecord
<1>4. Throws(y, cm)
  BY DEF Throws, IsRecord
<1>5. KeepsWork(x, y, cm)
  BY DEF KeepsWork, SameHeld
<1> QED
  BY <1>1, <1>2, <1>3, <1>4, <1>5 DEF TaskInv

\* The requests that are left.
LEMMA TailAsks ==
  ASSUME NEW todo, IsSequence(todo), todo # << >>, \A i \in DOMAIN todo : IsRequest(todo[i]),
         NEW rest, rest = Tail(todo)
  PROVE  IsSequence(rest) /\ \A i \in DOMAIN rest : IsRequest(rest[i])
<1>1. \A i \in DOMAIN Tail(todo) : \E j \in DOMAIN todo : Tail(todo)[i] = todo[j]
  BY TailIs
<1>2. IsSequence(Tail(todo))
  BY TailIs
<1> QED
  BY <1>1, <1>2

\* A request is answered with an id.
LEMMA RequestedIs ==
  ASSUME NEW x, Formed(x), x.stage \in {"computing", "replaying"}, x.todo # << >>,
         x.stage = "replaying" => IsSequence(x.cached.ids), NEW live, NEW id,
         NEW y, y = Requested(x, id)
  PROVE  /\ IsRecord(y, live) /\ SameHeld(x, y) /\ y.stage = x.stage
         /\ y.requestedTaskInputs = x.requestedTaskInputs
<1>1. /\ DOMAIN x = Fields /\ x.context \in Nat /\ IsSequence(x.ids)
      /\ IsSequence(x.todo) /\ \A i \in DOMAIN x.todo : IsRequest(x.todo[i])
  BY DEF Formed
<1>2. /\ DOMAIN y = Fields /\ y.todo = Tail(x.todo) /\ y.step = "check" /\ y.stage = x.stage
      /\ y.ids = x.ids \/ y.ids = Append(x.ids, id)
      /\ y.context = x.context /\ y.cached = x.cached
      /\ y.requestedTaskInputs = x.requestedTaskInputs
      /\ y.pendingActions = x.pendingActions /\ y.pendingSubtasks = x.pendingSubtasks
      /\ y.waitingOn = x.waitingOn /\ y.requestedBy = x.requestedBy
  BY <1>1, SMT DEF Requested, Fields
<1>3. IsSequence(y.ids) /\ IsSequence(y.todo) /\ \A i \in DOMAIN y.todo : IsRequest(y.todo[i])
  <2>1. IsSequence(Append(x.ids, id))
    BY <1>1, AppendIs
  <2>2. IsSequence(y.todo) /\ \A i \in DOMAIN y.todo : IsRequest(y.todo[i])
    BY <1>1, <1>2, TailAsks
  <2> QED
    BY <1>1, <1>2, <2>1, <2>2
<1> QED
  BY <1>2, <1>3 DEF IsRecord, Formed, SameHeld

\* A request is refused.
LEMMA RefusedIs ==
  ASSUME NEW x, NEW live, IsRecord(x, live), x.stage \in {"computing", "replaying"},
         NEW y, y = Refused(x)
  PROVE  /\ IsRecord(y, live) /\ SameHeld(x, y) /\ y.stage \in {"computing", "ready"}
         /\ y.requestedTaskInputs = x.requestedTaskInputs
<1>1. DOMAIN x = Fields /\ x.context \in Nat /\ IsSequence(x.ids)
  BY DEF IsRecord, Formed
<1>2. /\ DOMAIN y = Fields /\ y.todo = << >> /\ y.step = "check"
      /\ y.stage \in {"computing", "ready"} /\ y.ids = x.ids /\ y.context = x.context
      /\ y.requestedTaskInputs = x.requestedTaskInputs
      /\ y.pendingActions = x.pendingActions /\ y.pendingSubtasks = x.pendingSubtasks
      /\ y.waitingOn = x.waitingOn /\ y.requestedBy = x.requestedBy
  BY <1>1, SMT DEF Refused, Fields
<1> QED
  BY <1>1, <1>2, SmallSequences DEF IsRecord, Formed, SameHeld

\* An input is recorded.
LEMMA RecordedIs ==
  ASSUME NEW x, NEW live, IsRecord(x, live), x.stage \in {"computing", "replaying"},
         x.todo # << >>, Inputs(x, live), NEW input \in live, NEW sid, IsStableID(sid),
         NEW y, y = Recorded(x, input, sid)
  PROVE  IsRecord(y, live) /\ SameHeld(x, y) /\ y.stage = x.stage /\ Inputs(y, live)
<1> DEFINE z == [x EXCEPT !.requestedTaskInputs = Insert(@, input, sid),
                          !.stableIDMap = Insert(@, sid, input)]
<1>1. DOMAIN x = Fields
  BY DEF IsRecord, Formed
<1>2. /\ DOMAIN z = Fields /\ z.context = x.context /\ z.ids = x.ids /\ z.todo = x.todo
      /\ z.stage = x.stage /\ z.cached = x.cached /\ z.step = x.step /\ z.target = x.target
      /\ z.requestedTaskInputs = Insert(x.requestedTaskInputs, input, sid)
      /\ z.pendingActions = x.pendingActions /\ z.pendingSubtasks = x.pendingSubtasks
      /\ z.waitingOn = x.waitingOn /\ z.requestedBy = x.requestedBy
  BY <1>1, SMT DEF Fields
<1>3. y = Requested(z, sid)
  BY DEF Recorded
<1> HIDE DEF z
<1>4. IsRecord(z, live) /\ SameHeld(x, z)
  BY <1>2 DEF IsRecord, Formed, SameHeld
<1>5. /\ IsRecord(y, live) /\ SameHeld(z, y) /\ y.stage = z.stage
      /\ y.requestedTaskInputs = z.requestedTaskInputs
  <2>1. /\ z.stage \in {"computing", "replaying"} /\ z.todo # << >> /\ Formed(z)
        /\ z.stage = "replaying" => IsSequence(z.cached.ids)
    BY <1>2, <1>4 DEF IsRecord
  <2> QED
    BY ONLY <1>3, <2>1, RequestedIs, SMT
<1>6. Inputs(y, live)
  <2> DEFINE r == x.requestedTaskInputs
             s == Insert(r, input, sid)
  <2>1. DOMAIN s = DOMAIN r \cup {input}
    BY DEF Insert
  <2>2. \A k \in DOMAIN r : s[k] = r[k]
    BY DEF Insert
  <2>3. input \notin DOMAIN r => s[input] = sid
    BY DEF Insert
  <2>4. \A u \in DOMAIN r : u \in live /\ IsStableID(r[u])
    BY DEF Inputs
  <2>5. y.requestedTaskInputs = s
    BY <1>2, <1>5
  <2> HIDE DEF r, s
  <2>6. \A u \in DOMAIN s : u \in live /\ IsStableID(s[u])
    BY <2>1, <2>2, <2>3, <2>4
  <2> QED
    BY <2>5, <2>6 DEF Inputs
<1> QED
  BY <1>2, <1>4, <1>5, <1>6 DEF SameHeld

\* A task that makes a request and has not handed it to the executor.
LEMMA AskerIs ==
  ASSUME EngineInv, NEW t \in Tasks, taskInfos[t].stage \in {"computing", "replaying"},
         taskInfos[t].step # "submitted"
  PROVE  /\ IsRecord(taskInfos[t], LiveTasks) /\ Inputs(taskInfos[t], LiveTasks)
         /\ TaskInv(t, taskInfos[t], LiveTasks, OverTasks, work, call, completions)
<1>1. TaskInv(t, taskInfos[t], LiveTasks, OverTasks, work, call, completions)
  BY DEF EngineInv
<1> QED
  BY <1>1 DEF TaskInv, Asks, IsRecord

\* Such a task makes a step.
LEMMA AskerMoves ==
  ASSUME EngineInv, NEW t \in Tasks, taskInfos[t].stage \in {"computing", "replaying"},
         taskInfos[t].step # "submitted", NEW y, taskInfos' = [taskInfos EXCEPT ![t] = y],
         IsRecord(y, LiveTasks), SameHeld(taskInfos[t], y), y.stage # "done", Inputs(y, LiveTasks),
         UNCHANGED <<work, call, completions>>, CacheInv'
  PROVE  EngineInv'
<1>1. /\ TaskInv(t, y, LiveTasks, OverTasks, work, call, completions)
      /\ KeepsWork(taskInfos[t], y, completions)
  BY AskerIs, Moved
<1>2. Onward(taskInfos[t], y)
  BY DEF Onward, SameHeld, IsRecord
<1> QED
  BY <1>1, <1>2, QuietMove

\* A step that changes no work.
LEMMA WorksStay ==
  ASSUME EngineInv, DOMAIN taskInfos' = Tasks, UNCHANGED <<work, call, completions>>, CacheInv',
         \A u \in Tasks : /\ KeepsWork(taskInfos[u], taskInfos'[u], completions)
                          /\ TaskInv(u, taskInfos'[u], LiveTasks', OverTasks', work, call, completions)
                          /\ Wakes(u, taskInfos', work, call, completions)
  PROVE  EngineInv'
<1>1. UNCHANGED work /\ UNCHANGED call /\ UNCHANGED completions
  OBVIOUS
<1>2. WorkInv(taskInfos', work, call, completions)
  <2>1. WorkInv(taskInfos, work, call, completions)
    BY DEF EngineInv
  <2> QED
    BY <2>1 DEF WorkInv, KeepsWork
<1>3. \A u \in Tasks : /\ TaskInv(u, taskInfos'[u], LiveTasks', OverTasks', work', call', completions')
                       /\ Wakes(u, taskInfos', work', call', completions')
  BY <1>1
<1>4. WorkInv(taskInfos', work', call', completions')
  BY <1>1, <1>2
<1> QED
  BY <1>3, <1>4 DEF EngineInv

\* A step that changes the records of several tasks, and no work.
LEMMA AllMove ==
  ASSUME EngineInv, DOMAIN taskInfos' = Tasks, UNCHANGED <<work, call, completions>>, CacheInv',
         \A u \in Tasks : /\ Onward(taskInfos[u], taskInfos'[u])
                          /\ KeepsWork(taskInfos[u], taskInfos'[u], completions)
                          /\ TaskInv(u, taskInfos'[u], LiveTasks', OverTasks', work, call, completions)
  PROVE  EngineInv'
<1>1. \A u \in Tasks : Wakes(u, taskInfos', work, call, completions)
  <2> SUFFICES ASSUME NEW u \in Tasks, NEW id \in taskInfos'[u].waitingOn
               PROVE  \/ /\ id \in Tasks /\ u \in taskInfos'[id].requestedBy
                         /\ taskInfos'[id].stage \notin {"absent", "done"}
                      \/ Owns(u, id, work, call) /\ completions[id] = 0
    BY DEF Wakes
  <2>1. id \in taskInfos[u].waitingOn
    BY DEF Onward
  <2>2. CASE id \in Tasks /\ u \in taskInfos[id].requestedBy /\ taskInfos[id].stage \notin {"absent", "done"}
    <3>1. Onward(taskInfos[id], taskInfos'[id])
      BY <2>2
    <3> QED
      BY <2>2, <3>1 DEF Onward
  <2> QED
    BY <2>1, <2>2 DEF EngineInv, Wakes
<1> QED
  BY <1>1, WorksStay

\* A task that is inserted.
LEMMA NewTaskIs ==
  ASSUME NEW u, NEW x, NEW live, NEW over, NEW wk, NEW cl, NEW cm,
         TaskInv(u, x, live, over, wk, cl, cm), x.stage = "absent",
         NEW live2, NEW over2
  PROVE  /\ TaskInv(u, NewTaskInfo("ready"), live2, over2, wk, cl, cm)
         /\ Onward(x, NewTaskInfo("ready")) /\ KeepsWork(x, NewTaskInfo("ready"), cm)
<1> DEFINE n == NewTaskInfo("ready")
<1>1. /\ DOMAIN n = Fields /\ n.stage = "ready" /\ n.context = 0 /\ n.ids = << >> /\ n.todo = << >>
      /\ n.step = "check" /\ n.requestedTaskInputs = NoMap /\ n.pendingActions = NoMap
      /\ n.pendingSubtasks = NoMap /\ n.waitingOn = {} /\ n.requestedBy = {}
  BY SMT DEF NewTaskInfo, Fields
<1> HIDE DEF n
<1>2. DOMAIN NoMap = {}
  BY SmallSequences DEF NoMap
<1>3. Asks(u, n, live2, wk, cl, cm)
  <2>1. 0 \in Nat
    BY SMT
  <2> QED
    BY <1>1, <2>1, SmallSequences DEF Asks, Formed
<1>4. Inputs(n, live2) /\ Holds(u, n, wk, cl, cm) /\ Waits(n, over2) /\ Throws(n, cm)
  BY <1>1, <1>2 DEF Inputs, Holds, Waits, Throws
<1>5. /\ x.pendingActions = NoMap /\ x.pendingSubtasks = NoMap /\ x.step = "check"
      /\ x.waitingOn = {}
  BY DEF TaskInv, Holds, Asks, Waits
<1>6. Onward(x, n) /\ KeepsWork(x, n, cm)
  BY <1>1, <1>2, <1>5 DEF Onward, KeepsWork
<1> QED
  BY <1>3, <1>4, <1>6 DEF TaskInv, n

\* A step that changes the record of one task and inserts another.
LEMMA InsertMove ==
  ASSUME EngineInv, NEW t \in Tasks, NEW u \in Tasks, t # u, taskInfos[u].stage = "absent", NEW y,
         taskInfos' = [taskInfos EXCEPT ![t] = y, ![u] = NewTaskInfo("ready")],
         UNCHANGED <<work, call, completions>>, CacheInv', Onward(taskInfos[t], y),
         KeepsWork(taskInfos[t], y, completions),
         TaskInv(t, y, LiveTasks \cup {u}, OverTasks, work, call, completions)
  PROVE  EngineInv'
<1> DEFINE n == NewTaskInfo("ready")
<1>1. /\ DOMAIN taskInfos' = Tasks /\ taskInfos'[t] = y /\ taskInfos'[u] = n
      /\ \A v \in Tasks \ {t, u} : taskInfos'[v] = taskInfos[v]
  BY DEF EngineInv
<1>2. n.stage = "ready"
  BY SMT DEF NewTaskInfo
<1> HIDE DEF n
<1>3. \A v \in Tasks : TaskInv(v, taskInfos[v], LiveTasks, OverTasks, work, call, completions)
  BY DEF EngineInv
<1>4. /\ TaskInv(u, n, LiveTasks', OverTasks', work, call, completions)
      /\ Onward(taskInfos[u], n) /\ KeepsWork(taskInfos[u], n, completions)
  BY <1>3, NewTaskIs DEF n
<1>5. \A v \in Tasks : /\ Onward(taskInfos[v], taskInfos'[v])
                       /\ KeepsWork(taskInfos[v], taskInfos'[v], completions)
  <2>1. \A v : Onward(taskInfos[v], taskInfos[v]) /\ KeepsWork(taskInfos[v], taskInfos[v], completions)
    BY DEF Onward, KeepsWork
  <2> QED
    BY <1>1, <1>4, <2>1
<1>6. LiveTasks \cup {u} \subseteq LiveTasks' /\ OverTasks \subseteq OverTasks'
  <2>1. \A v \in Tasks : /\ taskInfos[v].stage # "absent" => taskInfos'[v].stage # "absent"
                         /\ taskInfos[v].stage \in {"finished", "done"} =>
                              taskInfos'[v].stage \in {"finished", "done"}
    BY <1>5 DEF Onward
  <2>2. taskInfos'[u].stage # "absent"
    BY <1>1, <1>2
  <2> QED
    BY <2>1, <2>2 DEF LiveTasks, OverTasks, Live, Over
<1>7. LiveTasks \subseteq LiveTasks'
  BY <1>6
<1>8. ASSUME NEW v \in Tasks
      PROVE  TaskInv(v, taskInfos'[v], LiveTasks', OverTasks', work, call, completions)
  <2>1. \A w : SameWorks(w, work, call, completions, work, call, completions)
    BY DEF SameWorks
  <2>2. TaskInv(t, y, LiveTasks', OverTasks', work, call, completions)
    BY <1>6, <2>1, TaskKept
  <2>3. TaskInv(v, taskInfos[v], LiveTasks', OverTasks', work, call, completions)
    BY <1>3, <1>6, <1>7, <2>1, TaskKept
  <2> QED
    BY <1>1, <1>4, <2>2, <2>3
<1> QED
  BY <1>1, <1>5, <1>8, AllMove

-----------------------------------------------------------------------------
(***************************************************************************)
(* Requests                                                                *)
(***************************************************************************)
\* What a step does not touch of the cache.
LEMMA CacheKept ==
  ASSUME EngineInv, UNCHANGED actionCache
  PROVE  CacheInv'
BY DEF EngineInv, CacheInv

\* The request a task makes is for something there is.
LEMMA RequestIs ==
  ASSUME NEW x, NEW live, IsRecord(x, live), x.todo # << >>, NEW q, q = Head(x.todo)
  PROVE  /\ IsRequest(q) /\ IsStableID(StableID(q))
         /\ q.kind \in {"artifact", "rule"} => RuleFor(q) \in Tasks
<1>1. IsSequence(x.todo) /\ \A i \in DOMAIN x.todo : IsRequest(x.todo[i])
  BY DEF IsRecord, Formed
<1>2. IsRequest(q)
  BY <1>1, TailIs
<1>3. StableID(q)[1] = q.kind /\ StableID(q)[2] = q.label
  BY SMT DEF StableID
<1>4. ASSUME NEW a \in Artifacts PROVE ProducerOf(a) \in Rules
  BY DEF Artifacts, ProducerOf
<1> QED
  BY <1>2, <1>3, <1>4 DEF IsRequest, IsStableID, RuleFor, Tasks

\* A record that differs in the step, and the target of the step, only.
SameButStep(x, y) ==
  /\ DOMAIN y = Fields /\ y.todo = x.todo /\ y.stage = x.stage /\ y.ids = x.ids
  /\ y.context = x.context /\ y.cached = x.cached
  /\ y.requestedTaskInputs = x.requestedTaskInputs /\ SameHeld(x, y)

\* The step is set.
LEMMA StepSet ==
  ASSUME NEW x, DOMAIN x = Fields, NEW s, NEW y, y = [x EXCEPT !.step = s]
  PROVE  SameButStep(x, y) /\ y.step = s
BY SMT DEF Fields, SameHeld, SameButStep

\* A task gets on with the request it makes.
LEMMA StepIs ==
  ASSUME NEW x, NEW live, IsRecord(x, live), Inputs(x, live), NEW live2, live \subseteq live2,
         x.stage \in {"computing", "replaying"}, x.todo # << >>, NEW y, SameButStep(x, y),
         Head(x.todo).kind \in {"artifact", "rule"},
         y.step \in {"rule", "construct"} \/ (y.step = "record" /\ y.target \in live2)
  PROVE  IsRecord(y, live2) /\ SameHeld(x, y) /\ Inputs(y, live2) /\ y.stage = x.stage
<1>1. Inputs(y, live2)
  BY DEF Inputs, SameButStep
<1> QED
  BY <1>1 DEF IsRecord, Formed, SameButStep

\* CheckInFlight.
LEMMA CheckInFlightStep ==
  ASSUME EngineInv, NEW t \in Tasks, CheckInFlight(t)
  PROVE  EngineInv'
<1> DEFINE x == taskInfos[t]
           q == Head(x.todo)
           input == RuleFor(q)
<1> PICK y : y = IF ~Live(input) THEN [x EXCEPT !.step = "rule"]
                 ELSE IF q.kind = "artifact" THEN Recorded(x, input, StableID(q))
                 ELSE Requested(x, <<"id", input>>)
  OBVIOUS
<1>1. /\ x.stage \in {"computing", "replaying"} /\ x.todo # << >> /\ x.step = "check"
      /\ q.kind \in {"artifact", "rule"} /\ taskInfos' = [taskInfos EXCEPT ![t] = y]
  BY DEF CheckInFlight, Requesting, Request
<1>2. UNCHANGED <<work, call, completions>> /\ CacheInv'
  BY CacheKept DEF CheckInFlight, requestVars, executorVars
<1>3. IsRecord(x, LiveTasks) /\ Inputs(x, LiveTasks) /\ DOMAIN x = Fields
  BY <1>1, AskerIs DEF IsRecord, Formed
<1>4. IsStableID(StableID(q)) /\ input \in Tasks
  BY <1>1, <1>3, RequestIs
<1>5. /\ IsRecord(y, LiveTasks) /\ SameHeld(x, y) /\ Inputs(y, LiveTasks) /\ y.stage = x.stage
  <2>1. CASE ~Live(input)
    <3>1. y = [x EXCEPT !.step = "rule"]
      BY <2>1
    <3>2. SameButStep(x, y) /\ y.step = "rule"
      BY ONLY <1>3, <3>1, StepSet, SMT
    <3>3. y.step \in {"rule", "construct"} /\ LiveTasks \subseteq LiveTasks
      BY <3>2
    <3> QED
      BY <1>1, <1>3, <3>2, <3>3, StepIs
  <2>2. CASE Live(input) /\ q.kind = "artifact"
    <3>1. y = Recorded(x, input, StableID(q)) /\ input \in LiveTasks
      BY <1>4, <2>2 DEF LiveTasks
    <3> QED
      BY ONLY <1>1, <1>3, <1>4, <3>1, RecordedIs, SMT
  <2>3. CASE Live(input) /\ q.kind # "artifact"
    <3>1. y = Requested(x, <<"id", input>>)
      BY <2>3
    <3>2. Formed(x) /\ (x.stage = "replaying" => IsSequence(x.cached.ids))
      BY <1>3 DEF IsRecord
    <3>3. /\ IsRecord(y, LiveTasks) /\ SameHeld(x, y) /\ y.stage = x.stage
          /\ y.requestedTaskInputs = x.requestedTaskInputs
      BY ONLY <1>1, <3>1, <3>2, RequestedIs, SMT
    <3> QED
      BY <1>3, <3>3 DEF Inputs
  <2> QED
    BY <2>1, <2>2, <2>3
<1>6. y.stage # "done"
  BY <1>1, <1>5
<1> QED
  BY <1>1, <1>2, <1>5, <1>6, AskerMoves

\* A request is refused, whatever was asked for before.
LEMMA RefuseInputs ==
  ASSUME NEW x, NEW live, IsRecord(x, live), Inputs(x, live), x.stage \in {"computing", "replaying"},
         NEW y, y = Refused(x)
  PROVE  IsRecord(y, live) /\ SameHeld(x, y) /\ Inputs(y, live) /\ y.stage # "done"
<1>1. /\ IsRecord(y, live) /\ SameHeld(x, y) /\ y.stage \in {"computing", "ready"}
      /\ y.requestedTaskInputs = x.requestedTaskInputs
  BY ONLY RefusedIs, SMT, IsRecord(x, live), x.stage \in {"computing", "replaying"}, y = Refused(x)
<1> QED
  BY <1>1 DEF Inputs

\* FindRule.
LEMMA FindRuleStep ==
  ASSUME EngineInv, NEW t \in Tasks, FindRule(t)
  PROVE  EngineInv'
<1> DEFINE x == taskInfos[t]
           q == Head(x.todo)
<1> PICK y : y = IF ProviderOf[RuleFor(q)] \in ruleProviders
                   THEN [x EXCEPT !.step = "construct"] ELSE Refused(x)
  OBVIOUS
<1>1. /\ x.stage \in {"computing", "replaying"} /\ x.todo # << >> /\ x.step = "rule"
      /\ taskInfos' = [taskInfos EXCEPT ![t] = y]
  BY DEF FindRule, Requesting, Request
<1>2. UNCHANGED <<work, call, completions>> /\ CacheInv'
  BY CacheKept DEF FindRule, requestVars, executorVars
<1>3. IsRecord(x, LiveTasks) /\ Inputs(x, LiveTasks) /\ DOMAIN x = Fields
  BY <1>1, AskerIs DEF IsRecord, Formed
<1>4. q.kind \in {"artifact", "rule"}
  BY <1>1, <1>3 DEF IsRecord
<1>5. IsRecord(y, LiveTasks) /\ SameHeld(x, y) /\ Inputs(y, LiveTasks) /\ y.stage # "done"
  <2>1. CASE y = [x EXCEPT !.step = "construct"]
    <3>2. SameButStep(x, y) /\ y.step = "construct"
      BY ONLY <1>3, <2>1, StepSet, SMT
    <3>3. y.step \in {"rule", "construct"} /\ LiveTasks \subseteq LiveTasks
      BY <3>2
    <3>4. IsRecord(y, LiveTasks) /\ SameHeld(x, y) /\ Inputs(y, LiveTasks) /\ y.stage = x.stage
      BY <1>1, <1>3, <1>4, <3>2, <3>3, StepIs
    <3> QED
      BY <1>1, <3>4
  <2>2. CASE y = Refused(x)
    BY <1>1, <1>3, <2>2, RefuseInputs
  <2> QED
    BY <2>1, <2>2
<1> QED
  BY <1>1, <1>2, <1>5, AskerMoves

\* ConstructTask.
LEMMA ConstructTaskStep ==
  ASSUME EngineInv, NEW t \in Tasks, ConstructTask(t)
  PROVE  EngineInv'
<1> DEFINE x == taskInfos[t]
           q == Head(x.todo)
<1> PICK input : input = RuleFor(q)
  OBVIOUS
<1> DEFINE live == LiveTasks \cup {input}
<1>0. PICK y : y = [x EXCEPT !.step = "record", !.target = input]
  OBVIOUS
<1>1. /\ x.stage \in {"computing", "replaying"} /\ x.todo # << >> /\ x.step = "construct"
      /\ \/ Live(input) /\ taskInfos' = [taskInfos EXCEPT ![t] = y]
         \/ taskInfos' = [taskInfos EXCEPT ![t] = Refused(x)]
         \/ /\ ~Live(input)
            /\ taskInfos' = [taskInfos EXCEPT ![t] = y, ![input] = NewTaskInfo("ready")]
  BY <1>0 DEF ConstructTask, Requesting, Request
<1>2. UNCHANGED <<work, call, completions>> /\ CacheInv'
  BY CacheKept DEF ConstructTask, requestVars, executorVars
<1>3. IsRecord(x, LiveTasks) /\ Inputs(x, LiveTasks) /\ DOMAIN x = Fields
  BY <1>1, AskerIs DEF IsRecord, Formed
<1>4. q.kind \in {"artifact", "rule"} /\ input \in Tasks
  <2>1. q.kind \in {"artifact", "rule"}
    BY <1>1, <1>3 DEF IsRecord
  <2> QED
    BY <1>1, <1>3, <2>1, RequestIs
<1>5. SameButStep(x, y) /\ y.step = "record" /\ y.target = input
  BY ONLY <1>0, <1>3, SMT DEF Fields, SameHeld, SameButStep
<1>6. IsRecord(y, live) /\ SameHeld(x, y) /\ Inputs(y, live) /\ y.stage = x.stage
  <2>1. y.target \in live /\ LiveTasks \subseteq live
    BY <1>5
  <2> QED
    BY ONLY <1>1, <1>3, <1>4, <1>5, <2>1, StepIs, SMT
<1>7. CASE Live(input) /\ taskInfos' = [taskInfos EXCEPT ![t] = y]
  <2>1. live = LiveTasks
    BY <1>4, <1>7 DEF LiveTasks
  <2>2. IsRecord(y, LiveTasks) /\ SameHeld(x, y) /\ Inputs(y, LiveTasks) /\ y.stage # "done"
    BY <1>1, <1>6, <2>1
  <2> QED
    BY <1>1, <1>2, <1>7, <2>2, AskerMoves
<1>8. CASE taskInfos' = [taskInfos EXCEPT ![t] = Refused(x)]
  <2> PICK z : z = Refused(x)
    OBVIOUS
  <2>1. IsRecord(z, LiveTasks) /\ SameHeld(x, z) /\ Inputs(z, LiveTasks) /\ z.stage # "done"
    BY <1>1, <1>3, RefuseInputs
  <2> QED
    BY <1>1, <1>2, <1>8, <2>1, AskerMoves
<1>9. CASE /\ ~Live(input)
           /\ taskInfos' = [taskInfos EXCEPT ![t] = y, ![input] = NewTaskInfo("ready")]
  <2>1. t # input /\ taskInfos[input].stage = "absent"
    BY <1>1, <1>9 DEF Live
  <2>2. TaskInv(t, x, LiveTasks, OverTasks, work, call, completions)
    BY <1>1, AskerIs
  <2>3. TaskInv(t, x, live, OverTasks, work, call, completions)
    <3>1. SameWorks(t, work, call, completions, work, call, completions)
      BY DEF SameWorks
    <3>2. LiveTasks \subseteq live /\ OverTasks \subseteq OverTasks
      OBVIOUS
    <3> QED
      BY <2>2, <3>1, <3>2, TaskKept
  <2>4. x.stage # "waiting" /\ x.step # "submitted"
    BY <1>1
  <2>5. TaskInv(t, y, live, OverTasks, work, call, completions) /\ KeepsWork(x, y, completions)
    BY <1>6, <2>3, <2>4, Moved
  <2>6. Onward(x, y)
    BY <1>1, <1>6 DEF Onward, SameHeld
  <2> QED
    BY <1>2, <1>4, <1>9, <2>1, <2>5, <2>6, InsertMove
<1> QED
  BY <1>1, <1>7, <1>8, <1>9

\* RecordInput.
LEMMA RecordInputStep ==
  ASSUME EngineInv, NEW t \in Tasks, RecordInput(t)
  PROVE  EngineInv'
<1> DEFINE x == taskInfos[t]
           q == Head(x.todo)
<1> PICK y : y = Recorded(x, x.target, StableID(q))
  OBVIOUS
<1>1. /\ x.stage \in {"computing", "replaying"} /\ x.todo # << >> /\ x.step = "record"
      /\ taskInfos' = [taskInfos EXCEPT ![t] = y]
  BY DEF RecordInput, Requesting, Request
<1>2. UNCHANGED <<work, call, completions>> /\ CacheInv'
  BY CacheKept DEF RecordInput, requestVars, executorVars
<1>3. IsRecord(x, LiveTasks) /\ Inputs(x, LiveTasks)
  BY <1>1, AskerIs
<1>4. IsStableID(StableID(q)) /\ x.target \in LiveTasks
  BY <1>1, <1>3, RequestIs DEF IsRecord
<1>5. IsRecord(y, LiveTasks) /\ SameHeld(x, y) /\ y.stage = x.stage /\ Inputs(y, LiveTasks)
  BY ONLY <1>1, <1>3, <1>4, RecordedIs, SMT, y = Recorded(x, x.target, StableID(q))
<1>6. y.stage # "done" /\ x.step # "submitted"
  BY <1>1, <1>5
<1> QED
  BY <1>1, <1>2, <1>5, <1>6, AskerMoves

\* RegisterProvider.
LEMMA RegisterProviderStep ==
  ASSUME EngineInv, NEW t \in Tasks, RegisterProvider(t)
  PROVE  EngineInv'
<1> DEFINE x == taskInfos[t]
           q == Head(x.todo)
<1>1. /\ x.stage \in {"computing", "replaying"} /\ x.todo # << >> /\ q.kind = "provider"
      /\ \/ taskInfos' = [taskInfos EXCEPT ![t] = [x EXCEPT !.todo = Tail(@)]]
         \/ taskInfos' = [taskInfos EXCEPT ![t] = Refused(x)]
  BY DEF RegisterProvider, Requesting, Request
<1>2. UNCHANGED <<work, call, completions>> /\ CacheInv'
  BY CacheKept DEF RegisterProvider, requestVars, executorVars
<1>3. TaskInv(t, x, LiveTasks, OverTasks, work, call, completions)
  BY DEF EngineInv
<1>4. x.step = "check"
  BY <1>1, <1>3 DEF TaskInv, Asks
<1>5. IsRecord(x, LiveTasks) /\ Inputs(x, LiveTasks) /\ DOMAIN x = Fields
  BY <1>1, <1>4, AskerIs DEF IsRecord, Formed
<1>6. CASE taskInfos' = [taskInfos EXCEPT ![t] = [x EXCEPT !.todo = Tail(@)]]
  <2> PICK y : y = [x EXCEPT !.todo = Tail(@)]
    OBVIOUS
  <2>1. /\ DOMAIN y = Fields /\ y.todo = Tail(x.todo) /\ y.stage = x.stage /\ y.ids = x.ids
        /\ y.context = x.context /\ y.cached = x.cached /\ y.step = x.step
        /\ y.requestedTaskInputs = x.requestedTaskInputs /\ SameHeld(x, y)
    BY ONLY <1>5, SMT, y = [x EXCEPT !.todo = Tail(@)] DEF Fields, SameHeld
  <2>2. IsSequence(y.todo) /\ \A i \in DOMAIN y.todo : IsRequest(y.todo[i])
    <3>1. IsSequence(x.todo) /\ \A i \in DOMAIN x.todo : IsRequest(x.todo[i])
      BY <1>5 DEF IsRecord, Formed
    <3> QED
      BY <1>1, <2>1, <3>1, TailAsks
  <2>3. IsRecord(y, LiveTasks) /\ Inputs(y, LiveTasks)
    BY <1>4, <1>5, <2>1, <2>2 DEF IsRecord, Formed, Inputs
  <2>4. y.stage # "done" /\ x.step # "submitted"
    BY <1>1, <1>4, <2>1
  <2> QED
    BY <1>1, <1>2, <1>6, <2>1, <2>3, <2>4, AskerMoves
<1>7. CASE taskInfos' = [taskInfos EXCEPT ![t] = Refused(x)]
  <2> PICK y : y = Refused(x)
    OBVIOUS
  <2>1. IsRecord(y, LiveTasks) /\ SameHeld(x, y) /\ Inputs(y, LiveTasks) /\ y.stage # "done"
    BY <1>1, <1>5, RefuseInputs
  <2>2. x.step # "submitted"
    BY <1>4
  <2> QED
    BY <1>1, <1>2, <1>7, <2>1, <2>2, AskerMoves
<1> QED
  BY <1>1, <1>6, <1>7

-----------------------------------------------------------------------------
(***************************************************************************)
(* The end of a wait                                                       *)
(***************************************************************************)
\* A map that is part of another.
Within(left, map) ==
  DOMAIN left \subseteq DOMAIN map /\ \A k \in DOMAIN left : left[k] = map[k]

\* What is left of a map.
LEMMA EraseIs ==
  ASSUME NEW map, NEW keys, NEW left, left = Erase(map, keys)
  PROVE  DOMAIN left = DOMAIN map \ keys /\ Within(left, map)
BY DEF Erase, Restrict, Within

\* A task that holds some of the works it held.
LEMMA HeldIs ==
  ASSUME NEW t, NEW x, NEW wk, NEW cl, NEW cm, Holds(t, x, wk, cl, cm), NEW y,
         y.stage = "absent" => y.pendingActions = NoMap /\ y.pendingSubtasks = NoMap,
         Within(y.pendingActions, x.pendingActions), Within(y.pendingSubtasks, x.pendingSubtasks)
  PROVE  Holds(t, y, wk, cl, cm)
<1>1. ASSUME NEW w \in DOMAIN y.pendingActions
      PROVE  /\ Owns(t, w, wk, cl) /\ wk[w].request.kind = "action"
             /\ DOMAIN y.pendingActions[w] = {"sid", "result"}
             /\ IsStableID(y.pendingActions[w].sid)
             /\ y.pendingActions[w].result = Pending <=> cm[w] = 0
  BY DEF Holds, Within
<1>2. ASSUME NEW w \in DOMAIN y.pendingSubtasks
      PROVE  /\ Owns(t, w, wk, cl) /\ wk[w].request.kind # "action"
             /\ y.pendingSubtasks[w] = Pending <=> cm[w] = 0
  BY DEF Holds, Within
<1> QED
  BY <1>1, <1>2 DEF Holds

\* What unblockTask leaves of a task's record.
Unblocked(x, y, gone) ==
  /\ DOMAIN y = Fields /\ y.context = x.context /\ y.ids = x.ids /\ y.todo = x.todo
  /\ y.step = x.step /\ y.requestedBy = x.requestedBy /\ y.waitingOn = {}
  /\ y.requestedTaskInputs = Erase(x.requestedTaskInputs, gone)
  /\ y.pendingActions = Erase(x.pendingActions, gone)
  /\ y.pendingSubtasks = Erase(x.pendingSubtasks, gone)
  /\ y.stage \in {"lookup", "ready", "finished", "thrown"}

\* The task is woken.
LEMMA CollectedIs ==
  ASSUME NEW x, DOMAIN x = Fields, NEW y, y = Collected(x)
  PROVE  Unblocked(x, y, WaitIDs(x)) /\ y.stage \in {"lookup", "ready"}
<1> DEFINE gone == WaitIDs(x)
           others == NotSubtasks(x.ids)
           left == Erase(x.pendingSubtasks, gone)
<1> PICK a : a = [i \in DOMAIN others |-> InputFrom(x, x.stableIDMap[others[i]])]
  OBVIOUS
<1> PICK b : b = {x.pendingSubtasks[w] : w \in gone \cap DOMAIN x.pendingSubtasks}
  OBVIOUS
<1> PICK c : c = Erase(x.stableIDMap, {x.ids[i] : i \in DOMAIN x.ids})
  OBVIOUS
<1> PICK d : d = Erase(x.requestedTaskInputs, gone)
  OBVIOUS
<1> PICK e : e = Erase(x.pendingActions, gone)
  OBVIOUS
<1> PICK f : f = left
  OBVIOUS
<1> PICK g : g = (IF DOMAIN left = {} THEN "lookup" ELSE "ready")
  OBVIOUS
<1>1. PICK m : m = [x EXCEPT !.inputs = a, !.subtasks = b, !.stableIDMap = c]
  OBVIOUS
<1>2. PICK n : n = [m EXCEPT !.requestedTaskInputs = d, !.pendingActions = e, !.pendingSubtasks = f]
  OBVIOUS
<1>3. y = [n EXCEPT !.failed = FALSE, !.waitingOn = {}, !.stage = g]
  BY <1>1, <1>2 DEF Collected
<1>4. /\ DOMAIN m = Fields /\ m.context = x.context /\ m.ids = x.ids /\ m.todo = x.todo
      /\ m.step = x.step /\ m.requestedBy = x.requestedBy
  BY ONLY <1>1, DOMAIN x = Fields, SMT DEF Fields
<1>5. /\ DOMAIN n = Fields /\ n.context = m.context /\ n.ids = m.ids /\ n.todo = m.todo
      /\ n.step = m.step /\ n.requestedBy = m.requestedBy
      /\ n.requestedTaskInputs = d /\ n.pendingActions = e /\ n.pendingSubtasks = f
  BY ONLY <1>2, <1>4, SMT DEF Fields
<1>6. /\ DOMAIN y = Fields /\ y.context = n.context /\ y.ids = n.ids /\ y.todo = n.todo
      /\ y.step = n.step /\ y.requestedBy = n.requestedBy /\ y.waitingOn = {} /\ y.stage = g
      /\ y.requestedTaskInputs = d /\ y.pendingActions = e /\ y.pendingSubtasks = f
  BY ONLY <1>3, <1>5, SMT DEF Fields
<1>7. g \in {"lookup", "ready"}
  OBVIOUS
<1> QED
  BY <1>4, <1>5, <1>6, <1>7 DEF Unblocked

\* A task that has what it waited for.
LEMMA UnblockIs ==
  ASSUME NEW t, NEW x, NEW live, NEW over, NEW wk, NEW cl, NEW cm,
         Formed(x), Inputs(x, live), Holds(t, x, wk, cl, cm), x.step = "check", x.waitingOn = {},
         x.stage # "absent", \A id \in WaitIDs(x) : ~Open(x, id, over),
         NEW y, y = Unblock(x)
  PROVE  /\ TaskInv(t, y, live, over, wk, cl, cm) /\ KeepsWork(x, y, cm) /\ y.waitingOn = {}
         /\ y.requestedBy = x.requestedBy /\ y.stage \in {"lookup", "ready", "finished", "thrown"}
<1>1. ASSUME NEW gone, gone \in {{}, WaitIDs(x)}, Unblocked(x, y, gone), Throws(y, cm)
      PROVE  TaskInv(t, y, live, over, wk, cl, cm) /\ KeepsWork(x, y, cm)
  <2>1. Asks(t, y, live, wk, cl, cm)
    BY <1>1 DEF Asks, Formed, Unblocked
  <2>2. /\ DOMAIN y.requestedTaskInputs = DOMAIN x.requestedTaskInputs \ gone
        /\ Within(y.requestedTaskInputs, x.requestedTaskInputs)
    <3>1. y.requestedTaskInputs = Erase(x.requestedTaskInputs, gone)
      BY <1>1 DEF Unblocked
    <3> QED
      BY ONLY <3>1, EraseIs, Zenon
  <2>3. Inputs(y, live)
    BY <2>2 DEF Inputs, Within
  <2>4. /\ DOMAIN y.pendingActions = DOMAIN x.pendingActions \ gone
        /\ Within(y.pendingActions, x.pendingActions)
    <3>1. y.pendingActions = Erase(x.pendingActions, gone)
      BY <1>1 DEF Unblocked
    <3> QED
      BY ONLY <3>1, EraseIs, Zenon
  <2>5. /\ DOMAIN y.pendingSubtasks = DOMAIN x.pendingSubtasks \ gone
        /\ Within(y.pendingSubtasks, x.pendingSubtasks)
    <3>1. y.pendingSubtasks = Erase(x.pendingSubtasks, gone)
      BY <1>1 DEF Unblocked
    <3> QED
      BY ONLY <3>1, EraseIs, Zenon
  <2>6. y.stage # "absent" /\ y.stage # "waiting" /\ y.waitingOn = {} /\ y.step = "check"
    BY <1>1 DEF Unblocked
  <2>7. Holds(t, y, wk, cl, cm)
    BY <2>4, <2>5, <2>6, HeldIs
  <2>8. Waits(y, over)
    BY <2>6 DEF Waits
  <2>9. KeepsWork(x, y, cm)
    <3>1. ASSUME NEW w \in DOMAIN x.pendingActions \cup DOMAIN x.pendingSubtasks, cm[w] = 0
          PROVE  w \notin gone
      BY <1>1, <3>1 DEF Holds, Open
    <3> QED
      BY <2>4, <2>5, <3>1 DEF KeepsWork
  <2> QED
    BY <1>1, <2>1, <2>3, <2>7, <2>8, <2>9 DEF TaskInv
<1>2. DOMAIN x = Fields
  BY DEF Formed
<1>3. CASE Again(x) = {}
  <2>1. y = Collected(x)
    BY <1>3 DEF Unblock
  <2>2. Unblocked(x, y, WaitIDs(x)) /\ y.stage \in {"lookup", "ready"}
    BY <1>2, <2>1, CollectedIs
  <2>3. Throws(y, cm)
    BY <2>2 DEF Throws
  <2> QED
    BY <1>1, <2>2, <2>3 DEF Unblocked
<1>4. CASE Again(x) # {}
  <2>1. y = Finish(x, "error") \/ y = [x EXCEPT !.stage = "thrown"]
    BY <1>4 DEF Unblock
  <2>2. /\ DOMAIN y = Fields /\ y.context = x.context /\ y.ids = x.ids /\ y.todo = x.todo
        /\ y.step = x.step /\ y.requestedBy = x.requestedBy /\ y.waitingOn = x.waitingOn
        /\ y.requestedTaskInputs = x.requestedTaskInputs /\ y.stableIDMap = x.stableIDMap
        /\ y.pendingActions = x.pendingActions /\ y.pendingSubtasks = x.pendingSubtasks
        /\ y.stage \in {"finished", "thrown"}
    <3>1. CASE y = Finish(x, "error")
      BY ONLY <1>2, <3>1, SMT DEF Fields, Finish
    <3>2. CASE y = [x EXCEPT !.stage = "thrown"]
      BY ONLY <1>2, <3>2, SMT DEF Fields
    <3> QED
      BY <2>1, <3>1, <3>2
  <2>3. Asks(t, y, live, wk, cl, cm) /\ Inputs(y, live)
    BY <2>2 DEF Asks, Formed, Inputs
  <2>9. Holds(t, y, wk, cl, cm)
    <3>1. y.stage # "absent"
      BY <2>2
    <3>2. Within(y.pendingActions, x.pendingActions) /\ Within(y.pendingSubtasks, x.pendingSubtasks)
      BY <2>2 DEF Within
    <3> QED
      BY <3>1, <3>2, HeldIs
  <2>10. Waits(y, over) /\ KeepsWork(x, y, cm)
    BY <2>2 DEF Waits, KeepsWork
  <2>4. PICK i \in DOMAIN x.ids : \E j \in 1 .. i - 1 : WaitID(x, i) = WaitID(x, j)
    BY <1>4 DEF Again
  <2>5. PICK j \in 1 .. i - 1 : WaitID(x, i) = WaitID(x, j)
    BY <2>4
  <2>6. DOMAIN x.ids = 1 .. Len(x.ids) /\ Len(x.ids) \in Nat
    BY SequenceIs DEF Formed
  <2>7. j \in DOMAIN x.ids /\ i # j
    BY ONLY <2>6, i \in DOMAIN x.ids, j \in 1 .. i - 1, SMT
  <2>8. Throws(y, cm)
    <3>1. \A k : WaitID(y, k) = WaitID(x, k)
      BY <2>2 DEF WaitID
    <3>2. i \in DOMAIN y.ids /\ j \in DOMAIN y.ids /\ WaitID(y, i) = WaitID(y, j)
      BY <2>2, <2>5, <2>7, <3>1
    <3> QED
      BY <2>7, <3>2 DEF Throws
  <2> QED
    BY <2>2, <2>3, <2>8, <2>9, <2>10 DEF TaskInv
<1> QED
  BY <1>3, <1>4

\* What becomes of a task when id has come.
Answered(x, id) ==
  LET y == [x EXCEPT !.waitingOn = @ \ {id}]
  IN  IF x.waitingOn # {} /\ y.waitingOn = {} THEN Unblock(y) ELSE y

Woken(x, z, id) ==
  /\ z.waitingOn = x.waitingOn \ {id} /\ z.requestedBy = x.requestedBy
  /\ \/ z.stage = x.stage
     \/ x.stage = "waiting" /\ z.stage \in {"lookup", "ready", "finished", "thrown"}

\* A task learns that something it waits for has come.
LEMMA WokenIs ==
  ASSUME NEW t, NEW x, NEW live, NEW over, NEW wk, NEW cl, NEW cm,
         TaskInv(t, x, live, over, wk, cl, cm), NEW id, ~Open(x, id, over),
         NEW z, z = Answered(x, id)
  PROVE  TaskInv(t, z, live, over, wk, cl, cm) /\ KeepsWork(x, z, cm) /\ Woken(x, z, id)
<1>0. PICK y : y = [x EXCEPT !.waitingOn = @ \ {id}]
  OBVIOUS
<1>1. Asks(t, x, live, wk, cl, cm) /\ Formed(x) /\ DOMAIN x = Fields
  BY DEF TaskInv, Asks, Formed
<1>2. /\ DOMAIN y = Fields /\ y.context = x.context /\ y.ids = x.ids /\ y.todo = x.todo
      /\ y.step = x.step /\ y.requestedBy = x.requestedBy /\ y.waitingOn = x.waitingOn \ {id}
      /\ y.requestedTaskInputs = x.requestedTaskInputs /\ y.stableIDMap = x.stableIDMap
      /\ y.pendingActions = x.pendingActions /\ y.pendingSubtasks = x.pendingSubtasks
      /\ y.stage = x.stage /\ y.cached = x.cached /\ y.target = x.target
  BY ONLY <1>0, <1>1, SMT DEF Fields
<1>3. Asks(t, y, live, wk, cl, cm)
  BY <1>1, <1>2 DEF Asks, Formed
<1>4. Inputs(y, live)
  BY <1>2 DEF TaskInv, Inputs
<1>5. Holds(t, y, wk, cl, cm)
  <2>1. Within(y.pendingActions, x.pendingActions) /\ Within(y.pendingSubtasks, x.pendingSubtasks)
    BY <1>2 DEF Within
  <2>2. Holds(t, x, wk, cl, cm)
    BY DEF TaskInv
  <2>3. y.stage = "absent" => y.pendingActions = NoMap /\ y.pendingSubtasks = NoMap
    BY <1>2, <2>2 DEF Holds
  <2> QED
    BY <2>1, <2>2, <2>3, HeldIs
<1>6. WaitIDs(y) = WaitIDs(x) /\ \A k : Open(y, k, over) <=> Open(x, k, over)
  <2>1. WaitIDs(y) = WaitIDs(x)
    BY <1>2 DEF WaitIDs, WaitID
  <2>2. \A k : Open(y, k, over) <=> Open(x, k, over)
    BY <1>2 DEF Open
  <2> QED
    BY <2>1, <2>2
<1>7. Waits(x, over)
  BY DEF TaskInv
<1>8. CASE x.waitingOn # {} /\ y.waitingOn = {}
  <2>1. z = Unblock(y) /\ x.stage = "waiting" /\ x.step = "check"
    BY <1>0, <1>1, <1>7, <1>8 DEF Waits, Asks, Answered
  <2>2. \A k \in WaitIDs(y) : ~Open(y, k, over)
    BY <1>2, <1>6, <1>7, <1>8, <2>1 DEF Waits
  <2>3. Formed(y) /\ y.step = "check" /\ y.stage # "absent"
    BY <1>2, <1>3, <2>1 DEF Asks
  <2>4. /\ TaskInv(t, z, live, over, wk, cl, cm) /\ KeepsWork(y, z, cm) /\ z.waitingOn = {}
        /\ z.requestedBy = y.requestedBy /\ z.stage \in {"lookup", "ready", "finished", "thrown"}
    BY ONLY <1>4, <1>5, <1>8, <2>1, <2>2, <2>3, UnblockIs, SMT
  <2> QED
    BY <1>2, <1>8, <2>1, <2>4 DEF KeepsWork, Woken
<1>9. CASE ~(x.waitingOn # {} /\ y.waitingOn = {})
  <2>1. z = y
    BY <1>0, <1>9 DEF Answered
  <2>2. Waits(y, over)
    BY <1>2, <1>6, <1>7, <1>9 DEF Waits
  <2>3. Throws(y, cm)
    <3>1. \A k : WaitID(y, k) = WaitID(x, k)
      BY <1>2 DEF WaitID
    <3>2. Throws(x, cm)
      BY DEF TaskInv
    <3> QED
      BY ONLY <1>2, <3>1, <3>2, Zenon DEF Throws
  <2>4. KeepsWork(x, y, cm)
    BY <1>2 DEF KeepsWork
  <2> QED
    BY <1>2, <1>3, <1>4, <1>5, <2>1, <2>2, <2>3, <2>4 DEF TaskInv, Woken
<1> QED
  BY <1>8, <1>9

\* No task has the id of a work.
LEMMA WorkIsNoTask ==
  ASSUME EngineInv, NEW u, NEW id \in Tasks
  PROVE  ~Owns(u, id, work, call)
<1>1. \A w \in DOMAIN work : w \in Works
  BY DEF EngineInv, WorkInv
<1> QED
  BY <1>1, IdsAssumption DEF Owns

\* The stage of a task that has nothing to wait for and makes no request.
LEMMA RestIs ==
  ASSUME NEW t, NEW x, NEW live, NEW over, NEW wk, NEW cl, NEW cm,
         Formed(x), Inputs(x, live), Holds(t, x, wk, cl, cm), x.step = "check", x.waitingOn = {},
         x.stage # "absent", NEW y, DOMAIN y = Fields, y.context = x.context, y.ids = x.ids,
         y.todo = x.todo, y.step = x.step, y.waitingOn = x.waitingOn,
         y.requestedTaskInputs = x.requestedTaskInputs, y.pendingActions = x.pendingActions,
         y.pendingSubtasks = x.pendingSubtasks,
         y.stage \notin {"absent", "waiting", "replaying", "thrown"}
  PROVE  TaskInv(t, y, live, over, wk, cl, cm) /\ KeepsWork(x, y, cm)
<1>1. Asks(t, y, live, wk, cl, cm) /\ Inputs(y, live)
  BY DEF Asks, Formed, Inputs
<1>2. Holds(t, y, wk, cl, cm)
  <2>1. Within(y.pendingActions, x.pendingActions) /\ Within(y.pendingSubtasks, x.pendingSubtasks)
    BY DEF Within
  <2>2. y.stage = "absent" => y.pendingActions = NoMap /\ y.pendingSubtasks = NoMap
    OBVIOUS
  <2> QED
    BY <2>1, <2>2, HeldIs
<1>3. Waits(y, over) /\ Throws(y, cm) /\ KeepsWork(x, y, cm)
  BY DEF Waits, Throws, KeepsWork
<1> QED
  BY <1>1, <1>2, <1>3 DEF TaskInv

\* WakeRequesters.
LEMMA WakeRequestersStep ==
  ASSUME EngineInv, NEW t \in Tasks, WakeRequesters(t)
  PROVE  EngineInv'
<1> DEFINE x == taskInfos[t]
           woken(u) == [taskInfos[u] EXCEPT !.waitingOn = @ \ {t}]
           wakes(u) == /\ u \in taskInfos[t].requestedBy /\ taskInfos[u].waitingOn # {}
                       /\ woken(u).waitingOn = {}
<1>1. /\ x.stage = "finished" /\ DOMAIN taskInfos' = Tasks
      /\ taskInfos'[t] = [x EXCEPT !.stage = "done"]
      /\ \A u \in Tasks \ {t} : taskInfos'[u] = IF u \in x.requestedBy THEN Answered(taskInfos[u], t)
                                                                       ELSE taskInfos[u]
  <2>1. /\ x.stage = "finished"
        /\ taskInfos' = [u \in Tasks |->
             CASE u = t -> [taskInfos[t] EXCEPT !.stage = "done"]
               [] u # t /\ wakes(u) -> Unblock(woken(u))
               [] u # t /\ u \in taskInfos[t].requestedBy /\ ~wakes(u) -> woken(u)
               [] OTHER -> taskInfos[u]]
    BY DEF WakeRequesters
  <2>2. \A u \in x.requestedBy :
          Answered(taskInfos[u], t) = IF wakes(u) THEN Unblock(woken(u)) ELSE woken(u)
    BY DEF Answered
  <2>3. \A u : wakes(u) => u \in x.requestedBy
    OBVIOUS
  <2> HIDE DEF woken, wakes
  <2> QED
    BY <2>1, <2>2, <2>3
<1>2. UNCHANGED <<work, call, completions>> /\ CacheInv'
  BY CacheKept DEF WakeRequesters, executorVars
<1>3. \A u \in Tasks : TaskInv(u, taskInfos[u], LiveTasks, OverTasks, work, call, completions)
  BY DEF EngineInv
<1> PICK z : z = [x EXCEPT !.stage = "done"]
  OBVIOUS
<1>4. /\ TaskInv(t, z, LiveTasks, OverTasks, work, call, completions)
      /\ KeepsWork(x, z, completions) /\ z.waitingOn = {} /\ z.stage = "done"
  <2>1. TaskInv(t, x, LiveTasks, OverTasks, work, call, completions)
    BY <1>3
  <2>2. Formed(x) /\ DOMAIN x = Fields /\ x.step = "check" /\ x.waitingOn = {} /\ x.stage # "absent"
    BY <1>1, <2>1 DEF TaskInv, Asks, Waits, Formed
  <2>3. Inputs(x, LiveTasks) /\ Holds(t, x, work, call, completions)
    BY <2>1 DEF TaskInv
  <2>4. /\ DOMAIN z = Fields /\ z.context = x.context /\ z.ids = x.ids /\ z.todo = x.todo
        /\ z.step = x.step /\ z.waitingOn = x.waitingOn /\ z.stage = "done"
        /\ z.requestedTaskInputs = x.requestedTaskInputs
        /\ z.pendingActions = x.pendingActions /\ z.pendingSubtasks = x.pendingSubtasks
    BY ONLY <2>2, z = [x EXCEPT !.stage = "done"], SMT DEF Fields
  <2>5. z.stage \notin {"absent", "waiting", "replaying", "thrown"}
    BY <2>4
  <2> QED
    BY ONLY <2>2, <2>3, <2>4, <2>5, RestIs, SMT
<1>5. ASSUME NEW u \in Tasks \ {t}
      PROVE  ~Open(taskInfos[u], t, OverTasks)
  <2>1. t \in OverTasks
    BY <1>1 DEF OverTasks, Over
  <2>2. TaskInv(u, taskInfos[u], LiveTasks, OverTasks, work, call, completions)
    BY <1>3
  <2>3. t \notin DOMAIN taskInfos[u].pendingActions /\ t \notin DOMAIN taskInfos[u].pendingSubtasks
    BY <2>2, WorkIsNoTask DEF TaskInv, Holds
  <2> QED
    BY <2>1, <2>3 DEF Open
<1>6. ASSUME NEW u \in Tasks \ {t}, u \in x.requestedBy
      PROVE  /\ TaskInv(u, taskInfos'[u], LiveTasks, OverTasks, work, call, completions)
             /\ KeepsWork(taskInfos[u], taskInfos'[u], completions)
             /\ Woken(taskInfos[u], taskInfos'[u], t)
  <2> PICK a : a = Answered(taskInfos[u], t)
    OBVIOUS
  <2>1. taskInfos'[u] = a
    BY <1>1, <1>6
  <2>2. TaskInv(u, taskInfos[u], LiveTasks, OverTasks, work, call, completions)
    BY <1>3
  <2>3. ~Open(taskInfos[u], t, OverTasks)
    BY <1>5
  <2>4. /\ TaskInv(u, a, LiveTasks, OverTasks, work, call, completions)
        /\ KeepsWork(taskInfos[u], a, completions) /\ Woken(taskInfos[u], a, t)
    BY <2>2, <2>3, WokenIs
  <2> QED
    BY <2>1, <2>4
<1>7. ASSUME NEW u \in Tasks \ {t}, u \notin x.requestedBy
      PROVE  taskInfos'[u] = taskInfos[u] /\ t \notin taskInfos[u].waitingOn
  <2>1. Wakes(u, taskInfos, work, call, completions)
    BY DEF EngineInv
  <2>2. ~Owns(u, t, work, call)
    BY WorkIsNoTask
  <2> QED
    BY <1>1, <1>7, <2>1, <2>2 DEF Wakes
<1>8. ASSUME NEW u \in Tasks
      PROVE  /\ TaskInv(u, taskInfos'[u], LiveTasks, OverTasks, work, call, completions)
             /\ KeepsWork(taskInfos[u], taskInfos'[u], completions)
  <2>1. KeepsWork(taskInfos[u], taskInfos[u], completions)
    BY DEF KeepsWork
  <2> QED
    BY <1>1, <1>3, <1>4, <1>6, <1>7, <2>1
<1>9. LiveTasks \subseteq LiveTasks' /\ OverTasks \subseteq OverTasks'
  <2>1. \A u \in Tasks : /\ taskInfos[u].stage # "absent" => taskInfos'[u].stage # "absent"
                         /\ taskInfos[u].stage \in {"finished", "done"} =>
                              taskInfos'[u].stage \in {"finished", "done"}
    <3> SUFFICES ASSUME NEW u \in Tasks
                 PROVE  /\ taskInfos[u].stage # "absent" => taskInfos'[u].stage # "absent"
                        /\ taskInfos[u].stage \in {"finished", "done"} =>
                             taskInfos'[u].stage \in {"finished", "done"}
      OBVIOUS
    <3>1. CASE u = t
      <4>1. taskInfos'[u].stage = "done"
        BY <1>1, <1>4, <3>1
      <4> QED
        BY <4>1
    <3>2. CASE u # t /\ u \in x.requestedBy
      BY <1>6, <3>2 DEF Woken
    <3>3. CASE u # t /\ u \notin x.requestedBy
      BY <1>7, <3>3
    <3> QED
      BY <3>1, <3>2, <3>3
  <2> QED
    BY <2>1 DEF LiveTasks, OverTasks, Live, Over
<1>10. ASSUME NEW u \in Tasks
       PROVE  TaskInv(u, taskInfos'[u], LiveTasks', OverTasks', work, call, completions)
  <2>1. SameWorks(u, work, call, completions, work, call, completions)
    BY DEF SameWorks
  <2>2. TaskInv(u, taskInfos'[u], LiveTasks, OverTasks, work, call, completions)
    BY <1>8
  <2> QED
    BY ONLY <1>9, <2>1, <2>2, TaskKept, Zenon
<1>11. ASSUME NEW u \in Tasks
       PROVE  Wakes(u, taskInfos', work, call, completions)
  <2> SUFFICES ASSUME NEW id \in taskInfos'[u].waitingOn
               PROVE  \/ /\ id \in Tasks /\ u \in taskInfos'[id].requestedBy
                         /\ taskInfos'[id].stage \notin {"absent", "done"}
                      \/ Owns(u, id, work, call) /\ completions[id] = 0
    BY DEF Wakes
  <2>1. u # t /\ id \in taskInfos[u].waitingOn /\ id # t
    <3>1. u # t
      BY <1>1, <1>4
    <3>2. CASE u \in x.requestedBy
      BY <1>6, <3>1, <3>2 DEF Woken
    <3>3. CASE u \notin x.requestedBy
      BY <1>7, <3>1, <3>3
    <3> QED
      BY <3>1, <3>2, <3>3
  <2>2. CASE id \in Tasks /\ u \in taskInfos[id].requestedBy /\ taskInfos[id].stage \notin {"absent", "done"}
    <3>1. /\ taskInfos'[id].requestedBy = taskInfos[id].requestedBy
          /\ taskInfos'[id].stage \notin {"absent", "done"}
      BY <1>6, <1>7, <2>1, <2>2 DEF Woken
    <3> QED
      BY <2>2, <3>1
  <2> QED
    BY <2>1, <2>2 DEF EngineInv, Wakes
<1> QED
  BY <1>1, <1>2, <1>8, <1>10, <1>11, WorksStay

-----------------------------------------------------------------------------
(***************************************************************************)
(* The end of a transition                                                 *)
(***************************************************************************)
\* A task t with the record x whose transition, with what the record then is, is to be
\* processed.
Computed(t, x, ti) ==
  /\ x.stage \in {"computing", "replaying"} /\ x.step = "check"
  /\ Formed(ti) /\ Inputs(ti, LiveTasks) /\ SameHeld(x, ti) /\ ti.step = "check"
  /\ ti.stage = x.stage

\* What such a record holds.
LEMMA ComputedIs ==
  ASSUME EngineInv, NEW t \in Tasks, NEW ti, Computed(t, taskInfos[t], ti)
  PROVE  /\ DOMAIN ti = Fields /\ ti.context \in Nat /\ ti.waitingOn = {} /\ ti.stage # "absent"
         /\ Holds(t, ti, work, call, completions)
<1> DEFINE x == taskInfos[t]
<1>1. TaskInv(t, x, LiveTasks, OverTasks, work, call, completions)
  BY DEF EngineInv
<1>2. DOMAIN ti = Fields /\ ti.context \in Nat
  BY DEF Computed, Formed
<1>3. ti.stage \notin {"absent", "waiting"} /\ x.stage \notin {"absent", "waiting"}
  BY DEF Computed
<1>4. ti.waitingOn = {}
  BY <1>1, <1>3 DEF Computed, SameHeld, TaskInv, Waits
<1>5. Holds(t, ti, work, call, completions)
  <2>1. Within(ti.pendingActions, x.pendingActions) /\ Within(ti.pendingSubtasks, x.pendingSubtasks)
    BY DEF Within, Computed, SameHeld
  <2>2. ti.stage = "absent" => ti.pendingActions = NoMap /\ ti.pendingSubtasks = NoMap
    BY <1>3
  <2>3. Holds(t, x, work, call, completions)
    BY <1>1 DEF TaskInv
  <2> QED
    BY <2>1, <2>2, <2>3, HeldIs
<1> QED
  BY <1>2, <1>3, <1>4, <1>5

\* The task goes on on its own.
LEMMA ComputedMoves ==
  ASSUME EngineInv, NEW t \in Tasks, NEW ti, Computed(t, taskInfos[t], ti), NEW y,
         taskInfos' = [taskInfos EXCEPT ![t] = y], UNCHANGED <<work, call, completions>>, CacheInv',
         KeepsWork(ti, y, completions), y.requestedBy = ti.requestedBy, y.waitingOn = {},
         y.stage \notin {"absent", "done"},
         TaskInv(t, y, LiveTasks, OverTasks, work, call, completions)
  PROVE  EngineInv'
<1>1. Onward(taskInfos[t], y)
  BY DEF Onward, Computed, SameHeld
<1>2. KeepsWork(taskInfos[t], y, completions)
  BY DEF KeepsWork, Computed, SameHeld
<1> QED
  BY <1>1, <1>2, QuietMove

\* The task ends.
LEMMA FinishStep ==
  ASSUME EngineInv, NEW t \in Tasks, NEW ti, Computed(t, taskInfos[t], ti), NEW result,
         taskInfos' = [taskInfos EXCEPT ![t] = Finish(ti, result)],
         UNCHANGED <<work, call, completions>>, CacheInv'
  PROVE  EngineInv'
<1>0. PICK y : y = Finish(ti, result)
  OBVIOUS
<1>1. /\ DOMAIN ti = Fields /\ ti.context \in Nat /\ ti.waitingOn = {} /\ ti.stage # "absent"
      /\ Holds(t, ti, work, call, completions)
  BY ComputedIs
<1>2. Formed(ti) /\ Inputs(ti, LiveTasks) /\ ti.step = "check"
  BY DEF Computed
<1>3. /\ DOMAIN y = Fields /\ y.context = ti.context /\ y.ids = ti.ids /\ y.todo = ti.todo
      /\ y.step = ti.step /\ y.waitingOn = ti.waitingOn /\ y.stage = "finished"
      /\ y.requestedTaskInputs = ti.requestedTaskInputs /\ y.requestedBy = ti.requestedBy
      /\ y.pendingActions = ti.pendingActions /\ y.pendingSubtasks = ti.pendingSubtasks
  BY ONLY <1>0, <1>1, SMT DEF Fields, Finish
<1>4. y.stage \notin {"absent", "waiting", "replaying", "thrown"}
  BY <1>3
<1>5. TaskInv(t, y, LiveTasks, OverTasks, work, call, completions) /\ KeepsWork(ti, y, completions)
  BY ONLY <1>1, <1>2, <1>3, <1>4, RestIs, SMT
<1>6. y.waitingOn = {} /\ y.stage \notin {"absent", "done"}
  BY <1>1, <1>3
<1> QED
  BY <1>0, <1>3, <1>5, <1>6, ComputedMoves

\* What the engine takes for unresolved is open.
LEMMA UnresolvedIsOpen ==
  ASSUME NEW ti, Inputs(ti, LiveTasks), NEW id
  PROVE  Unresolved(ti, id) <=> Open(ti, id, OverTasks)
<1>1. id \in DOMAIN ti.requestedTaskInputs => id \in Tasks
  BY DEF Inputs, LiveTasks
<1> QED
  BY <1>1 DEF Unresolved, Open, OverTasks

\* The wait of a task that has everything.
LEMMA NoWaitStep ==
  ASSUME EngineInv, NEW t \in Tasks, NEW ti, Computed(t, taskInfos[t], ti),
         \A id \in WaitIDs(ti) : ~Unresolved(ti, id),
         taskInfos' = [taskInfos EXCEPT ![t] = Unblock([ti EXCEPT !.context = @ + 1])],
         UNCHANGED <<work, call, completions>>, CacheInv'
  PROVE  EngineInv'
<1>0. PICK n : n = [ti EXCEPT !.context = @ + 1]
  OBVIOUS
<1> PICK y : y = Unblock(n)
  OBVIOUS
<1>1. /\ DOMAIN ti = Fields /\ ti.context \in Nat /\ ti.waitingOn = {} /\ ti.stage # "absent"
      /\ Holds(t, ti, work, call, completions)
  BY ComputedIs
<1>2. Formed(ti) /\ Inputs(ti, LiveTasks) /\ ti.step = "check"
  BY DEF Computed
<1>3. /\ DOMAIN n = Fields /\ n.context \in Nat /\ n.ids = ti.ids /\ n.todo = ti.todo
      /\ n.step = ti.step /\ n.waitingOn = ti.waitingOn /\ n.stage = ti.stage
      /\ n.requestedTaskInputs = ti.requestedTaskInputs /\ n.requestedBy = ti.requestedBy
      /\ n.pendingActions = ti.pendingActions /\ n.pendingSubtasks = ti.pendingSubtasks
      /\ n.stableIDMap = ti.stableIDMap
  BY ONLY <1>0, <1>1, SMT DEF Fields
<1>4. Formed(n) /\ Inputs(n, LiveTasks)
  BY <1>2, <1>3 DEF Formed, Inputs
<1>5. Holds(t, n, work, call, completions)
  <2>1. Within(n.pendingActions, ti.pendingActions) /\ Within(n.pendingSubtasks, ti.pendingSubtasks)
    BY <1>3 DEF Within
  <2>2. n.stage = "absent" => n.pendingActions = NoMap /\ n.pendingSubtasks = NoMap
    BY <1>1, <1>3
  <2> QED
    BY <1>1, <2>1, <2>2, HeldIs
<1>6. \A id \in WaitIDs(n) : ~Open(n, id, OverTasks)
  <2>1. WaitIDs(n) = WaitIDs(ti)
    BY <1>3 DEF WaitIDs, WaitID
  <2>2. \A id : Open(n, id, OverTasks) <=> Open(ti, id, OverTasks)
    BY <1>3 DEF Open
  <2>3. \A id : Unresolved(ti, id) <=> Open(ti, id, OverTasks)
    BY <1>2, UnresolvedIsOpen
  <2> QED
    BY <2>1, <2>2, <2>3
<1>7. n.step = "check" /\ n.waitingOn = {} /\ n.stage # "absent"
  BY <1>1, <1>2, <1>3
<1>8. /\ TaskInv(t, y, LiveTasks, OverTasks, work, call, completions) /\ KeepsWork(n, y, completions)
      /\ y.waitingOn = {} /\ y.requestedBy = n.requestedBy
      /\ y.stage \in {"lookup", "ready", "finished", "thrown"}
  BY <1>4, <1>5, <1>6, <1>7, UnblockIs
<1>9. KeepsWork(ti, y, completions)
  BY ONLY <1>2, <1>3, <1>8, SMT DEF KeepsWork
<1>10. y.requestedBy = ti.requestedBy /\ y.stage \notin {"absent", "done"}
  BY <1>3, <1>8
<1> QED
  BY <1>0, <1>8, <1>9, <1>10, ComputedMoves

\* What a wait makes of the records: the ids that are unresolved, the task that waits, and
\* one that it waits for.
UnresolvedIDs(ti) == {id \in WaitIDs(ti) : Unresolved(ti, id)}
Waiter(ti) ==
  [[ti EXCEPT !.context = @ + 1] EXCEPT !.stage = "waiting", !.waitingOn = UnresolvedIDs(ti)]
WithRequester(x, t) == [x EXCEPT !.requestedBy = @ \cup {t}]
Registered(infos, on, t) ==
  [u \in Tasks |-> IF u \in on THEN WithRequester(infos[u], t) ELSE infos[u]]

SameButRequester(x, y, t) ==
  y.stage = x.stage /\ y.waitingOn = x.waitingOn /\ y.requestedBy = x.requestedBy \cup {t}

\* A task gets one more requester.
LEMMA RequesterAdded ==
  ASSUME NEW u, NEW x, NEW live, NEW over, NEW wk, NEW cl, NEW cm,
         TaskInv(u, x, live, over, wk, cl, cm), NEW t,
         NEW y, y = WithRequester(x, t)
  PROVE  /\ TaskInv(u, y, live, over, wk, cl, cm) /\ KeepsWork(x, y, cm)
         /\ SameButRequester(x, y, t)
<1>1. Asks(u, x, live, wk, cl, cm) /\ DOMAIN x = Fields
  BY DEF TaskInv, Asks, Formed
<1>2. /\ DOMAIN y = Fields /\ y.context = x.context /\ y.ids = x.ids /\ y.todo = x.todo
      /\ y.step = x.step /\ y.requestedBy = x.requestedBy \cup {t} /\ y.waitingOn = x.waitingOn
      /\ y.requestedTaskInputs = x.requestedTaskInputs /\ y.stableIDMap = x.stableIDMap
      /\ y.pendingActions = x.pendingActions /\ y.pendingSubtasks = x.pendingSubtasks
      /\ y.stage = x.stage /\ y.cached = x.cached /\ y.target = x.target
  BY ONLY <1>1, y = WithRequester(x, t), SMT DEF Fields, WithRequester
<1>3. Asks(u, y, live, wk, cl, cm)
  BY <1>1, <1>2 DEF Asks, Formed
<1>4. Inputs(y, live)
  BY <1>2 DEF TaskInv, Inputs
<1>5. Holds(u, y, wk, cl, cm)
  <2>1. Within(y.pendingActions, x.pendingActions) /\ Within(y.pendingSubtasks, x.pendingSubtasks)
    BY <1>2 DEF Within
  <2>2. Holds(u, x, wk, cl, cm)
    BY DEF TaskInv
  <2>3. y.stage = "absent" => y.pendingActions = NoMap /\ y.pendingSubtasks = NoMap
    BY <1>2, <2>2 DEF Holds
  <2> QED
    BY <2>1, <2>2, <2>3, HeldIs
<1>6. \A k : WaitID(y, k) = WaitID(x, k)
  BY <1>2 DEF WaitID
<1>7. Waits(y, over)
  <2>1. WaitIDs(y) = WaitIDs(x)
    BY <1>2, <1>6 DEF WaitIDs
  <2>2. \A k : Open(y, k, over) <=> Open(x, k, over)
    BY <1>2 DEF Open
  <2>3. Waits(x, over)
    BY DEF TaskInv
  <2> QED
    BY <1>2, <2>1, <2>2, <2>3 DEF Waits
<1>8. Throws(y, cm)
  <2>1. Throws(x, cm)
    BY DEF TaskInv
  <2> QED
    BY ONLY <1>2, <1>6, <2>1, Zenon DEF Throws
<1>9. KeepsWork(x, y, cm)
  BY <1>2 DEF KeepsWork
<1> QED
  BY <1>2, <1>3, <1>4, <1>5, <1>7, <1>8, <1>9 DEF TaskInv, SameButRequester

\* A task waits.
LEMMA WaiterIs ==
  ASSUME EngineInv, NEW t \in Tasks, NEW ti, Computed(t, taskInfos[t], ti),
         UnresolvedIDs(ti) # {}, NEW y, y = Waiter(ti)
  PROVE  /\ TaskInv(t, y, LiveTasks, OverTasks, work, call, completions)
         /\ KeepsWork(taskInfos[t], y, completions) /\ y.stage = "waiting"
         /\ y.waitingOn = UnresolvedIDs(ti)
         /\ y.requestedBy = taskInfos[t].requestedBy
<1>1. /\ DOMAIN ti = Fields /\ ti.context \in Nat /\ ti.waitingOn = {} /\ ti.stage # "absent"
      /\ Holds(t, ti, work, call, completions)
  BY ComputedIs
<1>2. Formed(ti) /\ Inputs(ti, LiveTasks) /\ ti.step = "check"
  BY DEF Computed
<1>3. /\ DOMAIN y = Fields /\ y.context \in Nat /\ y.ids = ti.ids /\ y.todo = ti.todo
      /\ y.step = ti.step /\ y.waitingOn = UnresolvedIDs(ti) /\ y.stage = "waiting"
      /\ y.requestedTaskInputs = ti.requestedTaskInputs /\ y.requestedBy = ti.requestedBy
      /\ y.pendingActions = ti.pendingActions /\ y.pendingSubtasks = ti.pendingSubtasks
      /\ y.stableIDMap = ti.stableIDMap
  BY ONLY <1>1, y = Waiter(ti), SMT DEF Fields, Waiter
<1>4. Asks(t, y, LiveTasks, work, call, completions) /\ Inputs(y, LiveTasks)
  BY <1>2, <1>3 DEF Asks, Formed, Inputs
<1>5. Holds(t, y, work, call, completions)
  <2>1. Within(y.pendingActions, ti.pendingActions) /\ Within(y.pendingSubtasks, ti.pendingSubtasks)
    BY <1>3 DEF Within
  <2>2. y.stage = "absent" => y.pendingActions = NoMap /\ y.pendingSubtasks = NoMap
    BY <1>3
  <2> QED
    BY <1>1, <2>1, <2>2, HeldIs
<1>6. Waits(y, OverTasks)
  <2>1. WaitIDs(y) = WaitIDs(ti)
    BY <1>3 DEF WaitIDs, WaitID
  <2>2. \A id : Open(y, id, OverTasks) <=> Open(ti, id, OverTasks)
    BY <1>3 DEF Open
  <2>3. \A id : Unresolved(ti, id) <=> Open(ti, id, OverTasks)
    BY <1>2, UnresolvedIsOpen
  <2>4. \A id \in WaitIDs(y) : id \in y.waitingOn \/ ~Open(y, id, OverTasks)
    BY <1>3, <2>1, <2>2, <2>3 DEF UnresolvedIDs
  <2> QED
    BY <1>3, <2>4 DEF Waits
<1>7. Throws(y, completions)
  BY <1>3 DEF Throws
<1>8. KeepsWork(taskInfos[t], y, completions) /\ y.requestedBy = taskInfos[t].requestedBy
  BY <1>3 DEF KeepsWork, Computed, SameHeld
<1> QED
  BY <1>3, <1>4, <1>5, <1>6, <1>7, <1>8 DEF TaskInv

\* A task waits for what is unresolved, and the tasks among it learn of that.
LEMMA WaitsStep ==
  ASSUME EngineInv, NEW t \in Tasks, NEW ti, Computed(t, taskInfos[t], ti),
         NEW on, on = UnresolvedIDs(ti), on # {}, NEW y, y = Waiter(ti),
         NEW infos, infos = [taskInfos EXCEPT ![t] = y],
         taskInfos' = Registered(infos, on, t),
         UNCHANGED <<work, call, completions>>, CacheInv'
  PROVE  EngineInv'
<1>1. /\ TaskInv(t, y, LiveTasks, OverTasks, work, call, completions)
      /\ KeepsWork(taskInfos[t], y, completions) /\ y.stage = "waiting"
      /\ y.waitingOn = on /\ y.requestedBy = taskInfos[t].requestedBy
  BY WaiterIs
<1>2. /\ infos[t] = y /\ \A u \in Tasks \ {t} : infos[u] = taskInfos[u]
      /\ DOMAIN taskInfos' = Tasks
      /\ \A u \in Tasks : taskInfos'[u] = IF u \in on THEN WithRequester(infos[u], t) ELSE infos[u]
  BY DEF EngineInv, Registered
<1>3. \A u \in Tasks : /\ TaskInv(u, infos[u], LiveTasks, OverTasks, work, call, completions)
                       /\ KeepsWork(taskInfos[u], infos[u], completions)
  <2>1. \A u : KeepsWork(taskInfos[u], taskInfos[u], completions)
    BY DEF KeepsWork
  <2>2. \A u \in Tasks : TaskInv(u, taskInfos[u], LiveTasks, OverTasks, work, call, completions)
    BY DEF EngineInv
  <2> QED
    BY ONLY <1>1, <1>2, <2>1, <2>2, Zenon
<1>4. ASSUME NEW u \in Tasks
      PROVE  /\ TaskInv(u, taskInfos'[u], LiveTasks, OverTasks, work, call, completions)
             /\ KeepsWork(infos[u], taskInfos'[u], completions)
             /\ taskInfos'[u].stage = infos[u].stage /\ taskInfos'[u].waitingOn = infos[u].waitingOn
             /\ infos[u].requestedBy \subseteq taskInfos'[u].requestedBy
             /\ u \in on => t \in taskInfos'[u].requestedBy
  <2>1. CASE u \in on
    <3> PICK x : x = infos[u]
      OBVIOUS
    <3> PICK z : z = WithRequester(x, t)
      OBVIOUS
    <3>1. taskInfos'[u] = z
      BY <1>2, <2>1
    <3>2. TaskInv(u, x, LiveTasks, OverTasks, work, call, completions)
      BY <1>3
    <3>3. /\ TaskInv(u, z, LiveTasks, OverTasks, work, call, completions)
          /\ KeepsWork(x, z, completions) /\ SameButRequester(x, z, t)
      BY ONLY <3>2, z = WithRequester(x, t), RequesterAdded, Zenon
    <3> QED
      BY <3>1, <3>3 DEF SameButRequester
  <2>2. CASE u \notin on
    <3>1. taskInfos'[u] = infos[u]
      BY <1>2, <2>2
    <3>2. KeepsWork(infos[u], infos[u], completions)
      BY DEF KeepsWork
    <3> QED
      BY <1>3, <2>2, <3>1, <3>2
  <2> QED
    BY <2>1, <2>2
<1>5. \A u \in Tasks : KeepsWork(taskInfos[u], taskInfos'[u], completions)
  <2> SUFFICES ASSUME NEW u \in Tasks PROVE KeepsWork(taskInfos[u], taskInfos'[u], completions)
    OBVIOUS
  <2>1. KeepsWork(taskInfos[u], infos[u], completions) /\ KeepsWork(infos[u], taskInfos'[u], completions)
    BY <1>3, <1>4
  <2> QED
    BY ONLY <2>1, Zenon DEF KeepsWork
<1>6. taskInfos'[t].stage = "waiting" /\ \A u \in Tasks \ {t} : taskInfos'[u].stage = taskInfos[u].stage
  BY ONLY <1>1, <1>2, <1>4, t \in Tasks, Zenon
<1>7. taskInfos[t].stage \in {"computing", "replaying"}
  BY DEF Computed
<1>8. LiveTasks \subseteq LiveTasks' /\ OverTasks \subseteq OverTasks'
  <2>1. \A u \in Tasks : /\ taskInfos[u].stage # "absent" => taskInfos'[u].stage # "absent"
                         /\ taskInfos[u].stage \in {"finished", "done"} =>
                              taskInfos'[u].stage \in {"finished", "done"}
    <3> SUFFICES ASSUME NEW u \in Tasks
                 PROVE  /\ taskInfos[u].stage # "absent" => taskInfos'[u].stage # "absent"
                        /\ taskInfos[u].stage \in {"finished", "done"} =>
                             taskInfos'[u].stage \in {"finished", "done"}
      OBVIOUS
    <3> QED
      BY <1>6, <1>7
  <2> QED
    BY <2>1 DEF LiveTasks, OverTasks, Live, Over
<1>9. ASSUME NEW u \in Tasks
      PROVE  TaskInv(u, taskInfos'[u], LiveTasks', OverTasks', work, call, completions)
  <2>1. SameWorks(u, work, call, completions, work, call, completions)
    BY DEF SameWorks
  <2>2. TaskInv(u, taskInfos'[u], LiveTasks, OverTasks, work, call, completions)
    BY <1>4
  <2> QED
    BY ONLY <1>8, <2>1, <2>2, TaskKept, Zenon
<1>10. ASSUME NEW u \in Tasks
       PROVE  Wakes(u, taskInfos', work, call, completions)
  <2> SUFFICES ASSUME NEW id \in taskInfos'[u].waitingOn
               PROVE  \/ /\ id \in Tasks /\ u \in taskInfos'[id].requestedBy
                         /\ taskInfos'[id].stage \notin {"absent", "done"}
                      \/ Owns(u, id, work, call) /\ completions[id] = 0
    BY DEF Wakes
  <2>1. CASE u = t
    <3>0. id \in on
      BY ONLY <1>1, <1>2, <1>4, <2>1, t \in Tasks, id \in taskInfos'[u].waitingOn, Zenon
    <3>1. id \in on /\ Unresolved(ti, id)
      BY <3>0 DEF UnresolvedIDs
    <3>2. Inputs(ti, LiveTasks) /\ Holds(t, ti, work, call, completions)
      BY ComputedIs DEF Computed
    <3>3. CASE id \in DOMAIN ti.requestedTaskInputs /\ ~Over(id)
      <4>1. id \in Tasks /\ taskInfos[id].stage \notin {"absent", "done"}
        BY <3>2, <3>3 DEF Inputs, LiveTasks, Live, Over
      <4>2. taskInfos'[id].stage \notin {"absent", "done"}
        BY <1>6, <4>1
      <4> QED
        BY <1>4, <2>1, <3>1, <4>1, <4>2
    <3>4. CASE \/ id \in DOMAIN ti.pendingActions /\ ti.pendingActions[id].result = Pending
               \/ id \in DOMAIN ti.pendingSubtasks /\ ti.pendingSubtasks[id] = Pending
      BY <2>1, <3>2, <3>4 DEF Holds
    <3> QED
      BY <3>1, <3>3, <3>4 DEF Unresolved
  <2>2. CASE u # t
    <3>1. id \in taskInfos[u].waitingOn
      BY ONLY <1>2, <1>4, <2>2, u \in Tasks, id \in taskInfos'[u].waitingOn, Zenon
    <3>2. CASE id \in Tasks /\ u \in taskInfos[id].requestedBy /\ taskInfos[id].stage \notin {"absent", "done"}
      <4>1. u \in infos[id].requestedBy
        BY <1>1, <1>2, <3>2
      <4>2. taskInfos'[id].stage \notin {"absent", "done"}
        BY <1>6, <3>2
      <4>3. u \in taskInfos'[id].requestedBy
        BY <1>4, <3>2, <4>1
      <4> QED
        BY <3>2, <4>2, <4>3
    <3> QED
      BY <3>1, <3>2 DEF EngineInv, Wakes
  <2> QED
    BY <2>1, <2>2
<1> QED
  BY <1>2, <1>5, <1>9, <1>10, WorksStay

\* processTaskNextState.
LEMMA ProcessStep ==
  ASSUME EngineInv, NEW t \in Tasks, NEW ti, Computed(t, taskInfos[t], ti), NEW outcome,
         ProcessTaskNextState(t, ti, outcome), UNCHANGED <<work, call, completions>>, CacheInv'
  PROVE  EngineInv'
<1> PICK on : on = UnresolvedIDs(ti)
  OBVIOUS
<1> PICK y : y = Waiter(ti)
  OBVIOUS
<1> PICK infos : infos = [taskInfos EXCEPT ![t] = y]
  OBVIOUS
<1>1. \/ \E result : taskInfos' = [taskInfos EXCEPT ![t] = Finish(ti, result)]
      \/ /\ on = {}
         /\ taskInfos' = [taskInfos EXCEPT ![t] = Unblock([ti EXCEPT !.context = @ + 1])]
      \/ /\ on # {}
         /\ taskInfos' = Registered(infos, on, t)
  BY DEF ProcessTaskNextState, Wait, UnresolvedIDs, Waiter, WithRequester, Registered
<1>2. CASE \E result : taskInfos' = [taskInfos EXCEPT ![t] = Finish(ti, result)]
  BY <1>2, FinishStep
<1>3. CASE /\ on = {}
           /\ taskInfos' = [taskInfos EXCEPT ![t] = Unblock([ti EXCEPT !.context = @ + 1])]
  <2>1. \A id \in WaitIDs(ti) : ~Unresolved(ti, id)
    BY <1>3 DEF UnresolvedIDs
  <2> QED
    BY <1>3, <2>1, NoWaitStep
<1>4. CASE on # {} /\ taskInfos' = Registered(infos, on, t)
  BY <1>4, WaitsStep
<1> QED
  BY <1>1, <1>2, <1>3, <1>4

-----------------------------------------------------------------------------
(***************************************************************************)
(* The cache                                                               *)
(***************************************************************************)
\* The requests of a task are for things there are.
LEMMA RequestsAre ==
  ASSUME EngineInv, NEW t \in Tasks
  PROVE  \A sid \in Requests(taskInfos[t]) : IsStableID(sid)
<1>1. Inputs(taskInfos[t], LiveTasks) /\ Holds(t, taskInfos[t], work, call, completions)
  BY DEF EngineInv, TaskInv
<1> QED
  BY <1>1 DEF Requests, Inputs, Holds

\* updateTaskCache.
LEMMA UpdateStep ==
  ASSUME EngineInv, NEW t \in Tasks, NEW outcome, UpdateTaskCache(t, taskInfos[t], outcome)
  PROVE  CacheInv'
<1> DEFINE x == taskInfos[t]
           key == Key(t, x)
<1>1. PICK value : value = [outcome |-> outcome, ids |-> x.ids, requests |-> Requests(x)]
  OBVIOUS
<1>2. value.ids = x.ids /\ value.requests = Requests(x)
  BY ONLY <1>1, SMT
<1>3. /\ IsSequence(value.ids)
      /\ \A sid \in value.requests : IsStableID(sid)
  BY <1>2, RequestsAre DEF EngineInv, TaskInv, Asks, Formed
<1>4. CASE actionCache' = actionCache
  BY <1>4, CacheKept
<1>5. CASE actionCache' = [k \in DOMAIN actionCache \cup {key} |->
                             IF k = key THEN value ELSE actionCache[k]]
  <2>1. \A k \in DOMAIN actionCache' :
          actionCache'[k] = value \/ (k \in DOMAIN actionCache /\ actionCache'[k] = actionCache[k])
    BY ONLY <1>5, Zenon
  <2>2. CacheInv
    BY DEF EngineInv
  <2> QED
    BY <1>3, <2>1, <2>2 DEF CacheInv
<1> QED
  BY <1>1, <1>4, <1>5 DEF UpdateTaskCache

\* EndCompute.
LEMMA EndComputeStep ==
  ASSUME EngineInv, NEW t \in Tasks, EndCompute(t)
  PROVE  EngineInv'
<1> DEFINE x == taskInfos[t]
<1>1. /\ x.stage = "computing" /\ x.todo = << >> /\ UpdateTaskCache(t, x, Outcome(t, x))
      /\ ProcessTaskNextState(t, x, Outcome(t, x)) /\ UNCHANGED <<work, call, completions>>
  BY DEF EndCompute, executorVars
<1>2. CacheInv'
  BY <1>1, UpdateStep
<1>3. TaskInv(t, x, LiveTasks, OverTasks, work, call, completions)
  BY DEF EngineInv
<1>4. Computed(t, x, x)
  BY <1>1, <1>3 DEF Computed, TaskInv, Asks, SameHeld
<1> QED
  BY <1>1, <1>2, <1>4, ProcessStep

\* EndReplay.
LEMMA EndReplayStep ==
  ASSUME EngineInv, NEW t \in Tasks, EndReplay(t)
  PROVE  EngineInv'
<1> DEFINE x == taskInfos[t]
<1>0. PICK ti : ti = [x EXCEPT !.ids = x.cached.ids, !.cached = NoMap]
  OBVIOUS
<1>1. /\ x.stage = "replaying" /\ x.todo = << >> /\ UNCHANGED <<work, call, completions>>
      /\ ProcessTaskNextState(t, ti, x.cached.outcome) /\ UNCHANGED actionCache
  BY <1>0 DEF EndReplay, executorVars
<1>2. CacheInv'
  BY <1>1, CacheKept
<1>3. TaskInv(t, x, LiveTasks, OverTasks, work, call, completions)
  BY DEF EngineInv
<1>4. Formed(x) /\ DOMAIN x = Fields /\ x.step = "check" /\ IsSequence(x.cached.ids)
  BY <1>1, <1>3 DEF TaskInv, Asks, Formed
<1>5. /\ DOMAIN ti = Fields /\ ti.context = x.context /\ ti.ids = x.cached.ids /\ ti.todo = x.todo
      /\ ti.step = x.step /\ ti.stage = x.stage /\ ti.requestedTaskInputs = x.requestedTaskInputs
      /\ SameHeld(x, ti)
  BY ONLY <1>0, <1>4, SMT DEF Fields, SameHeld
<1>6. Computed(t, x, ti)
  BY <1>1, <1>3, <1>4, <1>5 DEF Computed, TaskInv, Formed, Inputs
<1> QED
  BY <1>1, <1>2, <1>6, ProcessStep

\* A task that is queued, or for which the cache is asked.
LEMMA QueuedIs ==
  ASSUME EngineInv, NEW t \in Tasks, taskInfos[t].stage \in {"ready", "lookup", "asking"}
  PROVE  /\ Formed(taskInfos[t]) /\ Inputs(taskInfos[t], LiveTasks)
         /\ Holds(t, taskInfos[t], work, call, completions)
         /\ taskInfos[t].step = "check" /\ taskInfos[t].waitingOn = {}
         /\ TaskInv(t, taskInfos[t], LiveTasks, OverTasks, work, call, completions)
<1>1. TaskInv(t, taskInfos[t], LiveTasks, OverTasks, work, call, completions)
  BY DEF EngineInv
<1> QED
  BY <1>1 DEF TaskInv, Asks, Waits

\* A job queues the task again, or asks the cache.
LEMMA QueuedStep ==
  ASSUME EngineInv, NEW t \in Tasks, taskInfos[t].stage \in {"lookup", "asking"},
         NEW s \in {"asking", "ready"}, taskInfos' = [taskInfos EXCEPT ![t].stage = s],
         UNCHANGED <<work, call, completions>>, UNCHANGED actionCache
  PROVE  EngineInv'
<1> DEFINE x == taskInfos[t]
<1>1. PICK y : y = [x EXCEPT !.stage = s]
  OBVIOUS
<1>2. taskInfos' = [taskInfos EXCEPT ![t] = y]
  BY ONLY <1>1, taskInfos' = [taskInfos EXCEPT ![t].stage = s], Zenon
<1>3. /\ Formed(x) /\ Inputs(x, LiveTasks) /\ Holds(t, x, work, call, completions)
      /\ x.step = "check" /\ x.waitingOn = {} /\ x.stage # "absent"
      /\ x.stage \notin {"finished", "done"}
  BY QueuedIs
<1>4. DOMAIN x = Fields
  BY <1>3 DEF Formed
<1>5. /\ DOMAIN y = Fields /\ y.context = x.context /\ y.ids = x.ids
      /\ y.todo = x.todo /\ y.step = x.step /\ y.waitingOn = x.waitingOn
      /\ y.requestedTaskInputs = x.requestedTaskInputs /\ y.pendingActions = x.pendingActions
      /\ y.pendingSubtasks = x.pendingSubtasks /\ y.requestedBy = x.requestedBy /\ y.stage = s
  BY ONLY <1>1, <1>4, SMT DEF Fields
<1>6. y.stage \notin {"absent", "waiting", "replaying", "thrown", "done"}
  BY <1>5
<1>7. TaskInv(t, y, LiveTasks, OverTasks, work, call, completions) /\ KeepsWork(x, y, completions)
  BY <1>3, <1>5, <1>6, RestIs
<1>8. Onward(x, y)
  BY <1>3, <1>5, <1>6 DEF Onward
<1> QED
  BY <1>2, <1>7, <1>8, CacheKept, QuietMove

\* AskCache and CacheMiss.
LEMMA AskCacheStep ==
  ASSUME EngineInv, NEW t \in Tasks, AskCache(t) \/ CacheMiss(t)
  PROVE  EngineInv'
BY QueuedStep DEF AskCache, CacheMiss, executorVars

\* The requests of a transition that is replayed.
LEMMA ReplayedRequests ==
  ASSUME NEW S, \A sid \in S : IsStableID(sid), NEW n \in Nat, NEW order \in Bijection(1 .. n, S),
         NEW todo, todo = [i \in 1 .. n |-> [kind |-> order[i][1], label |-> order[i][2]]]
  PROVE  IsSequence(todo) /\ \A i \in DOMAIN todo : IsRequest(todo[i])
<1>1. order \in [1 .. n -> S]
  BY DEF Bijection, Injection
<1>2. DOMAIN todo = 1 .. n /\ todo = [i \in 1 .. n |-> todo[i]]
  OBVIOUS
<1>3. ASSUME NEW i \in DOMAIN todo PROVE IsRequest(todo[i])
  <2>1. order[i] \in S /\ todo[i] = [kind |-> order[i][1], label |-> order[i][2]]
    BY <1>1, <1>2
  <2>2. todo[i].kind = order[i][1] /\ todo[i].label = order[i][2]
    BY ONLY <2>1, SMT
  <2> QED
    BY <2>1, <2>2 DEF IsRequest, IsStableID
<1> QED
  BY <1>2, <1>3, IsASequence

\* CacheHit.
LEMMA CacheHitStep ==
  ASSUME EngineInv, NEW t \in Tasks, CacheHit(t)
  PROVE  EngineInv'
<1> DEFINE x == taskInfos[t]
           k == Key(t, x)
           value == actionCache[k]
           missing == {sid \in value.requests : sid \notin DOMAIN x.stableIDMap}
<1>1. value = actionCache[k]
  OBVIOUS
<1>2. missing = {sid \in value.requests : sid \notin DOMAIN x.stableIDMap}
  OBVIOUS
<1>3. PICK n \in 0 .. Cardinality(missing) : \E order \in Bijection(1 .. n, missing) :
        taskInfos' = [taskInfos EXCEPT ![t] =
             [x EXCEPT !.stage = "replaying", !.cached = value,
                       !.todo = [i \in 1 .. n |-> [kind |-> order[i][1], label |-> order[i][2]]]]]
  BY DEF CacheHit
<1> HIDE DEF value, missing
<1>4. PICK order, todo :
        /\ order \in Bijection(1 .. n, missing)
        /\ todo = [i \in 1 .. n |-> [kind |-> order[i][1], label |-> order[i][2]]]
        /\ taskInfos' = [taskInfos EXCEPT ![t] =
             [x EXCEPT !.stage = "replaying", !.cached = value, !.todo = todo]]
  BY <1>3
<1>5. PICK y : y = [x EXCEPT !.stage = "replaying", !.cached = value, !.todo = todo]
  OBVIOUS
<1>6. taskInfos' = [taskInfos EXCEPT ![t] = y]
  BY ONLY <1>4, <1>5, Zenon
<1>7. /\ x.stage = "asking" /\ k \in DOMAIN actionCache /\ UNCHANGED actionCache
      /\ UNCHANGED <<work, call, completions>>
  BY DEF CacheHit, executorVars
<1>8. /\ IsSequence(value.ids)
      /\ \A sid \in value.requests : IsStableID(sid)
  BY <1>1, <1>7 DEF EngineInv, CacheInv
<1>9. n \in Nat /\ \A sid \in missing : IsStableID(sid)
  <2>1. n \in Nat
    BY ONLY <1>3, SMT
  <2> QED
    BY <1>2, <1>8, <2>1
<1>10. IsSequence(todo) /\ \A i \in DOMAIN todo : IsRequest(todo[i])
  BY <1>4, <1>9, ReplayedRequests
<1>11. /\ Formed(x) /\ Inputs(x, LiveTasks) /\ x.step = "check" /\ x.waitingOn = {}
       /\ TaskInv(t, x, LiveTasks, OverTasks, work, call, completions)
  BY <1>7, QueuedIs
<1>12. DOMAIN x = Fields /\ x.context \in Nat /\ IsSequence(x.ids)
  BY <1>11 DEF Formed
<1>13. /\ DOMAIN y = Fields /\ y.stage = "replaying" /\ y.cached = value /\ y.todo = todo
       /\ y.context = x.context /\ y.ids = x.ids /\ y.step = x.step
       /\ y.requestedTaskInputs = x.requestedTaskInputs /\ SameHeld(x, y)
  BY ONLY <1>5, <1>12, SMT DEF Fields, SameHeld
<1>14. IsRecord(y, LiveTasks) /\ Inputs(y, LiveTasks)
  BY <1>8, <1>10, <1>11, <1>12, <1>13 DEF IsRecord, Formed, Inputs
<1>15. TaskInv(t, y, LiveTasks, OverTasks, work, call, completions) /\ KeepsWork(x, y, completions)
  BY <1>7, <1>11, <1>13, <1>14, Moved
<1>16. Onward(x, y)
  BY <1>7, <1>13 DEF Onward, SameHeld
<1> QED
  BY <1>6, <1>7, <1>15, <1>16, CacheKept, QuietMove

\* Build.
LEMMA BuildStep ==
  ASSUME EngineInv, NEW b \in Builds, Build(b)
  PROVE  EngineInv'
<1>1. /\ b \in Tasks /\ taskInfos[b].stage = "absent" /\ UNCHANGED <<work, call, completions>>
      /\ UNCHANGED actionCache /\ taskInfos' = [taskInfos EXCEPT ![b] = NewTaskInfo("ready")]
  BY DEF Build, Live, Tasks, executorVars
<1>2. TaskInv(b, taskInfos[b], LiveTasks, OverTasks, work, call, completions)
  BY <1>1 DEF EngineInv
<1>3. PICK n : n = NewTaskInfo("ready")
  OBVIOUS
<1>4. /\ TaskInv(b, n, LiveTasks, OverTasks, work, call, completions)
      /\ Onward(taskInfos[b], n) /\ KeepsWork(taskInfos[b], n, completions)
  BY <1>1, <1>2, <1>3, NewTaskIs
<1> QED
  BY <1>1, <1>3, <1>4, CacheKept, QuietMove

-----------------------------------------------------------------------------
(***************************************************************************)
(* compute()                                                               *)
(***************************************************************************)
\* A sequence of one request.
LEMMA OneRequest ==
  ASSUME NEW k, NEW l, k = "artifact" => l \in Artifacts, k = "rule" => l \in Tasks,
         NEW plan, plan = << [kind |-> k, label |-> l] >>
  PROVE  IsSequence(plan) /\ \A i \in DOMAIN plan : IsRequest(plan[i])
<1>1. PICK q : q = [kind |-> k, label |-> l]
  OBVIOUS
<1>2. q.kind = k /\ q.label = l
  BY ONLY <1>1, SMT
<1>3. IsSequence(plan) /\ \A i \in DOMAIN plan : plan[i] = q
  BY <1>1, SmallSequences
<1> QED
  BY <1>2, <1>3 DEF IsRequest

\* What compute() asks for.
LEMMA PlanIs ==
  ASSUME NEW t \in Tasks, NEW ti, ti.context \in Nat, NEW plan, plan = Plan(t, ti)
  PROVE  IsSequence(plan) /\ \A i \in DOMAIN plan : IsRequest(plan[i])
<1>1. ASSUME t \in Rules, ti.context < Len(Script[t]), plan = Script[t][ti.context + 1]
      PROVE  IsSequence(plan) /\ \A i \in DOMAIN plan : IsRequest(plan[i])
  <2>1. IsSequence(Script[t])
    BY <1>1, ScriptAssumption
  <2>2. Len(Script[t]) \in Nat /\ DOMAIN Script[t] = 1 .. Len(Script[t])
    BY <2>1, SequenceIs
  <2>3. ti.context + 1 \in DOMAIN Script[t]
    BY <1>1, <2>2, SMT
  <2> QED
    BY <1>1, <2>3, ScriptAssumption DEF IsRequest, Tasks
<1>2. ASSUME InitRule # NoTask, plan = << [kind |-> "rule", label |-> InitRule] >>
      PROVE  IsSequence(plan) /\ \A i \in DOMAIN plan : IsRequest(plan[i])
  <2>1. InitRule \in Tasks
    BY <1>2, ScenarioAssumption DEF Tasks
  <2> QED
    BY <1>2, <2>1, OneRequest
<1>3. ASSUME t \in Builds, plan = << [kind |-> "artifact", label |-> Wanted[t]] >>
      PROVE  IsSequence(plan) /\ \A i \in DOMAIN plan : IsRequest(plan[i])
  <2>1. Wanted[t] \in Artifacts
    BY <1>3, ScenarioAssumption
  <2> QED
    BY <1>3, <2>1, OneRequest
<1>4. ASSUME plan = << >>
      PROVE  IsSequence(plan) /\ \A i \in DOMAIN plan : IsRequest(plan[i])
  BY <1>4, SmallSequences
<1>5. \/ t \in Rules /\ ti.context < Len(Script[t]) /\ plan = Script[t][ti.context + 1]
      \/ InitRule # NoTask /\ plan = << [kind |-> "rule", label |-> InitRule] >>
      \/ t \in Builds /\ plan = << [kind |-> "artifact", label |-> Wanted[t]] >>
      \/ plan = << >>
  BY SMT DEF Plan
<1> QED
  BY <1>1, <1>2, <1>3, <1>4, <1>5

\* A task that is ready starts to compute.
Starts(x, y, live) ==
  /\ Formed(y) /\ y.stage = "computing" /\ y.step = "check" /\ SameHeld(x, y)
  /\ Inputs(y, live)

\* It keeps the invariant.
LEMMA StartIs ==
  ASSUME EngineInv, NEW t \in Tasks, taskInfos[t].stage = "ready", NEW live, LiveTasks \subseteq live,
         NEW y, Starts(taskInfos[t], y, live)
  PROVE  /\ TaskInv(t, y, live, OverTasks, work, call, completions)
         /\ KeepsWork(taskInfos[t], y, completions) /\ Onward(taskInfos[t], y)
<1> DEFINE x == taskInfos[t]
<1>1. x.step = "check" /\ TaskInv(t, x, LiveTasks, OverTasks, work, call, completions)
  BY QueuedIs
<1>2. TaskInv(t, x, live, OverTasks, work, call, completions)
  <2>1. SameWorks(t, work, call, completions, work, call, completions)
    BY DEF SameWorks
  <2> QED
    BY <1>1, <2>1, TaskKept
<1>3. IsRecord(y, live) /\ SameHeld(x, y) /\ Inputs(y, live)
  BY DEF Starts, IsRecord
<1>4. TaskInv(t, y, live, OverTasks, work, call, completions) /\ KeepsWork(x, y, completions)
  BY <1>1, <1>2, <1>3, Moved
<1>5. Onward(x, y)
  BY DEF Starts, Onward, SameHeld
<1> QED
  BY <1>4, <1>5

\* performInit.
LEMMA PerformInitStep ==
  ASSUME EngineInv, NEW b \in Builds, taskInfos[b].stage = "ready", PerformInit(b),
         UNCHANGED <<work, call, completions>>, UNCHANGED actionCache
  PROVE  EngineInv'
<1> DEFINE x == taskInfos[b]
<1>1. PICK sid : sid = <<"rule", InitTask>>
  OBVIOUS
<1>2. PICK inputs : inputs = Insert(x.requestedTaskInputs, InitTask, sid)
  OBVIOUS
<1>3. PICK y : y = [x EXCEPT !.stage = "computing",
                             !.requestedTaskInputs = Insert(@, InitTask, <<"rule", InitTask>>),
                             !.stableIDMap = Insert(@, <<"rule", InitTask>>, InitTask),
                             !.ids = << <<"rule", InitTask>> >>]
  OBVIOUS
<1>4. b \in Tasks /\ InitTask \in Tasks /\ b # InitTask
  BY ScenarioAssumption DEF Tasks
<1>5. /\ Formed(x) /\ Inputs(x, LiveTasks) /\ x.step = "check"
      /\ DOMAIN x = Fields /\ x.context \in Nat
  BY <1>4, QueuedIs DEF Formed
<1>6. /\ DOMAIN y = Fields /\ y.stage = "computing" /\ y.ids = << sid >> /\ y.todo = x.todo
      /\ y.context = x.context /\ y.step = x.step /\ y.requestedTaskInputs = inputs /\ SameHeld(x, y)
  BY ONLY <1>1, <1>2, <1>3, <1>5, SMT DEF Fields, SameHeld
<1>7. IsStableID(sid)
  BY <1>1, <1>4, SMT DEF IsStableID
<1>8. \A u \in DOMAIN inputs : \/ u = InitTask /\ inputs[u] = sid
                               \/ u \in DOMAIN x.requestedTaskInputs /\ inputs[u] = x.requestedTaskInputs[u]
  BY <1>2 DEF Insert
<1>9. Inputs(y, LiveTasks \cup {InitTask})
  BY <1>5, <1>6, <1>7, <1>8 DEF Inputs
<1>10. Starts(x, y, LiveTasks \cup {InitTask})
  <2>1. IsSequence(y.ids)
    BY <1>6, SmallSequences
  <2> QED
    BY <1>5, <1>6, <1>9, <2>1 DEF Starts, Formed
<1>11. /\ TaskInv(b, y, LiveTasks \cup {InitTask}, OverTasks, work, call, completions)
       /\ KeepsWork(x, y, completions) /\ Onward(x, y)
  BY <1>4, <1>10, StartIs
<1>12. taskInfos' = [taskInfos EXCEPT ![b] = y,
                       ![InitTask] = IF Live(InitTask) THEN @ ELSE NewTaskInfo("ready")]
  BY ONLY <1>3, PerformInit(b), Zenon DEF PerformInit
<1>13. CASE Live(InitTask)
  <2>1. taskInfos' = [taskInfos EXCEPT ![b] = y]
    BY <1>4, <1>12, <1>13 DEF EngineInv
  <2>2. LiveTasks \cup {InitTask} = LiveTasks
    BY <1>4, <1>13 DEF LiveTasks
  <2> QED
    BY <1>4, <1>11, <2>1, <2>2, CacheKept, QuietMove
<1>14. CASE ~Live(InitTask)
  <2>1. taskInfos' = [taskInfos EXCEPT ![b] = y, ![InitTask] = NewTaskInfo("ready")]
    BY <1>12, <1>14
  <2>2. taskInfos[InitTask].stage = "absent"
    BY <1>14 DEF Live
  <2> QED
    BY <1>4, <1>11, <2>1, <2>2, CacheKept, InsertMove
<1> QED
  BY <1>13, <1>14

\* StartCompute.
LEMMA StartComputeStep ==
  ASSUME EngineInv, NEW t \in Tasks, StartCompute(t)
  PROVE  EngineInv'
<1> DEFINE x == taskInfos[t]
<1>1. /\ x.stage = "ready" /\ UNCHANGED <<work, call, completions>> /\ UNCHANGED actionCache
  BY DEF StartCompute, executorVars
<1>2. CASE t \in Builds /\ PerformInit(t)
  BY <1>1, <1>2, PerformInitStep
<1>3. PICK now : now = IF t \in Builds /\ x.context = 0 THEN [x EXCEPT !.context = 1] ELSE x
  OBVIOUS
<1>4. PICK plan : plan = Plan(t, now)
  OBVIOUS
<1>5. PICK y : y = [now EXCEPT !.stage = "computing", !.todo = plan, !.ids = << >>]
  OBVIOUS
<1>6. CASE taskInfos' = [taskInfos EXCEPT ![t] = y]
  <2>1. Formed(x) /\ Inputs(x, LiveTasks) /\ x.step = "check" /\ DOMAIN x = Fields /\ x.context \in Nat
    BY <1>1, QueuedIs DEF Formed
  <2>2. /\ DOMAIN now = Fields /\ now.context \in Nat /\ now.step = x.step
        /\ now.requestedTaskInputs = x.requestedTaskInputs /\ SameHeld(x, now)
    BY ONLY <1>3, <2>1, SMT DEF Fields, SameHeld
  <2>3. IsSequence(plan) /\ \A i \in DOMAIN plan : IsRequest(plan[i])
    BY <1>4, <2>2, PlanIs
  <2>4. /\ DOMAIN y = Fields /\ y.context = now.context /\ y.step = now.step /\ y.ids = << >>
        /\ y.stage = "computing" /\ y.todo = plan
        /\ y.requestedTaskInputs = now.requestedTaskInputs /\ SameHeld(now, y)
    BY ONLY <1>5, <2>2, SMT DEF Fields, SameHeld
  <2>5. IsSequence(y.ids)
    BY <2>4, SmallSequences
  <2>6. Starts(x, y, LiveTasks)
    BY <2>1, <2>2, <2>3, <2>4, <2>5 DEF Starts, Formed, Inputs, SameHeld
  <2>7. /\ TaskInv(t, y, LiveTasks, OverTasks, work, call, completions)
        /\ KeepsWork(x, y, completions) /\ Onward(x, y)
    BY <1>1, <2>6, StartIs
  <2> QED
    BY <1>1, <1>6, <2>7, CacheKept, QuietMove
<1> QED
  BY <1>2, <1>3, <1>4, <1>5, <1>6 DEF StartCompute

-----------------------------------------------------------------------------
(***************************************************************************)
(* Work                                                                    *)
(***************************************************************************)
\* The works when w has been handed to the executor for t.
Handed(t, w, q, c) ==
  /\ w \in Works /\ w \notin DOMAIN work /\ completions[w] = 0
  /\ DOMAIN work' = DOMAIN work \cup {w} /\ work'[w] = [task |-> t, request |-> q]
  /\ \A v \in DOMAIN work : v # w /\ work'[v] = work[v]
  /\ call' = [v \in Works |-> call'[v]] /\ call'[w] = c
  /\ \A v \in Works : v # w => call'[v] = call[v]

\* submit() is called for work that has just got its id.
LEMMA HandedIs ==
  ASSUME EngineInv, NEW t \in Tasks, NEW w \in Works, NEW q, call[w] = "idle",
         work' = Insert(work, w, [task |-> t, request |-> q]),
         NEW c \in {"calling", "rejected"}, call' = [call EXCEPT ![w] = c], UNCHANGED completions
  PROVE  /\ Handed(t, w, q, c)
         /\ \A u : SameWorks(u, work, call, completions, work', call', completions')
<1>1. WorkInv(taskInfos, work, call, completions)
  BY DEF EngineInv
<1>2. w \notin DOMAIN work /\ completions[w] = 0 /\ DOMAIN call = Works
  BY <1>1 DEF WorkInv
<1>3. /\ DOMAIN work' = DOMAIN work \cup {w} /\ work'[w] = [task |-> t, request |-> q]
      /\ \A v \in DOMAIN work : v # w /\ work'[v] = work[v]
  BY <1>2 DEF Insert
<1>4. /\ call' = [v \in Works |-> call'[v]] /\ call'[w] = c
      /\ \A v \in Works : v # w => call'[v] = call[v]
  BY <1>2
<1>5. Handed(t, w, q, c)
  BY <1>2, <1>3, <1>4 DEF Handed
<1>6. \A v \in DOMAIN work : v \in Works
  BY <1>1 DEF WorkInv
<1> QED
  BY <1>3, <1>4, <1>5, <1>6 DEF SameWorks

\* The invariant of the works, when the task has got to y.
LEMMA HandedWorks ==
  ASSUME EngineInv, NEW t \in Tasks, NEW w, NEW q, NEW c \in {"calling", "rejected"},
         Handed(t, w, q, c), UNCHANGED completions, taskInfos[t].step # "submitted",
         NEW y, taskInfos' = [taskInfos EXCEPT ![t] = y], SameHeld(taskInfos[t], y),
         c = "calling" => y.step = "submitted" /\ y.target = w
  PROVE  WorkInv(taskInfos', work', call', completions')
<1>1. WorkInv(taskInfos, work, call, completions)
  BY DEF EngineInv
<1>2. taskInfos'[t] = y /\ \A u \in Tasks \ {t} : taskInfos'[u] = taskInfos[u]
  BY DEF EngineInv
<1>3. call' \in [Works -> {"idle", "calling", "accepted", "rejected"}]
  <2>1. \A v \in Works : call'[v] \in {"idle", "calling", "accepted", "rejected"}
    BY <1>1 DEF WorkInv, Handed
  <2>2. call' = [v \in Works |-> call'[v]]
    BY DEF Handed
  <2> QED
    BY <2>1, <2>2
<1>4. completions' \in [Works -> 0 .. 1]
  BY <1>1 DEF WorkInv
<1>5. \A v \in Works : call'[v] = "idle" => v \notin DOMAIN work' /\ completions'[v] = 0
  BY <1>1 DEF WorkInv, Handed
<1>6. ASSUME NEW v \in DOMAIN work'
      PROVE  /\ v \in Works /\ work'[v].task \in Tasks
             /\ call'[v] = "calling" => /\ taskInfos'[work'[v].task].step = "submitted"
                                        /\ taskInfos'[work'[v].task].target = v
             /\ call'[v] = "accepted" /\ completions'[v] = 0 =>
                  v \in DOMAIN taskInfos'[work'[v].task].pendingActions
                          \cup DOMAIN taskInfos'[work'[v].task].pendingSubtasks
  <2>1. CASE v = w
    <3>1. work'[w] = [task |-> t, request |-> q] /\ call'[w] = c /\ w \in Works
      BY DEF Handed
    <3>2. work'[w].task = t
      BY ONLY <3>1, SMT
    <3> QED
      BY <1>2, <2>1, <3>1, <3>2
  <2>2. CASE v # w
    <3>1. v \in DOMAIN work /\ work'[v] = work[v]
      BY <2>2 DEF Handed
    <3>2. v \in Works /\ work[v].task \in Tasks
      BY <1>1, <3>1 DEF WorkInv
    <3>3. call'[v] = call[v]
      BY <2>2, <3>2 DEF Handed
    <3>4. /\ call[v] = "calling" => /\ taskInfos[work[v].task].step = "submitted"
                                    /\ taskInfos[work[v].task].target = v
          /\ call[v] = "accepted" /\ completions[v] = 0 =>
               v \in DOMAIN taskInfos[work[v].task].pendingActions
                       \cup DOMAIN taskInfos[work[v].task].pendingSubtasks
      BY <1>1, <3>1 DEF WorkInv
    <3>5. CASE work[v].task = t
      BY <1>2, <3>1, <3>2, <3>3, <3>4, <3>5 DEF SameHeld
    <3>6. CASE work[v].task # t
      BY <1>2, <3>1, <3>2, <3>3, <3>4, <3>6
    <3> QED
      BY <3>5, <3>6
  <2> QED
    BY <2>1, <2>2
<1> QED
  BY <1>3, <1>4, <1>5, <1>6 DEF WorkInv

\* Submit.
LEMMA SubmitStep ==
  ASSUME EngineInv, NEW t \in Tasks, Submit(t)
  PROVE  EngineInv'
<1> DEFINE x == taskInfos[t]
<1>1. PICK w : w = nextWork
  OBVIOUS
<1>2. PICK q : q = Request(t)
  OBVIOUS
<1>3. /\ Requesting(t) /\ q.kind \in {"action", "subtask"} /\ x.step = "check" /\ w \in Works
      /\ work' = Insert(work, w, [task |-> t, request |-> q]) /\ UNCHANGED actionCache
  BY <1>1, <1>2 DEF Submit, requestVars
<1>4. /\ x.stage \in {"computing", "replaying"} /\ x.todo # << >> /\ q = Head(x.todo)
  BY <1>2, <1>3 DEF Requesting, Request
<1>5. /\ IsRecord(x, LiveTasks) /\ Inputs(x, LiveTasks) /\ x.waitingOn = {}
      /\ TaskInv(t, x, LiveTasks, OverTasks, work, call, completions)
  BY <1>3, <1>4, AskerIs DEF TaskInv, Waits
<1>6. ASSUME NEW c \in {"calling", "rejected"}, Handed(t, w, q, c), UNCHANGED completions,
             \A u : SameWorks(u, work, call, completions, work', call', completions'),
             NEW y, taskInfos' = [taskInfos EXCEPT ![t] = y], SameHeld(x, y), y.stage \notin {"absent", "done"},
             c = "calling" => y.step = "submitted" /\ y.target = w,
             TaskInv(t, y, LiveTasks, OverTasks, work', call', completions')
      PROVE  EngineInv'
  <2>1. WorkInv(taskInfos', work', call', completions')
    BY <1>3, <1>6, HandedWorks
  <2>2. Onward(x, y) /\ y.waitingOn = {}
    BY <1>4, <1>5, <1>6 DEF Onward, SameHeld
  <2>3. CacheInv'
    BY <1>3, CacheKept
  <2> QED
    BY <1>6, <2>1, <2>2, <2>3, OneMoves
<1>7. ASSUME NEW c \in {"calling", "rejected"}, call[w] = "idle", call' = [call EXCEPT ![w] = c],
             UNCHANGED completions
      PROVE  /\ Handed(t, w, q, c)
             /\ \A u : SameWorks(u, work, call, completions, work', call', completions')
             /\ TaskInv(t, x, LiveTasks, OverTasks, work', call', completions')
  <2>1. /\ Handed(t, w, q, c)
        /\ \A u : SameWorks(u, work, call, completions, work', call', completions')
    BY <1>3, <1>7, HandedIs
  <2>2. TaskInv(t, x, LiveTasks, OverTasks, work', call', completions')
    BY <1>5, <2>1, TaskKept
  <2> QED
    BY <2>1, <2>2
<1>8. CASE Executor!Submit(w) /\ taskInfos' = [taskInfos EXCEPT ![t].step = "submitted", ![t].target = w]
  <2>1. call[w] = "idle" /\ call' = [call EXCEPT ![w] = "calling"] /\ UNCHANGED completions
    BY <1>8 DEF Executor!Submit
  <2>2. /\ Handed(t, w, q, "calling")
        /\ \A u : SameWorks(u, work, call, completions, work', call', completions')
        /\ TaskInv(t, x, LiveTasks, OverTasks, work', call', completions')
    BY <1>7, <2>1
  <2>3. PICK y : y = [x EXCEPT !.step = "submitted", !.target = w]
    OBVIOUS
  <2>4. taskInfos' = [taskInfos EXCEPT ![t] = y]
    BY ONLY <1>8, <2>3, t \in Tasks, Zenon DEF EngineInv
  <2>5. DOMAIN x = Fields /\ Formed(x)
    BY <1>5 DEF IsRecord, Formed
  <2>6. SameButStep(x, y) /\ y.step = "submitted" /\ y.target = w
    BY ONLY <2>3, <2>5, SMT DEF Fields, SameButStep, SameHeld
  <2>7. Asks(t, y, LiveTasks, work', call', completions')
    <3>1. /\ w \in DOMAIN work' /\ call'[w] = "calling" /\ work'[w] = [task |-> t, request |-> q]
          /\ completions'[w] = 0
      BY <2>1, <2>2 DEF Handed
    <3> QED
      BY <1>3, <1>4, <1>5, <2>5, <2>6, <3>1 DEF Asks, SameButStep, Formed, IsRecord
  <2>8. Inputs(y, LiveTasks) /\ Holds(t, y, work', call', completions')
    <3>1. Inputs(x, LiveTasks) /\ Holds(t, x, work', call', completions')
      BY <2>2 DEF TaskInv
    <3>2. /\ y.stage = x.stage /\ y.requestedTaskInputs = x.requestedTaskInputs
          /\ y.pendingActions = x.pendingActions /\ y.pendingSubtasks = x.pendingSubtasks
      BY <2>6 DEF SameButStep, SameHeld
    <3> QED
      BY ONLY <3>1, <3>2, Zenon DEF Inputs, Holds
  <2>9. Waits(y, OverTasks) /\ Throws(y, completions')
    BY <1>4, <1>5, <2>6 DEF SameButStep, SameHeld, Waits, Throws
  <2>10. TaskInv(t, y, LiveTasks, OverTasks, work', call', completions')
    BY <2>7, <2>8, <2>9 DEF TaskInv
  <2> QED
    BY <1>4, <1>6, <2>1, <2>2, <2>4, <2>6, <2>10 DEF SameButStep
<1>9. CASE Executor!Reject(w) /\ taskInfos' = [taskInfos EXCEPT ![t] = Refused(@)]
  <2>1. call[w] = "idle" /\ call' = [call EXCEPT ![w] = "rejected"] /\ UNCHANGED completions
    BY <1>9 DEF Executor!Reject
  <2>2. /\ Handed(t, w, q, "rejected")
        /\ \A u : SameWorks(u, work, call, completions, work', call', completions')
        /\ TaskInv(t, x, LiveTasks, OverTasks, work', call', completions')
    BY <1>7, <2>1
  <2>3. PICK y : y = Refused(x)
    OBVIOUS
  <2>4. taskInfos' = [taskInfos EXCEPT ![t] = y]
    BY <1>9, <2>3
  <2>5. IsRecord(y, LiveTasks) /\ SameHeld(x, y) /\ Inputs(y, LiveTasks) /\ y.stage # "done"
    BY <1>4, <1>5, <2>3, RefuseInputs
  <2>6. TaskInv(t, y, LiveTasks, OverTasks, work', call', completions')
    BY <1>3, <1>4, <2>2, <2>5, Moved
  <2> QED
    BY <1>6, <2>1, <2>2, <2>4, <2>5, <2>6 DEF IsRecord
<1> QED
  BY <1>1, <1>8, <1>9 DEF Submit

\* What is recorded of work w: one more pending action or subtask.
Noted(x, p, w, sid, isAction) ==
  /\ DOMAIN p = Fields /\ p.todo = x.todo /\ p.stage = x.stage /\ p.ids = x.ids
  /\ p.context = x.context /\ p.cached = x.cached /\ p.waitingOn = x.waitingOn
  /\ p.requestedTaskInputs = x.requestedTaskInputs /\ p.requestedBy = x.requestedBy
  /\ p.pendingActions = IF isAction THEN Insert(x.pendingActions, w, [sid |-> sid, result |-> Pending])
                                    ELSE x.pendingActions
  /\ p.pendingSubtasks = IF isAction THEN x.pendingSubtasks ELSE Insert(x.pendingSubtasks, w, Pending)

\* A map with one more key.
OneMore(map, key, value, more) ==
  \A v \in DOMAIN more : \/ v \in DOMAIN map /\ more[v] = map[v]
                         \/ v = key /\ more[v] = value

\* What a map holds when a key has been inserted.
LEMMA InsertedIs ==
  ASSUME NEW map, NEW key, key \notin DOMAIN map, NEW value, NEW more, more = Insert(map, key, value)
  PROVE  OneMore(map, key, value, more)
BY DEF Insert, OneMore

\* submit() of w for t has returned.
Returned(t, w, wk, cl, cm, cl2) ==
  /\ w \in DOMAIN wk /\ wk[w].task = t /\ cl[w] = "calling" /\ cm[w] = 0
  /\ cl2[w] = "accepted" /\ \A v \in DOMAIN wk : v # w => cl2[v] = cl[v]

\* The maps of p hold what those of x hold, and w.
Holding(x, p, w) ==
  /\ w \in DOMAIN p.pendingActions \cup DOMAIN p.pendingSubtasks
  /\ DOMAIN x.pendingActions \subseteq DOMAIN p.pendingActions
  /\ DOMAIN x.pendingSubtasks \subseteq DOMAIN p.pendingSubtasks

\* The work a task holds when it has recorded w, which submit() has accepted.
LEMMA NotedHolds ==
  ASSUME NEW t, NEW x, NEW wk, NEW cl, NEW cm, Holds(t, x, wk, cl, cm),
         NEW w, NEW cl2, Returned(t, w, wk, cl, cm, cl2),
         NEW isAction \in BOOLEAN, isAction <=> wk[w].request.kind = "action",
         NEW sid, IsStableID(sid), NEW p, Noted(x, p, w, sid, isAction), x.stage # "absent"
  PROVE  Holds(t, p, wk, cl2, cm) /\ Holding(x, p, w)
<1>0. /\ w \in DOMAIN wk /\ wk[w].task = t /\ cl[w] = "calling" /\ cm[w] = 0
      /\ cl2[w] = "accepted" /\ \A v \in DOMAIN wk : v # w => cl2[v] = cl[v]
  BY DEF Returned
<1>1. w \notin DOMAIN x.pendingActions /\ w \notin DOMAIN x.pendingSubtasks
  BY <1>0 DEF Holds, Owns
<1>2. PICK e : e = [sid |-> sid, result |-> Pending]
  OBVIOUS
<1>3. DOMAIN e = {"sid", "result"} /\ e.sid = sid /\ e.result = Pending
  BY ONLY <1>2, SMT
<1>4. \A v : Owns(t, v, wk, cl) => Owns(t, v, wk, cl2)
  BY <1>0 DEF Owns
<1>5. Owns(t, w, wk, cl2)
  BY <1>0 DEF Owns
<1>6. \A v \in DOMAIN p.pendingActions :
        \/ v \in DOMAIN x.pendingActions /\ p.pendingActions[v] = x.pendingActions[v]
        \/ v = w /\ isAction /\ p.pendingActions[v] = e
  <2>1. CASE isAction
    <3>1. p.pendingActions = Insert(x.pendingActions, w, e)
      BY <1>2, <2>1 DEF Noted
    <3>2. OneMore(x.pendingActions, w, e, p.pendingActions)
      BY ONLY <1>1, <3>1, InsertedIs, Zenon
    <3> QED
      BY <2>1, <3>2 DEF OneMore
  <2>2. CASE ~isAction
    <3>1. p.pendingActions = x.pendingActions
      BY <2>2 DEF Noted
    <3> QED
      BY <3>1
  <2> QED
    BY <2>1, <2>2
<1>7. \A v \in DOMAIN p.pendingSubtasks :
        \/ v \in DOMAIN x.pendingSubtasks /\ p.pendingSubtasks[v] = x.pendingSubtasks[v]
        \/ v = w /\ ~isAction /\ p.pendingSubtasks[v] = Pending
  <2>1. CASE ~isAction
    <3>1. p.pendingSubtasks = Insert(x.pendingSubtasks, w, Pending)
      BY <2>1 DEF Noted
    <3>2. OneMore(x.pendingSubtasks, w, Pending, p.pendingSubtasks)
      BY ONLY <1>1, <3>1, InsertedIs, Zenon
    <3> QED
      BY <2>1, <3>2 DEF OneMore
  <2>2. CASE isAction
    <3>1. p.pendingSubtasks = x.pendingSubtasks
      BY <2>2 DEF Noted
    <3> QED
      BY <3>1
  <2> QED
    BY <2>1, <2>2
<1>8. ASSUME NEW v \in DOMAIN p.pendingActions
      PROVE  /\ Owns(t, v, wk, cl2) /\ wk[v].request.kind = "action"
             /\ DOMAIN p.pendingActions[v] = {"sid", "result"}
             /\ IsStableID(p.pendingActions[v].sid)
             /\ p.pendingActions[v].result = Pending <=> cm[v] = 0
  <2>1. CASE v = w /\ isAction /\ p.pendingActions[v] = e
    BY <1>0, <1>3, <1>5, <2>1
  <2>2. CASE v \in DOMAIN x.pendingActions /\ p.pendingActions[v] = x.pendingActions[v]
    BY <1>4, <2>2 DEF Holds
  <2> QED
    BY <1>6, <2>1, <2>2
<1>9. ASSUME NEW v \in DOMAIN p.pendingSubtasks
      PROVE  /\ Owns(t, v, wk, cl2) /\ wk[v].request.kind # "action"
             /\ p.pendingSubtasks[v] = Pending <=> cm[v] = 0
  <2>1. CASE v = w /\ ~isAction /\ p.pendingSubtasks[v] = Pending
    BY <1>0, <1>5, <2>1
  <2>2. CASE v \in DOMAIN x.pendingSubtasks /\ p.pendingSubtasks[v] = x.pendingSubtasks[v]
    BY <1>4, <2>2 DEF Holds
  <2> QED
    BY <1>7, <2>1, <2>2
<1>10. p.stage # "absent"
  BY DEF Noted
<1>11. Holds(t, p, wk, cl2, cm)
  BY <1>8, <1>9, <1>10 DEF Holds
<1>12. Holding(x, p, w)
  <2>1. CASE isAction
    BY <2>1 DEF Noted, Insert, Holding
  <2>2. CASE ~isAction
    BY <2>2 DEF Noted, Insert, Holding
  <2> QED
    BY <2>1, <2>2
<1> QED
  BY <1>11, <1>12

\* RecordPending.
LEMMA RecordPendingStep ==
  ASSUME EngineInv, NEW t \in Tasks, RecordPending(t)
  PROVE  EngineInv'
<1> DEFINE x == taskInfos[t]
<1>1. PICK w : w = x.target
  OBVIOUS
<1>2. PICK isAction : isAction = (Request(t).kind = "action")
  OBVIOUS
<1>3. PICK sid : sid = IF isAction THEN StableID(Request(t)) ELSE <<"subtask", w>>
  OBVIOUS
<1>4. PICK p : p = [x EXCEPT
        !.pendingActions =
          IF isAction THEN Insert(@, w, [sid |-> sid, result |-> Pending]) ELSE @,
        !.pendingSubtasks = IF isAction THEN @ ELSE Insert(@, w, Pending),
        !.stableIDMap = Insert(@, sid, w)]
  OBVIOUS
<1>5. PICK y : y = Requested(p, sid)
  OBVIOUS
<1>6. /\ Requesting(t) /\ x.step = "submitted" /\ Executor!Accept(w)
      /\ taskInfos' = [taskInfos EXCEPT ![t] = y] /\ UNCHANGED work /\ UNCHANGED actionCache
  BY <1>1, <1>2, <1>3, <1>4, <1>5 DEF RecordPending, requestVars
<1>7. TaskInv(t, x, LiveTasks, OverTasks, work, call, completions)
  BY DEF EngineInv
<1>8. /\ x.stage \in {"computing", "replaying"} /\ x.todo # << >> /\ Request(t) = Head(x.todo)
  BY <1>6 DEF Requesting, Request
<1>9. /\ Formed(x) /\ DOMAIN x = Fields /\ x.waitingOn = {}
      /\ x.stage = "replaying" => IsSequence(x.cached.ids)
      /\ Inputs(x, LiveTasks) /\ Holds(t, x, work, call, completions)
  BY <1>7, <1>8 DEF TaskInv, Asks, Formed, Waits
<1>10. /\ w \in DOMAIN work /\ work[w] = [task |-> t, request |-> Request(t)] /\ completions[w] = 0
  BY <1>1, <1>6, <1>7, <1>8 DEF TaskInv, Asks
<1>11. work[w].task = t /\ work[w].request = Request(t)
  BY ONLY <1>10, SMT
<1>12. call[w] = "calling" /\ call' = [call EXCEPT ![w] = "accepted"] /\ UNCHANGED completions
  BY <1>6 DEF Executor!Accept
<1>13. WorkInv(taskInfos, work, call, completions)
  BY DEF EngineInv
<1>14. /\ w \in Works /\ call'[w] = "accepted" /\ \A v \in Works : v # w => call'[v] = call[v]
       /\ \A v \in DOMAIN work : v \in Works
       /\ call' \in [Works -> {"idle", "calling", "accepted", "rejected"}]
  BY <1>10, <1>12, <1>13 DEF WorkInv
<1>15. Noted(x, p, w, sid, isAction)
  BY ONLY <1>4, <1>9, SMT DEF Fields, Noted
<1>16. isAction \in BOOLEAN /\ (isAction <=> work[w].request.kind = "action")
  BY <1>2, <1>11
<1>17. IsStableID(sid)
  <2>1. CASE isAction
    <3>1. sid = <<Request(t).kind, Request(t).label>> /\ Request(t).kind = "action"
      BY <1>2, <1>3, <2>1 DEF StableID
    <3> QED
      BY ONLY <3>1, SMT DEF IsStableID
  <2>2. CASE ~isAction
    <3>1. sid = <<"subtask", w>>
      BY <1>3, <2>2
    <3> QED
      BY ONLY <3>1, SMT DEF IsStableID
  <2> QED
    BY <1>16, <2>1, <2>2
<1>18. /\ Holds(t, p, work, call', completions)
       /\ Holding(x, p, w)
  <2>1. x.stage # "absent" /\ Returned(t, w, work, call, completions, call')
    BY <1>8, <1>10, <1>11, <1>12, <1>14 DEF Returned
  <2> QED
    BY ONLY <1>9, <1>15, <1>16, <1>17, <2>1, NotedHolds, Zenon
<1>19. /\ IsRecord(y, LiveTasks) /\ SameHeld(p, y) /\ y.stage = x.stage
       /\ y.requestedTaskInputs = x.requestedTaskInputs /\ y.waitingOn = {} /\ y.requestedBy = x.requestedBy
  <2>1. /\ Formed(p) /\ p.stage \in {"computing", "replaying"} /\ p.todo # << >>
        /\ p.stage = "replaying" => IsSequence(p.cached.ids)
    BY <1>8, <1>9, <1>15 DEF Noted, Formed
  <2>2. /\ IsRecord(y, LiveTasks) /\ SameHeld(p, y) /\ y.stage = p.stage
        /\ y.requestedTaskInputs = p.requestedTaskInputs
    BY ONLY <1>5, <2>1, RequestedIs, SMT
  <2> QED
    BY <1>9, <1>15, <2>2 DEF Noted, SameHeld
<1>20. TaskInv(t, y, LiveTasks, OverTasks, work, call', completions)
  <2>1. Asks(t, y, LiveTasks, work, call', completions)
    BY <1>19 DEF IsRecord, Asks
  <2>2. Inputs(y, LiveTasks)
    BY <1>9, <1>19 DEF Inputs
  <2>3. Holds(t, y, work, call', completions)
    <3>1. y.stage # "absent" /\ y.pendingActions = p.pendingActions /\ y.pendingSubtasks = p.pendingSubtasks
      BY <1>8, <1>19 DEF SameHeld
    <3> QED
      BY ONLY <1>18, <3>1, Zenon DEF Holds
  <2>4. Waits(y, OverTasks) /\ Throws(y, completions)
    BY <1>8, <1>19 DEF Waits, Throws
  <2> QED
    BY <2>1, <2>2, <2>3, <2>4 DEF TaskInv
<1>21. TaskInv(t, y, LiveTasks, OverTasks, work', call', completions')
  BY <1>6, <1>12, <1>20
<1>22. Onward(x, y)
  BY <1>8, <1>9, <1>19 DEF Onward
<1>23. \A u \in Tasks \ {t} : SameWorks(u, work, call, completions, work', call', completions')
  BY <1>6, <1>11, <1>12, <1>14 DEF SameWorks
<1>24. WorkInv(taskInfos', work', call', completions')
  <2>1. taskInfos'[t] = y /\ \A u \in Tasks \ {t} : taskInfos'[u] = taskInfos[u]
    BY <1>6 DEF EngineInv
  <2>2. ASSUME NEW v \in DOMAIN work
        PROVE  /\ v \in Works /\ work[v].task \in Tasks
               /\ call'[v] = "calling" => /\ taskInfos'[work[v].task].step = "submitted"
                                          /\ taskInfos'[work[v].task].target = v
               /\ call'[v] = "accepted" /\ completions[v] = 0 =>
                    v \in DOMAIN taskInfos'[work[v].task].pendingActions
                            \cup DOMAIN taskInfos'[work[v].task].pendingSubtasks
    <3>1. y.pendingActions = p.pendingActions /\ y.pendingSubtasks = p.pendingSubtasks
      BY <1>19 DEF SameHeld
    <3>2. CASE v = w
      BY <1>11, <1>14, <1>18, <2>1, <3>1, <3>2 DEF Holding
    <3>3. CASE v # w
      <4>1. /\ v \in Works /\ work[v].task \in Tasks
            /\ call[v] = "calling" => /\ taskInfos[work[v].task].step = "submitted"
                                      /\ taskInfos[work[v].task].target = v
            /\ call[v] = "accepted" /\ completions[v] = 0 =>
                 v \in DOMAIN taskInfos[work[v].task].pendingActions
                         \cup DOMAIN taskInfos[work[v].task].pendingSubtasks
        BY <1>13 DEF WorkInv
      <4>2. call'[v] = call[v]
        BY <1>14, <3>3, <4>1
      <4>3. CASE work[v].task = t
        BY <1>1, <1>18, <2>1, <3>1, <3>3, <4>1, <4>2, <4>3 DEF Holding
      <4>4. CASE work[v].task # t
        BY <2>1, <4>1, <4>2, <4>4
      <4> QED
        BY <4>3, <4>4
    <3> QED
      BY <3>2, <3>3
  <2>3. \A v \in Works : call'[v] = "idle" => v \notin DOMAIN work /\ completions[v] = 0
    BY <1>13, <1>14 DEF WorkInv
  <2>4. completions \in [Works -> 0 .. 1]
    BY <1>13 DEF WorkInv
  <2>5. WorkInv(taskInfos', work, call', completions)
    BY <1>14, <2>2, <2>3, <2>4 DEF WorkInv
  <2> QED
    BY <1>6, <1>12, <2>5
<1>25. \A id \in y.waitingOn : Owns(t, id, work, call) /\ completions[id] = 0 =>
                                 Owns(t, id, work', call') /\ completions'[id] = 0
  BY <1>19
<1>26. CacheInv'
  BY <1>6, CacheKept
<1> QED
  BY <1>6, <1>21, <1>22, <1>23, <1>24, <1>25, <1>26, OneMoves

\* The map has another value for w, which it holds if it is the one concerned.
SetAt(map, w, new, isIt, map2) ==
  /\ DOMAIN map2 = DOMAIN map /\ \A v \in DOMAIN map : v # w => map2[v] = map[v]
  /\ IF isIt THEN map2[w] = new ELSE map2 = map

\* What changes when the result of w is noted.
ResultNoted(x, z, w, entry, result, isAction) ==
  /\ DOMAIN z = Fields /\ z.todo = x.todo /\ z.stage = x.stage /\ z.ids = x.ids
  /\ z.context = x.context /\ z.cached = x.cached /\ z.step = x.step /\ z.target = x.target
  /\ z.requestedTaskInputs = x.requestedTaskInputs /\ z.stableIDMap = x.stableIDMap
  /\ z.waitingOn = x.waitingOn /\ z.requestedBy = x.requestedBy
  /\ SetAt(x.pendingActions, w, entry, isAction, z.pendingActions)
  /\ SetAt(x.pendingSubtasks, w, result, ~isAction, z.pendingSubtasks)

IsEntry(x, w, entry, result, isAction) ==
  /\ DOMAIN entry = {"sid", "result"} /\ entry.result = result
  /\ isAction => entry.sid = x.pendingActions[w].sid

\* w is in the map for works of its kind.
OnRecord(x, w, wk, isAction) ==
  /\ isAction <=> wk[w].request.kind = "action"
  /\ isAction => w \in DOMAIN x.pendingActions
  /\ ~isAction => w \in DOMAIN x.pendingSubtasks

\* The completion of w is notified.
Completed(w, cm, cm2) == cm2[w] = 1 /\ \A v : v # w => cm2[v] = cm[v]

\* The result of work that is on record is noted.
LEMMA ResultIs ==
  ASSUME NEW t, NEW x, NEW live, NEW over, NEW wk, NEW cl, NEW cm,
         TaskInv(t, x, live, over, wk, cl, cm), NEW w, NEW isAction \in BOOLEAN,
         OnRecord(x, w, wk, isAction), w \notin DOMAIN x.requestedTaskInputs,
         NEW entry, NEW result, IsEntry(x, w, entry, result, isAction),
         result # Pending, NEW cm2, Completed(w, cm, cm2),
         NEW z, ResultNoted(x, z, w, entry, result, isAction)
  PROVE  TaskInv(t, z, live, over, wk, cl, cm2) /\ ~Open(z, w, over)
<1>0. /\ DOMAIN entry = {"sid", "result"} /\ entry.result = result
      /\ isAction => entry.sid = x.pendingActions[w].sid
  BY DEF IsEntry
<1> USE DEF OnRecord
<1>1. cm2[w] = 1 /\ cm2[w] # 0 /\ \A v : v # w => cm2[v] = cm[v]
  BY SMT DEF Completed
<1>2. Holds(t, x, wk, cl, cm) /\ Asks(t, x, live, wk, cl, cm)
  BY DEF TaskInv
<1>3. Owns(t, w, wk, cl)
  BY <1>2 DEF Holds
<1>4. x.step = "submitted" => x.target # w
  BY <1>2, <1>3 DEF Asks, Owns
<1>5. Asks(t, z, live, wk, cl, cm2)
  <2>1. /\ DOMAIN z = Fields /\ z.todo = x.todo /\ z.stage = x.stage /\ z.ids = x.ids
        /\ z.context = x.context /\ z.cached = x.cached /\ z.step = x.step
        /\ z.target = x.target
    BY DEF ResultNoted
  <2>2. Formed(z)
    BY <1>2, <2>1 DEF Asks, Formed
  <2>3. x.step = "submitted" => cm2[x.target] = cm[x.target]
    BY <1>1, <1>4
  <2> HIDE DEF OnRecord
  <2> QED
    BY <1>2, <2>1, <2>2, <2>3 DEF Asks
<1>6. Inputs(z, live)
  BY DEF TaskInv, Inputs, ResultNoted
<1>7. ASSUME NEW v \in DOMAIN z.pendingActions
      PROVE  /\ v \in DOMAIN x.pendingActions
             /\ Owns(t, v, wk, cl) /\ wk[v].request.kind = "action"
             /\ DOMAIN z.pendingActions[v] = {"sid", "result"}
             /\ IsStableID(z.pendingActions[v].sid)
             /\ z.pendingActions[v].result = Pending <=> cm2[v] = 0
             /\ v = w => z.pendingActions[v].result # Pending
             /\ v # w => z.pendingActions[v] = x.pendingActions[v]
  <2>1. /\ v \in DOMAIN x.pendingActions
        /\ v # w => z.pendingActions[v] = x.pendingActions[v]
        /\ isAction => z.pendingActions[w] = entry
    BY DEF ResultNoted, SetAt
  <2>2. /\ Owns(t, v, wk, cl) /\ wk[v].request.kind = "action"
        /\ DOMAIN x.pendingActions[v] = {"sid", "result"}
        /\ IsStableID(x.pendingActions[v].sid)
        /\ x.pendingActions[v].result = Pending <=> cm[v] = 0
    BY <1>2, <2>1 DEF Holds
  <2>3. CASE v # w
    BY <1>1, <2>1, <2>2, <2>3
  <2>4. CASE v = w
    <3>1. isAction
      BY <2>1, <2>2, <2>4
    <3> QED
      BY <1>0, <1>1, <2>1, <2>2, <2>4, <3>1
  <2> QED
    BY <2>3, <2>4
<1>8. ASSUME NEW v \in DOMAIN z.pendingSubtasks
      PROVE  /\ v \in DOMAIN x.pendingSubtasks
             /\ Owns(t, v, wk, cl) /\ wk[v].request.kind # "action"
             /\ z.pendingSubtasks[v] = Pending <=> cm2[v] = 0
             /\ v = w => z.pendingSubtasks[v] # Pending
             /\ v # w => z.pendingSubtasks[v] = x.pendingSubtasks[v]
  <2>1. /\ v \in DOMAIN x.pendingSubtasks
        /\ v # w => z.pendingSubtasks[v] = x.pendingSubtasks[v]
        /\ ~isAction => z.pendingSubtasks[w] = result
    BY DEF ResultNoted, SetAt
  <2>2. /\ Owns(t, v, wk, cl) /\ wk[v].request.kind # "action"
        /\ x.pendingSubtasks[v] = Pending <=> cm[v] = 0
    BY <1>2, <2>1 DEF Holds
  <2>3. CASE v # w
    BY <1>1, <2>1, <2>2, <2>3
  <2>4. CASE v = w
    <3>1. ~isAction
      BY <2>1, <2>2, <2>4
    <3> QED
      BY <1>1, <2>1, <2>2, <2>4, <3>1
  <2> QED
    BY <2>3, <2>4
<1>9. x.stage # "absent"
  <2>1. DOMAIN NoMap = {}
    BY SmallSequences DEF NoMap
  <2> QED
    BY <1>2, <2>1 DEF Holds
<1>10. Holds(t, z, wk, cl, cm2)
  <2>1. z.stage # "absent"
    BY <1>9 DEF ResultNoted
  <2> QED
    BY <1>7, <1>8, <2>1 DEF Holds
<1>11. \A id : Open(z, id, over) => Open(x, id, over)
  <2>1. z.requestedTaskInputs = x.requestedTaskInputs
    BY DEF ResultNoted
  <2> QED
    BY <1>7, <1>8, <2>1 DEF Open
<1>12. Waits(z, over)
  <2>1. /\ z.stage = x.stage /\ z.waitingOn = x.waitingOn /\ z.ids = x.ids
        /\ z.stableIDMap = x.stableIDMap
    BY DEF ResultNoted
  <2>2. WaitIDs(z) = WaitIDs(x)
    BY <2>1 DEF WaitIDs, WaitID
  <2> QED
    BY <1>11, <2>1, <2>2 DEF TaskInv, Waits
<1>13. Throws(z, cm2)
  <2>1. Throws(x, cm)
    BY DEF TaskInv
  <2>2. /\ z.stage = x.stage /\ z.step = x.step /\ z.target = x.target /\ z.ids = x.ids
        /\ z.stableIDMap = x.stableIDMap
    BY DEF ResultNoted
  <2>3. \A i : WaitID(z, i) = WaitID(x, i)
    BY <2>2 DEF WaitID
  <2>4. x.step = "submitted" => cm2[x.target] = cm[x.target]
    BY <1>1, <1>4
  <2> QED
    BY ONLY <2>1, <2>2, <2>3, <2>4, Zenon DEF Throws
<1>14. ~Open(z, w, over)
  <2>1. w \notin DOMAIN z.requestedTaskInputs
    BY DEF ResultNoted
  <2> QED
    BY <1>7, <1>8, <2>1 DEF Open
<1> QED
  BY <1>5, <1>6, <1>10, <1>12, <1>13, <1>14 DEF TaskInv

\* The works when w is done and t has got to z.
LEMMA CompletedWorks ==
  ASSUME EngineInv, NEW w \in DOMAIN work, NEW t, t = work[w].task, completions[w] = 0,
         completions' = [completions EXCEPT ![w] = 1], UNCHANGED call, UNCHANGED work,
         NEW z, taskInfos' = [taskInfos EXCEPT ![t] = z],
         KeepsWork(taskInfos[t], z, completions')
  PROVE  /\ WorkInv(taskInfos', work', call', completions') /\ Completed(w, completions, completions')
         /\ \A u \in Tasks \ {t} : SameWorks(u, work, call, completions, work', call', completions')
<1>1. WorkInv(taskInfos, work, call, completions)
  BY DEF EngineInv
<1>2. w \in Works /\ t \in Tasks /\ completions \in [Works -> 0 .. 1]
  BY <1>1 DEF WorkInv
<1>3. /\ completions'[w] = 1 /\ \A v : v # w => completions'[v] = completions[v]
      /\ completions' \in [Works -> 0 .. 1]
  BY ONLY <1>2, completions' = [completions EXCEPT ![w] = 1], SMT
<1>4. taskInfos'[t] = z /\ \A u \in Tasks \ {t} : taskInfos'[u] = taskInfos[u]
  BY <1>2 DEF EngineInv
<1>5. \A v \in Works : call[v] = "idle" => v \notin DOMAIN work /\ completions'[v] = 0
  BY <1>1, <1>3 DEF WorkInv
<1>6. completions'[w] # 0
  BY ONLY <1>3, SMT
<1>7. ASSUME NEW v \in DOMAIN work
      PROVE  /\ v \in Works /\ work[v].task \in Tasks
             /\ call[v] = "calling" => /\ taskInfos'[work[v].task].step = "submitted"
                                       /\ taskInfos'[work[v].task].target = v
             /\ call[v] = "accepted" /\ completions'[v] = 0 =>
                  v \in DOMAIN taskInfos'[work[v].task].pendingActions
                          \cup DOMAIN taskInfos'[work[v].task].pendingSubtasks
  <2>1. /\ v \in Works /\ work[v].task \in Tasks
        /\ call[v] = "calling" => /\ taskInfos[work[v].task].step = "submitted"
                                  /\ taskInfos[work[v].task].target = v
        /\ call[v] = "accepted" /\ completions[v] = 0 =>
             v \in DOMAIN taskInfos[work[v].task].pendingActions
                     \cup DOMAIN taskInfos[work[v].task].pendingSubtasks
    BY <1>1 DEF WorkInv
  <2>2. completions'[v] = 0 => completions[v] = 0
    BY <1>3, <1>6
  <2>3. CASE work[v].task = t
    BY <1>4, <2>1, <2>2, <2>3 DEF KeepsWork
  <2>4. CASE work[v].task # t
    BY <1>4, <2>1, <2>2, <2>4
  <2> QED
    BY <2>3, <2>4
<1>8. WorkInv(taskInfos', work, call, completions')
  <2>1. call \in [Works -> {"idle", "calling", "accepted", "rejected"}]
    BY <1>1 DEF WorkInv
  <2> QED
    BY <1>3, <1>5, <1>7, <2>1 DEF WorkInv
<1>9. WorkInv(taskInfos', work', call', completions') /\ Completed(w, completions, completions')
  BY <1>3, <1>8 DEF Completed
<1> QED
  BY <1>3, <1>9 DEF SameWorks

\* A completion that overtakes the record of the work.
LEMMA OvertakenIs ==
  ASSUME NEW t, NEW x, NEW live, NEW over, NEW wk, NEW cl, NEW cm,
         TaskInv(t, x, live, over, wk, cl, cm), NEW w, x.step = "submitted", x.target = w,
         w \notin DOMAIN x.pendingActions \cup DOMAIN x.pendingSubtasks,
         NEW cm2, Completed(w, cm, cm2), NEW z, z = [x EXCEPT !.stage = "thrown"]
  PROVE  TaskInv(t, z, live, over, wk, cl, cm2) /\ KeepsWork(x, z, cm2) /\ Onward(x, z)
<1>1. /\ cm2[w] = 1 /\ \A v : v # w => cm2[v] = cm[v]
  BY DEF Completed
<1>2. Holds(t, x, wk, cl, cm) /\ Asks(t, x, live, wk, cl, cm) /\ Waits(x, over) /\ Inputs(x, live)
  BY DEF TaskInv
<1>3. DOMAIN x = Fields /\ x.stage \in {"computing", "replaying", "thrown"} /\ x.waitingOn = {}
  BY <1>2 DEF Asks, Formed, Waits
<1>4. /\ DOMAIN z = Fields /\ z.todo = x.todo /\ z.stage = "thrown" /\ z.ids = x.ids
      /\ z.context = x.context /\ z.step = x.step /\ z.target = x.target
      /\ z.requestedTaskInputs = x.requestedTaskInputs /\ SameHeld(x, z)
  BY ONLY <1>3, z = [x EXCEPT !.stage = "thrown"], SMT DEF Fields, SameHeld
<1>5. Asks(t, z, live, wk, cl, cm2)
  BY <1>2, <1>4 DEF Asks, Formed
<1>6. Inputs(z, live)
  BY <1>2, <1>4 DEF Inputs
<1>7. Holds(t, z, wk, cl, cm2)
  <2>1. z.pendingActions = x.pendingActions /\ z.pendingSubtasks = x.pendingSubtasks
    BY <1>4 DEF SameHeld
  <2>2. \A v \in DOMAIN x.pendingActions \cup DOMAIN x.pendingSubtasks : cm2[v] = cm[v]
    BY <1>1
  <2>3. z.stage # "absent" /\ Holds(t, x, wk, cl, cm)
    BY <1>2, <1>4
  <2> QED
    BY ONLY <2>1, <2>2, <2>3, Zenon DEF Holds
<1>8. Waits(z, over) /\ Throws(z, cm2)
  BY <1>1, <1>3, <1>4 DEF Waits, Throws, SameHeld
<1>9. KeepsWork(x, z, cm2) /\ Onward(x, z)
  BY <1>3, <1>4 DEF KeepsWork, Onward, SameHeld
<1> QED
  BY <1>5, <1>6, <1>7, <1>8, <1>9 DEF TaskInv

\* The result is noted in one of the two maps.
WithResult(x, w, isAction, result) ==
  [x EXCEPT !.pendingActions = IF isAction THEN [@ EXCEPT ![w].result = result] ELSE @,
            !.pendingSubtasks = IF isAction THEN @ ELSE [@ EXCEPT ![w] = result]]

\* What the record then holds.
LEMMA NoteIs ==
  ASSUME NEW x, DOMAIN x = Fields, NEW w, NEW isAction \in BOOLEAN, NEW result,
         isAction => w \in DOMAIN x.pendingActions /\ DOMAIN x.pendingActions[w] = {"sid", "result"},
         ~isAction => w \in DOMAIN x.pendingSubtasks,
         NEW z, z = WithResult(x, w, isAction, result)
  PROVE  \E entry : /\ IsEntry(x, w, entry, result, isAction)
                    /\ ResultNoted(x, z, w, entry, result, isAction)
<1> PICK actions : actions = IF isAction THEN [x.pendingActions EXCEPT ![w].result = result]
                                         ELSE x.pendingActions
  OBVIOUS
<1> PICK subtasks : subtasks = IF isAction THEN x.pendingSubtasks
                                           ELSE [x.pendingSubtasks EXCEPT ![w] = result]
  OBVIOUS
<1>0. z = [x EXCEPT !.pendingActions = actions, !.pendingSubtasks = subtasks]
  BY DEF WithResult
<1>1. PICK entry : entry = IF isAction THEN [x.pendingActions[w] EXCEPT !.result = result]
                                       ELSE [sid |-> "none", result |-> result]
  OBVIOUS
<1>2. /\ DOMAIN entry = {"sid", "result"} /\ entry.result = result
      /\ isAction => entry.sid = x.pendingActions[w].sid
  <2>1. CASE isAction
    <3>1. PICK e : e = x.pendingActions[w]
      OBVIOUS
    <3>2. DOMAIN e = {"sid", "result"} /\ entry = [e EXCEPT !.result = result]
      BY <1>1, <2>1, <3>1
    <3>3. DOMAIN entry = {"sid", "result"} /\ entry.result = result /\ entry.sid = e.sid
      BY ONLY <3>2, SMT
    <3> QED
      BY <3>1, <3>3
  <2>2. CASE ~isAction
    <3>1. entry = [sid |-> "none", result |-> result]
      BY <1>1, <2>2
    <3>2. DOMAIN entry = {"sid", "result"} /\ entry.result = result
      BY ONLY <3>1, SMT
    <3> QED
      BY <2>2, <3>2
  <2> QED
    BY <2>1, <2>2
<1>3. SetAt(x.pendingActions, w, entry, isAction, actions)
  <2>1. CASE isAction
    <3>1. actions = [x.pendingActions EXCEPT ![w] = entry]
      BY <1>1, <2>1
    <3> QED
      BY ONLY <2>1, <3>1, isAction => w \in DOMAIN x.pendingActions /\ DOMAIN x.pendingActions[w] = {"sid", "result"}, Zenon DEF SetAt
  <2>2. CASE ~isAction
    BY <2>2 DEF SetAt
  <2> QED
    BY <2>1, <2>2
<1>4. SetAt(x.pendingSubtasks, w, result, ~isAction, subtasks)
  <2>1. CASE ~isAction
    BY <2>1 DEF SetAt
  <2>2. CASE isAction
    BY <2>2 DEF SetAt
  <2> QED
    BY <2>1, <2>2
<1>5. /\ DOMAIN z = Fields /\ z.todo = x.todo /\ z.stage = x.stage /\ z.ids = x.ids
      /\ z.context = x.context /\ z.cached = x.cached /\ z.step = x.step /\ z.target = x.target
      /\ z.requestedTaskInputs = x.requestedTaskInputs /\ z.stableIDMap = x.stableIDMap
      /\ z.waitingOn = x.waitingOn /\ z.requestedBy = x.requestedBy
      /\ z.pendingActions = actions /\ z.pendingSubtasks = subtasks
  BY ONLY <1>0, DOMAIN x = Fields, SMT DEF Fields
<1>6. ResultNoted(x, z, w, entry, result, isAction)
  BY <1>3, <1>4, <1>5 DEF ResultNoted
<1>7. IsEntry(x, w, entry, result, isAction)
  BY <1>2 DEF IsEntry
<1> QED
  BY <1>6, <1>7

\* A task whose work is done: the result is noted, and the task is woken if it waits
\* for nothing else.
LEMMA WorkDoneIs ==
  ASSUME EngineInv, NEW w \in DOMAIN work, NEW t, t = work[w].task, completions[w] = 0,
         NEW isAction \in BOOLEAN, isAction <=> work[w].request.kind = "action",
         w \in DOMAIN taskInfos[t].pendingActions \cup DOMAIN taskInfos[t].pendingSubtasks,
         NEW result, result # Pending, NEW cm2, Completed(w, completions, cm2),
         NEW z, z = WithResult(taskInfos[t], w, isAction, result),
         NEW y, y = Answered(z, w)
  PROVE  /\ TaskInv(t, y, LiveTasks, OverTasks, work, call, cm2)
         /\ KeepsWork(taskInfos[t], y, cm2) /\ Onward(taskInfos[t], y) /\ w \notin y.waitingOn
<1> DEFINE x == taskInfos[t]
<1>1. t \in Tasks /\ w \in Works
  BY DEF EngineInv, WorkInv
<1>2. TaskInv(t, x, LiveTasks, OverTasks, work, call, completions)
  BY <1>1 DEF EngineInv
<1>3. Holds(t, x, work, call, completions) /\ DOMAIN x = Fields /\ Inputs(x, LiveTasks)
  BY <1>2 DEF TaskInv, Asks, Formed
<1>4. /\ isAction => w \in DOMAIN x.pendingActions /\ DOMAIN x.pendingActions[w] = {"sid", "result"}
      /\ ~isAction => w \in DOMAIN x.pendingSubtasks
  BY <1>3 DEF Holds
<1>5. PICK entry : /\ IsEntry(x, w, entry, result, isAction)
                   /\ ResultNoted(x, z, w, entry, result, isAction)
  BY ONLY isAction \in BOOLEAN, z = WithResult(x, w, isAction, result), <1>3, <1>4, NoteIs, Zenon
<1>6. OnRecord(x, w, work, isAction) /\ w \notin DOMAIN x.requestedTaskInputs
  BY <1>1, <1>3, <1>4, IdsAssumption DEF OnRecord, Inputs, LiveTasks
<1>7. TaskInv(t, z, LiveTasks, OverTasks, work, call, cm2) /\ ~Open(z, w, OverTasks)
  BY ONLY isAction \in BOOLEAN, result # Pending, Completed(w, completions, cm2),
          <1>2, <1>5, <1>6, ResultIs, Zenon
<1>8. TaskInv(t, y, LiveTasks, OverTasks, work, call, cm2) /\ KeepsWork(z, y, cm2) /\ Woken(z, y, w)
  BY ONLY y = Answered(z, w), <1>7, WokenIs, Zenon
<1>9. /\ z.step = x.step /\ z.target = x.target /\ DOMAIN z.pendingActions = DOMAIN x.pendingActions
      /\ DOMAIN z.pendingSubtasks = DOMAIN x.pendingSubtasks /\ z.stage = x.stage
      /\ z.waitingOn = x.waitingOn /\ z.requestedBy = x.requestedBy
  BY <1>5 DEF ResultNoted, SetAt
<1>10. KeepsWork(x, y, cm2)
  BY <1>8, <1>9 DEF KeepsWork
<1>11. Onward(x, y) /\ w \notin y.waitingOn
  BY <1>8, <1>9 DEF Onward, Woken
<1> QED
  BY <1>8, <1>10, <1>11

\* A completion, when the task has got to y.
LEMMA CompletionStep ==
  ASSUME EngineInv, NEW w \in DOMAIN work, NEW t, t = work[w].task, completions[w] = 0,
         completions' = [completions EXCEPT ![w] = 1], UNCHANGED call, UNCHANGED work,
         UNCHANGED actionCache, NEW y, taskInfos' = [taskInfos EXCEPT ![t] = y],
         TaskInv(t, y, LiveTasks, OverTasks, work, call, completions'),
         KeepsWork(taskInfos[t], y, completions'), Onward(taskInfos[t], y), w \notin y.waitingOn
  PROVE  EngineInv'
<1>1. /\ WorkInv(taskInfos', work', call', completions') /\ Completed(w, completions, completions')
      /\ \A u \in Tasks \ {t} : SameWorks(u, work, call, completions, work', call', completions')
  BY CompletedWorks
<1>2. t \in Tasks
  BY DEF EngineInv, WorkInv
<1>3. TaskInv(t, y, LiveTasks, OverTasks, work', call', completions')
  OBVIOUS
<1>4. \A id \in y.waitingOn : Owns(t, id, work, call) /\ completions[id] = 0 =>
                                Owns(t, id, work', call') /\ completions'[id] = 0
  BY <1>1 DEF Completed, Owns
<1>5. CacheInv'
  BY CacheKept
<1> QED
  BY <1>1, <1>2, <1>3, <1>4, <1>5, OneMoves

\* WorkDone.
LEMMA WorkDoneStep ==
  ASSUME EngineInv, NEW w \in DOMAIN work, WorkDone(w)
  PROVE  EngineInv'
<1>1. PICK t : t = work[w].task
  OBVIOUS
<1> DEFINE x == taskInfos[t]
<1>2. PICK isAction : isAction = (work[w].request.kind = "action")
  OBVIOUS
<1>3. PICK result \in IF isAction THEN ActionResults ELSE SubtaskResults :
        taskInfos' = [taskInfos EXCEPT ![t] =
             IF ~(w \in DOMAIN x.pendingActions \cup DOMAIN x.pendingSubtasks)
               THEN [x EXCEPT !.stage = "thrown"]
             ELSE IF x.waitingOn = {w} THEN Unblock(Done(x, w, isAction, result))
             ELSE Done(x, w, isAction, result)]
  BY <1>1, <1>2 DEF WorkDone
<1>4. /\ call[w] \in {"calling", "accepted"} /\ completions[w] = 0 /\ UNCHANGED work
      /\ completions' = [completions EXCEPT ![w] = 1] /\ UNCHANGED call /\ UNCHANGED actionCache
  BY DEF WorkDone, Executor!Complete, requestVars
<1>5. t \in Tasks /\ w \in Works /\ TaskInv(t, x, LiveTasks, OverTasks, work, call, completions)
  BY <1>1 DEF EngineInv, WorkInv
<1>6. Completed(w, completions, completions')
  <2>1. completions \in [Works -> 0 .. 1]
    BY DEF EngineInv, WorkInv
  <2> QED
    BY ONLY <1>4, <1>5, <2>1, SMT DEF Completed
<1>7. CASE w \notin DOMAIN x.pendingActions \cup DOMAIN x.pendingSubtasks
  <2>1. x.step = "submitted" /\ x.target = w
    BY <1>1, <1>4, <1>7 DEF EngineInv, WorkInv
  <2>2. PICK y : y = [x EXCEPT !.stage = "thrown"]
    OBVIOUS
  <2>3. taskInfos' = [taskInfos EXCEPT ![t] = y]
    BY <1>3, <1>7, <2>2
  <2>4. /\ TaskInv(t, y, LiveTasks, OverTasks, work, call, completions')
        /\ KeepsWork(x, y, completions') /\ Onward(x, y)
    <3>1. PICK cm2 : cm2 = completions'
      OBVIOUS
    <3>2. Completed(w, completions, cm2)
      BY <1>6, <3>1
    <3>3. /\ TaskInv(t, y, LiveTasks, OverTasks, work, call, cm2)
          /\ KeepsWork(x, y, cm2) /\ Onward(x, y)
      BY ONLY <1>5, <1>7, <2>1, <2>2, <3>2, OvertakenIs, SMT
    <3> QED
      BY <3>1, <3>3
  <2>5. w \notin y.waitingOn
    BY <1>5, <2>1, <2>4 DEF TaskInv, Asks, Waits, Onward
  <2> QED
    BY <1>1, <1>4, <2>3, <2>4, <2>5, CompletionStep
<1>8. CASE w \in DOMAIN x.pendingActions \cup DOMAIN x.pendingSubtasks
  <2>3. PICK z : z = WithResult(x, w, isAction, result)
    OBVIOUS
  <2>4. PICK y : y = Answered(z, w)
    OBVIOUS
  <2>5. DOMAIN x = Fields
    BY <1>5 DEF TaskInv, Asks, Formed
  <2>6. taskInfos' = [taskInfos EXCEPT ![t] = y]
    <3>1. PICK d : d = Done(x, w, isAction, result)
      OBVIOUS
    <3>2. d = [z EXCEPT !.waitingOn = @ \ {w}]
      BY ONLY <2>3, <3>1, Zenon DEF Done, WithResult
    <3>3. z.waitingOn = x.waitingOn /\ d.waitingOn = x.waitingOn \ {w}
      BY ONLY <2>3, <2>5, <3>2, SMT DEF Fields, WithResult
    <3>4. y = IF x.waitingOn = {w} THEN Unblock(d) ELSE d
      <4>1. (z.waitingOn # {} /\ d.waitingOn = {}) <=> x.waitingOn = {w}
        BY ONLY <3>3, Zenon
      <4> QED
        BY ONLY <2>4, <3>2, <4>1, Zenon DEF Answered
    <3> QED
      BY <1>3, <1>8, <3>1, <3>4
  <2>7. result # Pending
    BY <1>3, IdsAssumption
  <2>8. isAction \in BOOLEAN /\ (isAction <=> work[w].request.kind = "action")
    BY <1>2
  <2>9. /\ TaskInv(t, y, LiveTasks, OverTasks, work, call, completions')
        /\ KeepsWork(x, y, completions') /\ Onward(x, y) /\ w \notin y.waitingOn
    BY ONLY EngineInv, w \in DOMAIN work, <1>1, <1>4, <1>6, <1>8, <2>3, <2>4, <2>7, <2>8,
            WorkDoneIs, Zenon
  <2> QED
    BY <1>1, <1>4, <2>6, <2>9, CompletionStep
<1> QED
  BY <1>7, <1>8

-----------------------------------------------------------------------------
(***************************************************************************)
(* Theorems                                                                *)
(***************************************************************************)
\* A new engine: no task, no work, and whatever the cache holds.
Fresh ==
  /\ taskInfos = [t \in Tasks |-> NewTaskInfo("absent")] /\ work = NoMap
  /\ call = [w \in Works |-> "idle"] /\ completions = [w \in Works |-> 0]

\* A task that is not there.
LEMMA AbsentIs ==
  ASSUME NEW t, NEW x, x = NewTaskInfo("absent"), NEW live, NEW over, NEW wk, NEW cl, NEW cm
  PROVE  TaskInv(t, x, live, over, wk, cl, cm) /\ x.waitingOn = {}
<1>1. /\ DOMAIN x = Fields /\ x.stage = "absent" /\ x.context = 0 /\ x.todo = << >>
      /\ x.step = "check" /\ x.ids = << >> /\ x.requestedTaskInputs = NoMap
      /\ x.pendingActions = NoMap /\ x.pendingSubtasks = NoMap /\ x.waitingOn = {}
  BY ONLY x = NewTaskInfo("absent"), SMT DEF NewTaskInfo, Fields, NoMap
<1>2. DOMAIN NoMap = {} /\ IsSequence(<< >>) /\ DOMAIN << >> = {}
  BY SmallSequences DEF NoMap
<1>3. Formed(x)
  <2>1. 0 \in Nat
    BY SMT
  <2> QED
    BY <1>1, <1>2, <2>1 DEF Formed
<1>4. Asks(t, x, live, wk, cl, cm)
  BY <1>1, <1>3 DEF Asks
<1>5. Inputs(x, live) /\ Holds(t, x, wk, cl, cm)
  BY <1>1, <1>2 DEF Inputs, Holds
<1>6. Waits(x, over) /\ Throws(x, cm)
  BY <1>1 DEF Waits, Throws
<1> QED
  BY <1>1, <1>4, <1>5, <1>6 DEF TaskInv

\* The invariant holds of a new engine.
LEMMA FreshInv ==
  ASSUME Fresh, CacheInv
  PROVE  EngineInv
<1>1. DOMAIN taskInfos = Tasks /\ \A t \in Tasks : taskInfos[t] = NewTaskInfo("absent")
  BY DEF Fresh
<1>2. \A t \in Tasks : /\ TaskInv(t, taskInfos[t], LiveTasks, OverTasks, work, call, completions)
                       /\ taskInfos[t].waitingOn = {}
  BY <1>1, AbsentIs
<1>3. \A t \in Tasks : Wakes(t, taskInfos, work, call, completions)
  BY <1>2 DEF Wakes
<1>4. WorkInv(taskInfos, work, call, completions)
  <2>1. DOMAIN work = {}
    BY SmallSequences DEF Fresh, NoMap
  <2>2. 0 \in 0 .. 1
    BY SMT
  <2>3. call \in [Works -> {"idle", "calling", "accepted", "rejected"}] /\ completions \in [Works -> 0 .. 1]
    BY <2>2 DEF Fresh
  <2>4. \A w \in Works : completions[w] = 0
    BY DEF Fresh
  <2> QED
    BY <2>1, <2>3, <2>4 DEF WorkInv
<1> QED
  BY <1>1, <1>2, <1>3, <1>4 DEF EngineInv

\* Init.
LEMMA InitInv == Init => EngineInv
<1> SUFFICES ASSUME Init PROVE EngineInv
  OBVIOUS
<1>1. Fresh
  BY DEF Init, Fresh, Executor!Init
<1>2. CacheInv
  <2>1. DOMAIN actionCache = {}
    BY SmallSequences DEF Init, NoMap
  <2> QED
    BY <2>1 DEF CacheInv
<1> QED
  BY <1>1, <1>2, FreshInv

\* NewEngine.
LEMMA NewEngineStep ==
  ASSUME EngineInv, NewEngine
  PROVE  EngineInv'
<1>1. Fresh' /\ UNCHANGED actionCache
  BY DEF NewEngine, Fresh
<1>2. CacheInv'
  BY <1>1, CacheKept
<1>3. Fresh' /\ CacheInv' => EngineInv'
  BY FreshInv, PTL
<1> QED
  BY <1>1, <1>2, <1>3

\* Every step keeps the invariant.
LEMMA StepInv == EngineInv /\ [Next]_vars => EngineInv'
<1> SUFFICES ASSUME EngineInv, [Next]_vars PROVE EngineInv'
  OBVIOUS
<1>1. CASE UNCHANGED vars
  <2>1. UNCHANGED <<taskInfos, work, call, completions, actionCache>>
    BY <1>1 DEF vars, executorVars
  <2>2. LiveTasks' = LiveTasks /\ OverTasks' = OverTasks
    BY <2>1 DEF LiveTasks, OverTasks, Live, Over
  <2>3. CacheInv'
    BY <2>1, CacheKept
  <2> QED
    BY <2>1, <2>2, <2>3 DEF EngineInv
<1>2. ASSUME NEW t \in Tasks, StartCompute(t) \/ EndCompute(t) \/ AskCache(t) \/ WakeRequesters(t)
      PROVE  EngineInv'
  BY <1>2, StartComputeStep, EndComputeStep, AskCacheStep, WakeRequestersStep
<1>3. ASSUME NEW t \in Tasks, Requests_(t) \/ Cache(t)
      PROVE  EngineInv'
  BY <1>3, CheckInFlightStep, FindRuleStep, ConstructTaskStep, RecordInputStep, RegisterProviderStep,
     SubmitStep, RecordPendingStep, AskCacheStep, CacheHitStep, EndReplayStep DEF Requests_, Cache
<1>4. ASSUME NEW w \in DOMAIN work, WorkDone(w)
      PROVE  EngineInv'
  BY <1>4, WorkDoneStep
<1>5. CASE Client
  BY <1>5, NewEngineStep, BuildStep DEF Client
<1>6. CASE Progress
  BY <1>2, <1>3, <1>4, <1>6 DEF Progress, Lane
<1> QED
  BY <1>1, <1>5, <1>6 DEF Next

\* The engine keeps its invariant: what a task has asked for, holds and waits for is what
\* the tasks, the works and the executor are there for.
THEOREM EngineKeepsInv == Spec => []EngineInv
<1> QED
  BY InitInv, StepInv, PTL DEF Spec

\* A task that waits is woken, for any rules and scripts: all it waits for is a task that has
\* still to wake its requesters, of whom it is one, or work whose completion the executor owes
\* (processTaskNextState, notifyActionComplete, notifySubtaskComplete and the job that
\* wakes the requesters).
THEOREM NoTaskIsForgotten == Spec => []NoLostWakeup
<1>1. EngineInv => NoLostWakeup
  <2> SUFFICES ASSUME EngineInv, NEW t \in Tasks
               PROVE  /\ (taskInfos[t].stage = "waiting") = (taskInfos[t].waitingOn # {})
                      /\ \A id \in taskInfos[t].waitingOn :
                           \/ /\ id \in Tasks /\ t \in taskInfos[id].requestedBy
                              /\ taskInfos[id].stage \notin {"absent", "done"}
                           \/ /\ id \in DOMAIN work /\ work[id].task = t
                              /\ call[id] = "accepted" /\ completions[id] = 0
    BY DEF NoLostWakeup
  <2>1. taskInfos[t].stage = "waiting" <=> taskInfos[t].waitingOn # {}
    BY DEF EngineInv, TaskInv, Waits
  <2>2. Wakes(t, taskInfos, work, call, completions)
    BY DEF EngineInv
  <2> QED
    BY <2>1, <2>2 DEF Wakes, Owns
<1> QED
  BY <1>1, EngineKeepsInv, PTL

\* at() throws for one of two reasons, for any rules and scripts: the executor reports the completion
\* of work before it is recorded, or a task waits for two artifacts of one task.
THEOREM ExceptionsHaveACause == Spec => []ThrowsOnlyFor
<1>1. EngineInv => ThrowsOnlyFor
  BY DEF EngineInv, TaskInv, Throws, ThrowsOnlyFor
<1> QED
  BY <1>1, EngineKeepsInv, PTL
=============================================================================
