---------------------------- MODULE SQLiteBuildDB ----------------------------
(***************************************************************************)
(* The build database: lib/Core/SQLiteBuildDB.cpp, and how BuildEngine     *)
(* drives it (attachDB, addRule, build).                                   *)
(*                                                                         *)
(* Several processes, each with an engine, share one path.  A file at the  *)
(* path can be deleted or recreated while a process is still connected to  *)
(* it, so files are numbered and a connection names its file.  A build is  *)
(* one exclusive transaction.  The ids that the tables give to keys are    *)
(* cached by the process, beyond the transaction and the connection.       *)
(*                                                                         *)
(* SQLite itself (its locks, its transactions, the NUMERIC affinity of a   *)
(* column declared STRING) is external: MayRead, MayLock, Affinity.        *)
(***************************************************************************)
EXTENDS Integers, Sequences

CONSTANTS
  Keys, NoKey,
  Affinity,       \* key -> the key its text becomes in the column "key STRING"
  Deps,           \* key -> the dependency lists its results may have
  Procs, NoProc,
  MaxID, MaxFiles, MaxBuilds, MaxFaults   \* bounds of the instance

VARIABLES
  files,          \* file -> its committed content
  path, newest,   \* the file at the path, or 0, and the last one created there
  lock,           \* file -> the process whose transaction is open, or NoProc
  tx,             \* file -> the content that transaction sees; if none, files[f]
  conn,           \* process -> the file db is connected to; 0: none; Mismatch
  ready,          \* process -> open() has prepared its statements
  active,         \* process -> its SELECTs that stand on a row
  failed,         \* process -> its SELECTs whose last sqlite3_step failed
  inserted,       \* process -> sqlite3_last_insert_rowid of its connection
  stage,          \* process -> what its engine is doing
  job,            \* process -> the setRuleResult() under way
  dbKeyIDs,       \* process -> key -> its id in key_names, or 0: not known
  engineKeyIDs,   \* process -> id -> key, or NoKey
  epoch,          \* process -> BuildEngineImpl::currentEpoch
  memory,         \* process -> key -> RuleInfo::result, or Unknown: no rule added
  home,           \* process -> the file all it knows is from, or 0: no such file
  overtaken,      \* process -> another one has built since it attached
  broken,         \* process -> the keys for which a call has returned an error
  builds, faults  \* counters, for the bounds

disk == <<files, path, newest, lock, tx>>
connection == <<conn, ready, active, failed, inserted>>
caches == <<dbKeyIDs, engineKeyIDs>>
history == <<home, overtaken, broken>>
vars == <<disk, connection, stage, job, caches, epoch, memory, history,
          builds, faults>>

ASSUME DepsAssumption ==
  \A k \in Keys : Deps[k] \subseteq
     Seq([key : Keys, orderOnly : {0, 1}, singleUse : {0, 1}])
ASSUME AffinityAssumption ==
  Affinity \in [Keys -> Keys] /\ \A k \in Keys : Affinity[Affinity[k]] = Affinity[k]
ASSUME NamesAssumption == NoKey \notin Keys /\ NoProc \notin Procs
ASSUME BoundsAssumption ==
  MaxID \in Nat /\ MaxFiles \in Nat \ {0} /\ MaxBuilds \in Nat

IDs == 0 .. MaxID   \* 0 is the id of no key
NoID == -1
Files == 1 .. MaxFiles
Mismatch == -1   \* closed, in open(), having seen a file to recreate
Stages ==
  {"gone", "attaching", "idle", "adding", "starting", "building", "failing"}

\* A result, as the engine has it and as the tables have it.  Its value stands for
\* the key it is a value of.
NoResult == [value |-> NoKey, builtAt |-> 0, dependencies |-> <<>>]
Unknown == [value |-> NoKey, builtAt |-> -1, dependencies |-> <<>>]

Row(result, raw) == [result EXCEPT !.dependencies = raw]
NoRow == NoResult

NoNames == [id \in IDs |-> NoKey]
NoIDs == [k \in Keys |-> 0]
Empty(current) ==
  [current |-> current, iteration |-> 0, names |-> NoNames, last |-> 0,
   rows |-> [id \in IDs |-> NoRow], mixed |-> FALSE]

NoJob == [key |-> NoKey, result |-> NoResult, id |-> NoID, raw |-> <<>>]

\* (dbKeyID.value << 2) + (singleUse << 1) + orderOnly, and back.
\* Mutants: the flags are written in the wrong order; they are read without a mask.
Encode_Swapped(id, dep) == 4 * id + 2 * dep.orderOnly + dep.singleUse
Decode_NoMask(raw, k) ==
  [key |-> k, orderOnly |-> raw % 2, singleUse |-> raw \div 2]

Encode(id, dep) == 4 * id + 2 * dep.singleUse + dep.orderOnly
Decode(raw, k) ==
  [key |-> k, orderOnly |-> raw % 2, singleUse |-> (raw \div 2) % 2]

Init ==
  /\ \E current \in BOOLEAN :
       files = [f \in Files |-> IF f = 1 THEN Empty(current) ELSE Empty(FALSE)]
  /\ path = 1 /\ newest = 1
  /\ lock = [f \in Files |-> NoProc]
  /\ tx = files
  /\ conn = [p \in Procs |-> 0]
  /\ ready = [p \in Procs |-> FALSE]
  /\ active = [p \in Procs |-> {}]
  /\ failed = [p \in Procs |-> {}]
  /\ inserted = [p \in Procs |-> 0]
  /\ stage = [p \in Procs |-> "gone"]
  /\ job = [p \in Procs |-> NoJob]
  /\ dbKeyIDs = [p \in Procs |-> NoIDs]
  /\ engineKeyIDs = [p \in Procs |-> NoNames]
  /\ epoch = [p \in Procs |-> 0]
  /\ memory = [p \in Procs |-> [k \in Keys |-> Unknown]]
  /\ home = [p \in Procs |-> 0]
  /\ overtaken = [p \in Procs |-> FALSE]
  /\ broken = [p \in Procs |-> {}]
  /\ builds = 0 /\ faults = 0

------------------------------------------------------------------------------
\* SQLite.  A SELECT that stands on a row and is not reset keeps a shared lock.  A
\* statement whose sqlite3_step has failed returns the error once more, from its
\* next sqlite3_reset.

MayRead(p) == lock[conn[p]] \in {NoProc, p}

MayLock(p) ==
  /\ lock[conn[p]] = NoProc
  /\ \A q \in Procs \ {p} : conn[q] = conn[p] => active[q] = {}

Sees(p) == tx[conn[p]]

\* The id of the row of key_names for a key, or 0.
Find(content, k) ==
  IF \E id \in IDs : content.names[id] = Affinity[k]
  THEN CHOOSE id \in IDs : content.names[id] = Affinity[k]
  ELSE 0

\* What happens MaxFaults times at most: a call of SQLite returns an error, a process
\* crashes, a build is cancelled before it starts, the file is removed.
Fault ==
  /\ faults < MaxFaults
  /\ faults' = faults + 1

------------------------------------------------------------------------------
\* A process ends, or starts.

\* Whatever its transaction has written is rolled back, its locks are released.
Die(p) ==
  /\ lock' = [f \in Files |-> IF lock[f] = p THEN NoProc ELSE lock[f]]
  /\ tx' = [f \in Files |-> IF lock[f] = p THEN files[f] ELSE tx[f]]
  /\ conn' = [conn EXCEPT ![p] = 0]
  /\ ready' = [ready EXCEPT ![p] = FALSE]
  /\ active' = [active EXCEPT ![p] = {}]
  /\ failed' = [failed EXCEPT ![p] = {}]
  /\ inserted' = [inserted EXCEPT ![p] = 0]
  /\ stage' = [stage EXCEPT ![p] = "gone"]
  /\ job' = [job EXCEPT ![p] = NoJob]
  /\ dbKeyIDs' = [dbKeyIDs EXCEPT ![p] = NoIDs]
  /\ engineKeyIDs' = [engineKeyIDs EXCEPT ![p] = NoNames]
  /\ epoch' = [epoch EXCEPT ![p] = 0]
  /\ memory' = [memory EXCEPT ![p] = [k \in Keys |-> Unknown]]
  /\ home' = [home EXCEPT ![p] = 0]
  /\ overtaken' = [overtaken EXCEPT ![p] = FALSE]
  /\ broken' = [broken EXCEPT ![p] = {}]
  /\ UNCHANGED <<files, path, newest, builds>>

Exit(p) == stage[p] = "idle" /\ Die(p) /\ UNCHANGED faults
Crash(p) == stage[p] # "gone" /\ Die(p) /\ Fault

NewProcess(p) ==
  /\ stage[p] = "gone" /\ builds < MaxBuilds
  /\ stage' = [stage EXCEPT ![p] = "attaching"]
  /\ UNCHANGED <<disk, connection, job, caches, epoch, memory, history, builds, faults>>

\* Somebody removes the file.
DeleteFile ==
  /\ Fault /\ path # 0 /\ path' = 0
  /\ UNCHANGED <<files, newest, lock, tx, connection, stage, job, caches, epoch,
                 memory, history, builds>>

------------------------------------------------------------------------------
\* open().  It does nothing when db is set, whether or not the statements are.

Opens(p) == conn[p] = 0 /\ stage[p] \in {"attaching", "adding", "starting"}

Connect(p, f) ==
  /\ conn' = [conn EXCEPT ![p] = f]
  /\ home' = [home EXCEPT ![p] = IF @ = f THEN f ELSE 0]

\* The file has the schema we want: the statements are prepared.
OpenExisting(p) ==
  /\ Opens(p) /\ path # 0 /\ lock[path] = NoProc /\ files[path].current
  /\ Connect(p, path)
  /\ ready' = [ready EXCEPT ![p] = TRUE]
  /\ UNCHANGED <<disk, active, failed, inserted, stage, job, caches, epoch, memory,
                 overtaken, broken, builds, faults>>

\* sqlite3_open creates a missing file.  Without our schema it is closed again.
OpenMismatch(p) ==
  /\ Opens(p)
  /\ \/ /\ path # 0 /\ lock[path] = NoProc /\ ~files[path].current
        /\ UNCHANGED <<path, newest>>
     \/ /\ path = 0 /\ newest < MaxFiles
        /\ path' = newest + 1 /\ newest' = newest + 1
  /\ conn' = [conn EXCEPT ![p] = Mismatch]
  /\ UNCHANGED <<files, lock, tx, ready, active, failed, inserted, stage, job, caches,
                 epoch, memory, history, builds, faults>>

\* Whatever file is at the path by now is unlinked.
Recreate(p) ==
  /\ conn[p] = Mismatch /\ path # 0 /\ newest < MaxFiles
  /\ path' = newest + 1 /\ newest' = newest + 1
  /\ files' = [files EXCEPT ![newest + 1] = Empty(TRUE)]
  /\ tx' = [tx EXCEPT ![newest + 1] = Empty(TRUE)]
  /\ Connect(p, newest + 1)
  /\ ready' = [ready EXCEPT ![p] = TRUE]
  /\ UNCHANGED <<lock, active, failed, inserted, stage, job, caches, epoch, memory,
                 overtaken, broken, builds, faults>>

\* Another process builds: db is set, but the file cannot be read.  open() fails, and
\* its caller with it: build() returns, an added rule has no result, and a process
\* that cannot attach gives up.
OpenBusy(p) ==
  /\ Opens(p) /\ path # 0 /\ lock[path] # NoProc
  /\ \/ stage[p] = "attaching" /\ Die(p)
     \/ /\ \/ stage[p] = "starting" /\ UNCHANGED <<memory, broken>>
           \/ /\ stage[p] = "adding"
              /\ \E k \in Keys :
                   /\ memory[p][k] = Unknown
                   /\ memory' = [memory EXCEPT ![p][k] = NoResult]
                   /\ broken' = [broken EXCEPT ![p] = @ \cup {k}]
        /\ stage' = [stage EXCEPT ![p] = "idle"]
        /\ Connect(p, path)
        /\ UNCHANGED <<disk, ready, active, failed, inserted, job, caches, epoch,
                       overtaken, builds>>
  /\ UNCHANGED faults

\* There is nothing to unlink any more.  db stays null, so that creating the tables
\* fails, and the error message is made of an uninitialized pointer.
RecreateMissing(p) == conn[p] = Mismatch /\ path = 0 /\ Die(p) /\ UNCHANGED faults

------------------------------------------------------------------------------
\* attachDB(), buildStarted() and buildComplete().

GetCurrentEpoch(p) ==
  /\ stage[p] = "attaching" /\ conn[p] > 0
  /\ \/ /\ MayRead(p)
        /\ epoch' = [epoch EXCEPT ![p] = files[conn[p]].iteration]
        /\ home' = [home EXCEPT ![p] = conn[p]]
        /\ stage' = [stage EXCEPT ![p] = "idle"]
        /\ UNCHANGED <<disk, connection, job, caches, memory, overtaken, broken, builds>>
     \/ ~MayRead(p) /\ Die(p)
  /\ UNCHANGED faults

Build(p) ==
  /\ stage[p] = "idle" /\ builds < MaxBuilds
  /\ stage' = [stage EXCEPT ![p] = "starting"]
  /\ UNCHANGED <<disk, connection, job, caches, epoch, memory, history, builds, faults>>

\* Mutant: the epoch is not incremented.
BuildStarted_SameEpoch(p) ==
  /\ stage[p] = "starting" /\ conn[p] > 0 /\ MayLock(p)
  /\ lock' = [lock EXCEPT ![conn[p]] = p]
  /\ stage' = [stage EXCEPT ![p] = "building"]
  /\ builds < MaxBuilds /\ builds' = builds + 1
  /\ UNCHANGED <<files, path, newest, tx, connection, job, caches, epoch, memory,
                 history, faults>>

BuildStarted(p) ==
  /\ stage[p] = "starting" /\ conn[p] > 0 /\ MayLock(p)
  /\ lock' = [lock EXCEPT ![conn[p]] = p]
  /\ stage' = [stage EXCEPT ![p] = "building"]
  /\ epoch' = [epoch EXCEPT ![p] = @ + 1]
  /\ builds < MaxBuilds /\ builds' = builds + 1
  /\ UNCHANGED <<files, path, newest, tx, connection, job, caches, memory, history,
                 faults>>

BuildNotStarted(p) ==
  /\ stage[p] = "starting" /\ conn[p] > 0 /\ ~MayLock(p)
  /\ stage' = [stage EXCEPT ![p] = "idle"]
  /\ UNCHANGED <<disk, connection, job, caches, epoch, memory, history, builds, faults>>

Close(p) ==
  /\ conn' = [conn EXCEPT ![p] = 0]
  /\ ready' = [ready EXCEPT ![p] = FALSE]
  /\ active' = [active EXCEPT ![p] = {}]
  /\ failed' = [failed EXCEPT ![p] = {}]
  /\ inserted' = [inserted EXCEPT ![p] = 0]

\* Mutant: build() returns without buildComplete().
BuildRefused_NotCompleted(p) ==
  /\ Fault /\ stage[p] = "starting" /\ conn[p] > 0 /\ MayLock(p)
  /\ stage' = [stage EXCEPT ![p] = "idle"]
  /\ lock' = [lock EXCEPT ![conn[p]] = p]
  /\ UNCHANGED <<files, path, newest, tx, connection, job, caches, epoch, memory,
                 history, builds>>

\* The engine is cancelled before it starts anything: an empty transaction.
BuildRefused(p) ==
  /\ Fault /\ stage[p] = "starting" /\ conn[p] > 0 /\ MayLock(p)
  /\ stage' = [stage EXCEPT ![p] = "idle"]
  /\ Close(p)
  /\ UNCHANGED <<disk, job, caches, epoch, memory, history, builds>>

\* The transaction of p ends, with these contents for its file.
Ends(p, content) ==
  /\ stage[p] \in {"building", "failing"} /\ job[p] = NoJob
  /\ files' = [files EXCEPT ![conn[p]] = content]
  /\ tx' = [tx EXCEPT ![conn[p]] = content]
  /\ lock' = [lock EXCEPT ![conn[p]] = NoProc]
  /\ stage' = [stage EXCEPT ![p] = "idle"]
  /\ Close(p)
  /\ UNCHANGED <<path, newest, job, caches, epoch, memory, broken, builds>>

Overtake(p) ==
  overtaken' = [q \in Procs |-> overtaken[q] \/ (q # p /\ home[q] = conn[p])]

\* Mutant: a build that could not store a result is rolled back.
BuildComplete_RollsBack(p) ==
  /\ Ends(p, IF stage[p] = "failing" THEN files[conn[p]]
             ELSE [Sees(p) EXCEPT !.iteration = epoch[p]])
  /\ Overtake(p)
  /\ UNCHANGED <<home, faults>>

\* setCurrentIteration, then buildComplete.
BuildComplete(p) ==
  /\ Ends(p, [Sees(p) EXCEPT !.iteration = epoch[p]])
  /\ Overtake(p)
  /\ UNCHANGED <<home, faults>>

IterationNotStored(p) ==
  /\ Fault
  /\ Ends(p, Sees(p))
  /\ Overtake(p)
  /\ UNCHANGED home

\* END fails, which only an assertion notices: close() rolls back, and the ids that
\* the transaction gave are still cached.
CommitFails(p) ==
  /\ Fault
  /\ Ends(p, files[conn[p]])
  /\ home' = [home EXCEPT ![p] = 0]
  /\ UNCHANGED overtaken

------------------------------------------------------------------------------
\* lookupRuleResult(), when a rule is added: in a build, or before it.

\* Before a build, a connection may have to be opened first.
AddRule(p) ==
  /\ stage[p] = "idle" /\ conn[p] = 0 /\ \E k \in Keys : memory[p][k] = Unknown
  /\ stage' = [stage EXCEPT ![p] = "adding"]
  /\ UNCHANGED <<disk, connection, job, caches, epoch, memory, history, builds, faults>>

RuleOpened(p) ==
  /\ stage[p] = "adding" /\ conn[p] > 0
  /\ stage' = [stage EXCEPT ![p] = "idle"]
  /\ UNCHANGED <<disk, connection, job, caches, epoch, memory, history, builds, faults>>

Adds(p, k) ==
  /\ stage[p] \in {"idle", "building"} /\ conn[p] > 0 /\ job[p] = NoJob
  /\ memory[p][k] = Unknown

Cached(p, k) == dbKeyIDs[p][k] # 0
IDOf(p, k) == IF Cached(p, k) THEN dbKeyIDs[p][k] ELSE Find(Sees(p), k)
RowOf(p, k) == IF IDOf(p, k) = 0 THEN NoRow ELSE Sees(p).rows[IDOf(p, k)]
RawID(p, k, n) == RowOf(p, k).dependencies[n] \div 4

\* The caches after the row of k has been found, by its id or by its key.
EngineKeyIDs(p, k) ==
  IF Cached(p, k) THEN engineKeyIDs[p]
  ELSE [engineKeyIDs[p] EXCEPT ![IDOf(p, k)] = k]
DBKeyIDs(p, k) == [dbKeyIDs[p] EXCEPT ![k] = IDOf(p, k)]

\* getKeyIDForID(), from the cache or from key_names.
KeyForID(p, k, id) ==
  IF EngineKeyIDs(p, k)[id] # NoKey THEN EngineKeyIDs(p, k)[id] ELSE Sees(p).names[id]

\* The ids that key_names is asked for, among the first n dependencies.
Learnt(p, k, n) ==
  {id \in {RawID(p, k, m) : m \in 1 .. n} : EngineKeyIDs(p, k)[id] = NoKey}

\* The n-th dependency can be decoded: key_names has its id, or the cache.
Decodes(p, k, n) == KeyForID(p, k, RawID(p, k, n)) # NoKey
Last(p, k) == Len(RowOf(p, k).dependencies)

Statement(p, k) == IF Cached(p, k) THEN "fastFindRuleResult" ELSE "findRuleResult"

\* The lookup of k comes to a row.
Found(p, k) ==
  /\ Adds(p, k) /\ ready[p] /\ MayRead(p)
  /\ Statement(p, k) \notin failed[p] /\ RowOf(p, k) # NoRow

\* The row of k is read, and its first n dependencies are decoded; the others are
\* there, as zeroes.
Reads(p, k, n) ==
  LET row == RowOf(p, k)
      learnt == Learnt(p, k, n)
      dependency(m) ==
        IF m <= n THEN Decode(row.dependencies[m], KeyForID(p, k, RawID(p, k, m)))
        ELSE [key |-> NoKey, orderOnly |-> 0, singleUse |-> 0]
  IN  /\ "findKeyNameForKeyID" \in failed[p] => learnt = {}
      /\ \A m \in 1 .. n : Decodes(p, k, m)
      /\ memory' = [memory EXCEPT ![p][k] =
                      Row(row, [m \in DOMAIN row.dependencies |-> dependency(m)])]
      /\ engineKeyIDs' = [engineKeyIDs EXCEPT ![p] = [id \in IDs |->
           IF id \in learnt THEN Sees(p).names[id] ELSE EngineKeyIDs(p, k)[id]]]
      /\ dbKeyIDs' = [dbKeyIDs EXCEPT ![p] = [j \in Keys |->
           IF \E id \in learnt : Sees(p).names[id] = j
           THEN CHOOSE id \in learnt : Sees(p).names[id] = j
           ELSE DBKeyIDs(p, k)[j]]]
      /\ UNCHANGED <<disk, conn, ready, inserted, stage, job, epoch, home, overtaken,
                     builds>>

\* These statements stand on a row from now on, and those do not.  It matters
\* outside a transaction, where the shared lock is all that a process has.
Stand(p, on, off) ==
  active' = IF lock[conn[p]] = p THEN active
            ELSE [active EXCEPT ![p] = (@ \ off) \cup on]

LookupFinds(p, k) ==
  /\ Found(p, k)
  /\ Reads(p, k, Last(p, k))
  /\ Stand(p, {Statement(p, k)} \cup
              IF Learnt(p, k, Last(p, k)) = {} THEN {} ELSE {"findKeyNameForKeyID"}, {})
  /\ UNCHANGED <<failed, broken, faults>>

LookupFindsNone(p, k) ==
  /\ Adds(p, k) /\ ready[p] /\ MayRead(p)
  /\ Statement(p, k) \notin failed[p] /\ RowOf(p, k) = NoRow
  /\ memory' = [memory EXCEPT ![p][k] = NoResult]
  /\ active' = [active EXCEPT ![p] = @ \ {Statement(p, k)}]
  /\ UNCHANGED <<disk, conn, ready, failed, inserted, stage, job, caches, epoch, history,
                 builds, faults>>

\* The error of a lookup cancels the build; the rule is there, with the part of a
\* result that was read.
Breaks(p, k) == broken' = [broken EXCEPT ![p] = @ \cup {k}]

LookupFails(p, k) ==
  /\ Adds(p, k) /\ Breaks(p, k)
  /\ memory' = [memory EXCEPT ![p][k] = NoResult]
  /\ UNCHANGED <<disk, conn, ready, inserted, stage, job, caches, epoch, home, overtaken,
                 builds>>

\* sqlite3_step fails, since another process builds or for no such reason.
LookupFault(p, k) ==
  /\ ready[p] /\ Statement(p, k) \notin failed[p] /\ LookupFails(p, k)
  /\ IF MayRead(p) THEN Fault ELSE UNCHANGED faults
  /\ failed' = [failed EXCEPT ![p] = @ \cup {Statement(p, k)}]
  /\ active' = [active EXCEPT ![p] = @ \ {Statement(p, k)}]

\* sqlite3_reset returns the error of the lookup before.
LookupResets(p, k) ==
  /\ ready[p] /\ Statement(p, k) \in failed[p] /\ LookupFails(p, k)
  /\ failed' = [failed EXCEPT ![p] = @ \ {Statement(p, k)}]
  /\ UNCHANGED <<active, faults>>

\* After n dependencies, an id that is not cached is not found: its statement has
\* failed before, the tables do not have it, or SQLite fails.
LookupStops(p, k) ==
  LET name == "findKeyNameForKeyID"
  IN  /\ Found(p, k)
      /\ \E n \in 0 .. Last(p, k) - 1 :
           /\ Reads(p, k, n)
           /\ RawID(p, k, n + 1) \in Learnt(p, k, n + 1) \ Learnt(p, k, n)
           /\ \/ /\ name \in failed[p] \/ ~Decodes(p, k, n + 1)
                 /\ failed' = [failed EXCEPT ![p] = @ \ {name}]
                 /\ UNCHANGED faults
              \/ /\ name \notin failed[p] /\ Fault
                 /\ failed' = [failed EXCEPT ![p] = @ \cup {name}]
      /\ Stand(p, {Statement(p, k)}, {name})
      /\ Breaks(p, k)

------------------------------------------------------------------------------
\* setRuleResult(), when a task is finished.  The rule has its result already.

SetRuleResult(p, k, deps) ==
  LET result == [value |-> k, builtAt |-> epoch[p], dependencies |-> deps]
  IN  /\ stage[p] = "building" /\ job[p] = NoJob
      /\ memory[p][k] # Unknown /\ memory[p][k].builtAt # epoch[p]
      /\ memory' = [memory EXCEPT ![p][k] = result]
      /\ job' = [job EXCEPT ![p] = [NoJob EXCEPT !.key = k, !.result = result]]
      /\ UNCHANGED <<disk, connection, stage, caches, epoch, history, builds, faults>>

\* The key whose id is needed next: the key of the rule, then its dependencies.
Wanted(p) ==
  IF job[p].id = NoID THEN job[p].key
  ELSE job[p].result.dependencies[Len(job[p].raw) + 1].key

\* setRuleResult() calls getKeyID().
WantsID(p) ==
  /\ job[p] # NoJob /\ ready[p]
  /\ job[p].id = NoID \/ Len(job[p].raw) < Len(job[p].result.dependencies)

\* setRuleResult() gets this id.  getKeyID() caches it, unless it is 0.
Takes(p, id) ==
  LET k == Wanted(p)
  IN  /\ job' = [job EXCEPT ![p] =
           IF @.id = NoID THEN [@ EXCEPT !.id = id]
           ELSE [@ EXCEPT !.raw = Append(job[p].raw, Encode(id,
                            job[p].result.dependencies[Len(job[p].raw) + 1]))]]
      /\ dbKeyIDs' = IF id = 0 THEN dbKeyIDs ELSE [dbKeyIDs EXCEPT ![p][k] = id]
      /\ engineKeyIDs' = IF Cached(p, k) \/ id = 0 THEN engineKeyIDs
                         ELSE [engineKeyIDs EXCEPT ![p][id] = k]
      /\ UNCHANGED <<files, path, newest, lock, conn, ready, active, stage, epoch, memory,
                     overtaken, broken, builds>>

\* INSERT OR IGNORE: a row of key_names, unless there is one for the key.  The id is
\* that of the row the connection has inserted last, whichever that is.
IsNew(p) == Find(Sees(p), Wanted(p)) = 0
LastRowID(p) == IF IsNew(p) THEN Sees(p).last + 1 ELSE inserted[p]

InsertIntoKeys(p) ==
  LET id == LastRowID(p)
  IN  /\ id \in IDs /\ Takes(p, id)
      /\ tx' = IF ~IsNew(p) THEN tx
               ELSE [tx EXCEPT ![conn[p]].names[id] = Affinity[Wanted(p)],
                               ![conn[p]].last = id]
      /\ inserted' = [inserted EXCEPT ![p] = id]

\* getKeyID(): from the cache, from key_names, or a new row of key_names.
GetKeyID(p) ==
  LET id == IDOf(p, Wanted(p))
  IN  /\ WantsID(p)
      /\ Cached(p, Wanted(p)) \/ "findKeyIDForKey" \notin failed[p]
      /\ \/ id # 0 /\ Takes(p, id) /\ UNCHANGED <<tx, inserted>>
         \/ id = 0 /\ InsertIntoKeys(p)
      /\ UNCHANGED <<failed, home, faults>>

\* The search of key_names fails, which getKeyIDFromDB() takes for a key that is not
\* there.  For one that is, the id is another row's.
FindFails(p) ==
  /\ Fault /\ WantsID(p)
  /\ ~Cached(p, Wanted(p)) /\ "findKeyIDForKey" \notin failed[p]
  /\ InsertIntoKeys(p)
  /\ failed' = [failed EXCEPT ![p] = @ \cup {"findKeyIDForKey"}]
  /\ home' = [home EXCEPT ![p] =
       IF tx'[conn[p]].names[LastRowID(p)] = Affinity[Wanted(p)] THEN @ ELSE 0]

\* Mutant: the row is filed under the id that was given last.
StoreRow_LastID(p) ==
  /\ job[p] # NoJob /\ ready[p]
  /\ job[p].id # NoID /\ Len(job[p].raw) = Len(job[p].result.dependencies)
  /\ tx' = [tx EXCEPT ![conn[p]].rows[Sees(p).last] = Row(job[p].result, job[p].raw),
                      ![conn[p]].mixed = @ \/ home[p] = 0]
  /\ inserted' = [inserted EXCEPT ![p] = Sees(p).last]
  /\ job' = [job EXCEPT ![p] = NoJob]
  /\ UNCHANGED <<files, path, newest, lock, conn, ready, active, failed, stage, caches,
                 epoch, memory, history, builds, faults>>

\* A row written with ids of another file or another key spoils the file (a history
\* variable).
StoreRow(p) ==
  /\ job[p] # NoJob /\ ready[p]
  /\ job[p].id # NoID /\ Len(job[p].raw) = Len(job[p].result.dependencies)
  /\ tx' = [tx EXCEPT ![conn[p]].rows[job[p].id] = Row(job[p].result, job[p].raw),
                      ![conn[p]].mixed = @ \/ home[p] = 0]
  /\ inserted' = [inserted EXCEPT ![p] = job[p].id]
  /\ job' = [job EXCEPT ![p] = NoJob]
  /\ UNCHANGED <<files, path, newest, lock, conn, ready, active, failed, stage, caches,
                 epoch, memory, history, builds, faults>>

\* The engine cancels the remaining tasks.
StoreFails(p) ==
  /\ job[p] # NoJob
  /\ broken' = [broken EXCEPT ![p] = @ \cup {job[p].key}]
  /\ stage' = [stage EXCEPT ![p] = "failing"]
  /\ job' = [job EXCEPT ![p] = NoJob]
  /\ UNCHANGED <<disk, connection, caches, epoch, memory, home, overtaken, builds>>

\* An INSERT fails.  The statements are not used again before close().
StoreFault(p) == ready[p] /\ StoreFails(p) /\ Fault

\* sqlite3_reset returns the error of the search before.
FindResets(p) ==
  /\ WantsID(p)
  /\ ~Cached(p, Wanted(p)) /\ "findKeyIDForKey" \in failed[p]
  /\ StoreFails(p) /\ UNCHANGED faults

\* A null statement: SQLite dereferences it, or reports its misuse.
NotPrepared(p) ==
  /\ conn[p] > 0 /\ ~ready[p]
  /\ \/ (\E k \in Keys : Adds(p, k)) /\ Die(p)
     \/ (\E k \in Keys : LookupFails(p, k)) /\ UNCHANGED <<active, failed>>
     \/ job[p] # NoJob /\ Die(p)
     \/ StoreFails(p)
  /\ UNCHANGED faults

------------------------------------------------------------------------------
Step(p) ==
  \/ Exit(p) \/ Crash(p) \/ NewProcess(p)
  \/ OpenExisting(p) \/ OpenMismatch(p) \/ Recreate(p) \/ OpenBusy(p) \/ RecreateMissing(p)
  \/ GetCurrentEpoch(p) \/ Build(p) \/ BuildStarted(p) \/ BuildNotStarted(p)
  \/ BuildRefused(p) \/ BuildComplete(p) \/ IterationNotStored(p) \/ CommitFails(p)
  \/ AddRule(p) \/ RuleOpened(p)
  \/ \E k \in Keys : \/ LookupFinds(p, k) \/ LookupFindsNone(p, k) \/ LookupFault(p, k)
                     \/ LookupResets(p, k) \/ LookupStops(p, k)
                     \/ \E deps \in Deps[k] : SetRuleResult(p, k, deps)
  \/ GetKeyID(p) \/ FindFails(p) \/ FindResets(p)
  \/ StoreRow(p) \/ StoreFault(p) \/ NotPrepared(p)

Next == DeleteFile \/ \E p \in Procs : Step(p)

Spec == Init /\ [][Next]_vars

------------------------------------------------------------------------------
Dependency == [key : Keys \cup {NoKey}, orderOnly : {0, 1}, singleUse : {0, 1}]
Result == [value : Keys \cup {NoKey}, builtAt : Int, dependencies : Seq(Dependency)]
TableRow == [value : Keys \cup {NoKey}, builtAt : Int, dependencies : Seq(Nat)]
Content ==
  [current : BOOLEAN, iteration : Nat, names : [IDs -> Keys \cup {NoKey}],
   last : IDs, rows : [IDs -> TableRow], mixed : BOOLEAN]

\* The type invariant.
TypeOK ==
  /\ files \in [Files -> Content] /\ tx \in [Files -> Content]
  /\ path \in 0 .. MaxFiles /\ newest \in Files
  /\ lock \in [Files -> Procs \cup {NoProc}]
  /\ conn \in [Procs -> -1 .. MaxFiles] /\ ready \in [Procs -> BOOLEAN]
  /\ inserted \in [Procs -> IDs]
  /\ stage \in [Procs -> Stages]
  /\ dbKeyIDs \in [Procs -> [Keys -> IDs]]
  /\ engineKeyIDs \in [Procs -> [IDs -> Keys \cup {NoKey}]]
  /\ epoch \in [Procs -> Nat]
  /\ memory \in [Procs -> [Keys -> Result]]
  /\ home \in [Procs -> 0 .. MaxFiles]

\* What the tables say of a key: the join of lookupRuleResult, decoded by the tables.
View(content, k) ==
  LET id == Find(content, k)
      row == content.rows[id]
  IN  IF id = 0 \/ row = NoRow THEN NoResult
      ELSE Row(row, [n \in DOMAIN row.dependencies |->
                       Decode(row.dependencies[n],
                              content.names[row.dependencies[n] \div 4])])

\* A process whose memory and ids are of the file it is connected to.
AtHome(p) == conn[p] > 0 /\ home[p] # 0

\* The ids that a process has cached are the ids of its keys, in the file they are from:
\* while it builds, after it, and whatever other processes and crashes do in between
\* (given up when the file is replaced, a commit fails, or a search for a key fails and
\* another key's id is taken for its own).
CachedIDsAreRight ==
  \A p \in Procs : home[p] # 0 =>
    LET names == IF lock[home[p]] = p THEN tx[home[p]].names ELSE files[home[p]].names
    IN  /\ \A k \in Keys : dbKeyIDs[p][k] # 0 => names[dbKeyIDs[p][k]] = Affinity[k]
        /\ \A id \in IDs : engineKeyIDs[p][id] # NoKey =>
                            names[id] = Affinity[engineKeyIDs[p][id]]

OwnRows(content) ==
  \A id \in IDs : content.rows[id] # NoRow =>
    /\ content.names[id] = Affinity[content.rows[id].value]
    /\ \A n \in DOMAIN content.rows[id].dependencies :
         content.names[content.rows[id].dependencies[n] \div 4] # NoKey

\* Every row is the result of the key it is filed under, and every dependency in it
\* is the id of a key (unless a process wrote it whose ids are given up as above).
RowsAreOwn ==
  \A f \in Files : /\ files[f].mixed \/ OwnRows(files[f])
                   /\ tx[f].mixed \/ OwnRows(tx[f])

\* While a process builds, the results it has in memory are the ones in the database,
\* with the same dependencies in the same order: whoever wrote them and whenever they
\* were read, as long as no other process has built since it attached (given up for a
\* process and for a file as above, and for a rule whose lookup or storing failed).
MemoryIsStore ==
  \A p \in Procs : stage[p] = "building" /\ AtHome(p) /\ ~overtaken[p] =>
    \A k \in Keys : memory[p][k] # Unknown /\ k \notin broken[p] /\ k # job[p].key
      => tx[conn[p]].mixed \/ memory[p][k] = View(tx[conn[p]], k)

\* A build has an epoch of its own, larger than that of any build in the file, as long
\* as no other process has built since its process attached.
EpochIsNew ==
  \A p \in Procs : stage[p] = "building" /\ AtHome(p) /\ ~overtaken[p] =>
    files[conn[p]].iteration < epoch[p]

\* Only a build in progress keeps a file locked against the others.
LocksAreReleased ==
  \A f \in Files : lock[f] # NoProc =>
    conn[lock[f]] = f /\ stage[lock[f]] \in {"building", "failing"}

\* A connection that open() left behind can be used.
OpenIsReady == \A p \in Procs : conn[p] > 0 => ready[p]

\* "return a DBKeyID for the given engine KeyID": when key_names is searched for the
\* key of a rule and no error is reported, the id is that of a row with the key.
IDIsOfItsKey ==
  [][\A p \in Procs :
       job[p].id = NoID /\ job'[p].id # NoID /\ ~Cached(p, job[p].key)
       => tx'[conn[p]].names[job'[p].id] = Affinity[job[p].key]]_vars
==============================================================================
