------------------------- MODULE SQLiteBuildDBProofs -------------------------
(***************************************************************************)
(* Proofs about the build database, for any number of processes, keys and  *)
(* files: the lock of a file is held by a build in progress, the cached    *)
(* ids are right, a row belongs to its key, and what a build has in        *)
(* memory is what the database says.                                       *)
(*                                                                         *)
(* None of the four is inductive.  What they rest on is that the ids that  *)
(* key_names gives never change: a transaction only adds to the names of   *)
(* its file, beyond the last id, and a process that does not build knows   *)
(* committed names only.  The memory needs more: the process to be fresh   *)
(* until it is attached, a result under way to decode to what it encodes,  *)
(* and no two ids for a key, which holds where the database keeps the      *)
(* texts of the keys as they are.                                          *)
(***************************************************************************)
EXTENDS SQLiteBuildDB, TLAPS

\* The numbers in the dependencies column: an id in IDs, and two flags.
Raws == {raw \in Nat : raw \div 4 \in IDs}
KeyFlags == [key : Keys, orderOnly : {0, 1}, singleUse : {0, 1}]

StoredRow == {NoRow} \cup [value : Keys, builtAt : Int, dependencies : Seq(Raws)]
Stored ==
  [current : BOOLEAN, iteration : Nat, names : [IDs -> Keys \cup {NoKey}],
   last : IDs, rows : [IDs -> StoredRow], mixed : BOOLEAN]
Job ==
  [key : Keys \cup {NoKey},
   result : [value : Keys \cup {NoKey}, builtAt : Int, dependencies : Seq(KeyFlags)],
   id : IDs \cup {NoID}, raw : Seq(Raws)]

Types ==
  /\ files \in [Files -> Stored] /\ tx \in [Files -> Stored]
  /\ newest \in Files /\ path \in 0 .. newest
  /\ lock \in [Files -> Procs \cup {NoProc}]
  /\ conn \in [Procs -> Int] /\ \A p \in Procs : conn[p] \in -1 .. newest
  /\ stage \in [Procs -> Stages]
  /\ job \in [Procs -> Job]
  /\ dbKeyIDs \in [Procs -> [Keys -> IDs]]
  /\ engineKeyIDs \in [Procs -> [IDs -> Keys \cup {NoKey}]]
  /\ epoch \in [Procs -> Nat]
  /\ home \in [Procs -> Int] /\ \A p \in Procs : home[p] \in 0 .. newest

Builds(p) == stage[p] \in {"building", "failing"}

\* A file is locked by the process that builds on it, and otherwise nothing is
\* written to it.
Locks ==
  /\ \A f \in Files : lock[f] # NoProc => conn[lock[f]] = f /\ Builds(lock[f])
  /\ \A p \in Procs : Builds(p) => conn[p] > 0 /\ lock[conn[p]] = p
  /\ \A f \in Files : lock[f] = NoProc => tx[f] = files[f]

\* The names of a file: none for 0 or beyond the last id, texts as the column keeps them.
WellNamed(content) ==
  /\ content.names[0] = NoKey
  /\ \A id \in IDs : content.names[id] # NoKey =>
       id <= content.last /\ Affinity[content.names[id]] = content.names[id]

Names ==
  \A f \in Files :
    /\ WellNamed(files[f]) /\ WellNamed(tx[f])
    /\ \A id \in IDs : files[f].names[id] # NoKey => tx[f].names[id] = files[f].names[id]

\* What a process knows is from the one file it has been connected to.
Homes ==
  \A p \in Procs :
    /\ home[p] # 0 => conn[p] \in {0, Mismatch, home[p]}
    /\ stage[p] \in {"gone", "attaching"} =>
         home[p] = 0 /\ dbKeyIDs[p] = NoIDs /\ engineKeyIDs[p] = NoNames

\* The ids of a result under way.
Jobs ==
  \A p \in Procs : job[p] # NoJob =>
    /\ stage[p] = "building" /\ job[p].key \in Keys
    /\ job[p].result.value = job[p].key
    /\ home[p] # 0 =>
         /\ job[p].id # NoID => tx[conn[p]].names[job[p].id] = Affinity[job[p].key]
         /\ \A n \in DOMAIN job[p].raw :
              tx[conn[p]].names[job[p].raw[n] \div 4] # NoKey

Inv == Types /\ Locks /\ Names /\ Homes /\ CachedIDsAreRight /\ Jobs /\ RowsAreOwn

USE DEF Files, IDs
------------------------------------------------------------------------------
\* The encoding of a dependency keeps its id.
LEMMA EncodeKeepsID ==
  ASSUME NEW id \in IDs, NEW dep \in KeyFlags
  PROVE  Encode(id, dep) \in Raws /\ Encode(id, dep) \div 4 = id
<1>1. dep.singleUse \in {0, 1} /\ dep.orderOnly \in {0, 1}
  BY Zenon DEF KeyFlags
<1>2. Encode(id, dep) \in Nat /\ Encode(id, dep) \div 4 = id
  BY <1>1, BoundsAssumption DEF Encode
<1> QED
  BY <1>2, Zenon DEF Raws

\* 0, the id of no key, is in the range of the columns.
LEMMA ZeroIsID == 0 \in IDs
BY BoundsAssumption

\* A file is not 0, no file, nor Mismatch.
LEMMA FileIs ==
  ASSUME NEW f \in Files
  PROVE  f > 0
BY BoundsAssumption

\* An element of a sequence is of its type.
LEMMA Element ==
  ASSUME NEW S, NEW q \in Seq(S), NEW n \in DOMAIN q
  PROVE  q[n] \in S
OBVIOUS

\* A sequence with one more element.
LEMMA OneMore ==
  ASSUME NEW S, NEW q \in Seq(S), NEW x \in S
  PROVE  Append(q, x) \in Seq(S)
OBVIOUS

\* No result under way is a value of its type.
LEMMA NoJobIsJob == NoJob \in Job /\ NoJob.id = NoID /\ NoJob.raw = <<>>
BY BoundsAssumption DEF NoJob, NoResult, Job

\* The database starts right.
LEMMA InitInv == Init => Inv
<1> SUFFICES ASSUME Init PROVE Inv
  BY Zenon
<1>0. NoRow \in StoredRow /\ \A c \in BOOLEAN : Empty(c) \in Stored
  BY BoundsAssumption DEF NoResult, StoredRow, Stored, Empty, NoNames, NoRow
<1>1. Types
  <2>1. files \in [Files -> Stored] /\ tx \in [Files -> Stored]
    BY <1>0, Zenon DEF Init
  <2>2. NoJob \in Job
    BY NoJobIsJob, Zenon
  <2>3. newest \in Files /\ path \in 0 .. newest /\ lock \in [Files -> Procs \cup {NoProc}]
    BY BoundsAssumption DEF Init
  <2>4. conn \in [Procs -> Int] /\ home \in [Procs -> Int] /\ epoch \in [Procs -> Nat]
    BY DEF Init
  <2>5. \A p \in Procs : conn[p] \in -1 .. newest /\ home[p] \in 0 .. newest
    BY DEF Init
  <2>6. stage \in [Procs -> Stages] /\ job \in [Procs -> Job]
    BY <2>2, Zenon DEF Init, Stages
  <2>7. /\ dbKeyIDs \in [Procs -> [Keys -> IDs]]
        /\ engineKeyIDs \in [Procs -> [IDs -> Keys \cup {NoKey}]]
    BY BoundsAssumption DEF Init, NoIDs, NoNames
  <2> QED
    BY <2>1, <2>3, <2>4, <2>5, <2>6, <2>7, Zenon DEF Types
<1>2. Locks
  BY Zenon DEF Init, Locks, Builds
<1>3. Names
  BY BoundsAssumption DEF Init, Names, WellNamed, Empty, NoNames
<1>4. Homes /\ CachedIDsAreRight /\ Jobs
  <2>1. \A p \in Procs : home[p] = 0 /\ job[p] = NoJob
    BY Zenon DEF Init
  <2>2. \A p \in Procs : dbKeyIDs[p] = NoIDs /\ engineKeyIDs[p] = NoNames
    BY Zenon DEF Init
  <2> QED
    BY <2>1, <2>2, Zenon DEF Homes, CachedIDsAreRight, Jobs
<1>5. RowsAreOwn
  <2>1. \A c \in BOOLEAN : OwnRows(Empty(c))
    BY Zenon DEF OwnRows, Empty
  <2>2. \A f \in Files : tx[f] = files[f] /\ \E c \in BOOLEAN : files[f] = Empty(c)
    BY Zenon DEF Init
  <2> QED
    BY <2>1, <2>2, Zenon DEF RowsAreOwn
<1> QED
  BY <1>1, <1>2, <1>3, <1>4, <1>5, Zenon DEF Inv

\* The holder of a lock builds on the file.
LEMMA Holder ==
  ASSUME Inv, NEW f \in Files, lock[f] # NoProc
  PROVE  lock[f] \in Procs /\ conn[lock[f]] = f /\ Builds(lock[f])
<1>1. lock[f] \in Procs
  BY Zenon DEF Inv, Types
<1> QED
  BY <1>1, Zenon DEF Inv, Locks, Builds

\* What a process is connected to is one of the files.
LEMMA ConnFile ==
  ASSUME Inv, NEW q \in Procs, conn[q] > 0
  PROVE  conn[q] \in Files
<1>1. newest \in Files /\ conn[q] \in -1 .. newest
  BY Zenon DEF Inv, Types
<1> QED
  BY <1>1, BoundsAssumption

\* The file that a process has its ids from is one of the files.
LEMMA HomeFile ==
  ASSUME Inv, NEW q \in Procs, home[q] # 0
  PROVE  home[q] \in Files
<1>1. newest \in Files /\ home[q] \in 0 .. newest
  BY Zenon DEF Inv, Types
<1> QED
  BY <1>1, BoundsAssumption

\* A process that is connected has its ids from the file it is connected to.
LEMMA HomeIsConn ==
  ASSUME Inv, NEW q \in Procs, conn[q] > 0, home[q] # 0
  PROVE  home[q] = conn[q]
<1>1. conn[q] \in {0, -1, home[q]}
  BY Zenon DEF Inv, Homes, Mismatch
<1> QED
  BY <1>1

\* The cached ids d and e are right for these names.
Right(names, d, e) ==
  /\ \A k \in Keys : d[k] # 0 => names[d[k]] = Affinity[k]
  /\ \A id \in IDs : e[id] # NoKey => names[id] = Affinity[e[id]]

\* The names that a process sees where its ids are from, before a step and after it.
NamesOf(q) == IF lock[home[q]] = q THEN tx[home[q]].names ELSE files[home[q]].names
NamesNext(q) == IF lock'[home'[q]] = q THEN tx'[home'[q]].names ELSE files'[home'[q]].names

\* CachedIDsAreRight, for one process.
LEMMA CachedRight ==
  ASSUME Inv, NEW q \in Procs, home[q] # 0
  PROVE  Right(NamesOf(q), dbKeyIDs[q], engineKeyIDs[q])
BY Zenon DEF Inv, CachedIDsAreRight, Right, NamesOf

\* And for all of them, after a step.
LEMMA RightCached ==
  ASSUME \A q \in Procs : home'[q] # 0 => Right(NamesNext(q), dbKeyIDs'[q], engineKeyIDs'[q])
  PROVE  CachedIDsAreRight'
BY Zenon DEF CachedIDsAreRight, Right, NamesNext

\* A file that does not change stays well-formed.
LEMMA Contents ==
  ASSUME Inv, UNCHANGED <<files, tx>>
  PROVE  Names' /\ RowsAreOwn'
<1>1. Names'
  BY Zenon DEF Inv, Names, WellNamed
<1>2. RowsAreOwn'
  BY ZenonT(60) DEF Inv, RowsAreOwn, OwnRows
<1> QED
  BY <1>1, <1>2, Zenon

\* Ids that were right stay right when no process learns any and no file that a process
\* has its ids from changes.
LEMMA CachedFrame ==
  ASSUME Inv, UNCHANGED <<lock, dbKeyIDs, engineKeyIDs>>,
         \A q \in Procs : home'[q] # 0 =>
           /\ home'[q] = home[q]
           /\ files'[home[q]] = files[home[q]] /\ tx'[home[q]] = tx[home[q]]
  PROVE  CachedIDsAreRight'
<1> SUFFICES ASSUME NEW q \in Procs, home'[q] # 0
             PROVE  Right(NamesNext(q), dbKeyIDs'[q], engineKeyIDs'[q])
  BY RightCached, Zenon
<1>1. NamesNext(q) = NamesOf(q)
  BY Zenon DEF NamesNext, NamesOf
<1> QED
  BY <1>1, CachedRight, Zenon

\* So do the ids of the results under way.
LEMMA JobsFrame ==
  ASSUME Inv,
         \A q \in Procs : job'[q] # NoJob =>
           /\ job'[q] = job[q] /\ stage'[q] = stage[q] /\ conn'[q] = conn[q]
           /\ home'[q] = home[q] /\ tx'[conn[q]] = tx[conn[q]]
  PROVE  Jobs'
<1> SUFFICES ASSUME NEW q \in Procs, job'[q] # NoJob
             PROVE  /\ stage'[q] = "building" /\ job'[q].key \in Keys
                    /\ job'[q].result.value = job'[q].key
                    /\ home'[q] # 0 =>
                         /\ job'[q].id # NoID =>
                              tx'[conn'[q]].names[job'[q].id] = Affinity[job'[q].key]
                         /\ \A n \in DOMAIN job'[q].raw :
                              tx'[conn'[q]].names[job'[q].raw[n] \div 4] # NoKey
  BY Zenon DEF Jobs, NoJob
<1>1. /\ job'[q] = job[q] /\ stage'[q] = stage[q] /\ conn'[q] = conn[q]
      /\ home'[q] = home[q] /\ tx'[conn[q]] = tx[conn[q]]
  BY Zenon
<1>2. /\ stage[q] = "building" /\ job[q].key \in Keys
      /\ job[q].result.value = job[q].key
      /\ home[q] # 0 =>
           /\ job[q].id # NoID => tx[conn[q]].names[job[q].id] = Affinity[job[q].key]
           /\ \A n \in DOMAIN job[q].raw : tx[conn[q]].names[job[q].raw[n] \div 4] # NoKey
  BY <1>1, Zenon DEF Inv, Jobs
<1> QED
  BY ONLY <1>1, <1>2, Zenon

\* The process p opens or closes its connection, or goes from stage to stage, outside
\* a build; or nothing of this happens.
LEMMA Frame ==
  ASSUME Inv, NEW p \in Procs, NEW c \in Int, NEW h \in Int, NEW s \in Stages,
         conn' = [conn EXCEPT ![p] = c], home' = [home EXCEPT ![p] = h],
         stage' = [stage EXCEPT ![p] = s],
         UNCHANGED <<files, lock, tx, job, dbKeyIDs, engineKeyIDs, epoch>>,
         newest' \in Files, newest <= newest', path' \in 0 .. newest',
         c \in -1 .. newest', h \in {0, home[p]}, h # 0 => c \in {0, Mismatch, h},
         s \in {"gone", "attaching"} => stage[p] \in {"gone", "attaching"},
         Builds(p) => s = stage[p] /\ c = conn[p] /\ h = home[p],
         s \in {"building", "failing"} => Builds(p)
  PROVE  Inv'
<1>1. Types'
  <2>1. newest \in Nat /\ newest' \in Nat
    BY BoundsAssumption DEF Inv, Types
  <2>2. conn' \in [Procs -> Int] /\ \A q \in Procs : conn'[q] \in -1 .. newest'
    BY <2>1 DEF Inv, Types
  <2>3. home' \in [Procs -> Int] /\ \A q \in Procs : home'[q] \in 0 .. newest'
    BY <2>1, SMTT(60) DEF Inv, Types
  <2> QED
    BY <2>2, <2>3, Zenon DEF Inv, Types
<1>2. Locks'
  <2>1. \A q \in Procs : Builds(q)' <=> Builds(q)
    BY Zenon DEF Inv, Types, Builds
  <2>2. \A q \in Procs : Builds(q) => conn'[q] = conn[q]
    BY Zenon DEF Inv, Types
  <2> QED
    <3>1. \A f \in Files : lock[f] # NoProc =>
            lock[f] \in Procs /\ conn'[lock[f]] = f /\ Builds(lock[f])'
      BY <2>1, <2>2, Holder, Zenon
    <3>2. \A q \in Procs : Builds(q)' => conn'[q] > 0 /\ lock[conn'[q]] = q
      BY <2>1, <2>2, Zenon DEF Inv, Locks
    <3>3. \A f \in Files : lock[f] = NoProc => tx[f] = files[f]
      BY Zenon DEF Inv, Locks
    <3> QED
      BY <3>1, <3>2, <3>3, ZenonT(60) DEF Locks, Builds
<1>3. Names'
  BY Zenon DEF Inv, Names, WellNamed
<1>4. Homes'
  <2> SUFFICES ASSUME NEW q \in Procs
               PROVE  /\ home'[q] # 0 => conn'[q] \in {0, Mismatch, home'[q]}
                      /\ stage'[q] \in {"gone", "attaching"} =>
                           home'[q] = 0 /\ dbKeyIDs[q] = NoIDs /\ engineKeyIDs[q] = NoNames
    BY Zenon DEF Homes, NoIDs, NoNames
  <2>1. CASE q = p
    BY <2>1, Zenon DEF Inv, Types, Homes
  <2>2. CASE q # p
    BY <2>2, Zenon DEF Inv, Types, Homes
  <2> QED
    BY <2>1, <2>2, Zenon
<1>5. CachedIDsAreRight'
  <2>1. \A q \in Procs : home'[q] # 0 => home'[q] = home[q]
    BY Zenon DEF Inv, Types
  <2> QED
    BY <2>1, CachedFrame, Zenon
<1>6. Jobs'
  <2>1. \A q \in Procs : job[q] # NoJob =>
                           stage'[q] = stage[q] /\ conn'[q] = conn[q] /\ home'[q] = home[q]
    BY Zenon DEF Inv, Types, Jobs, Builds
  <2> QED
    BY <2>1, JobsFrame, Zenon
<1>7. RowsAreOwn'
  BY Zenon DEF Inv, RowsAreOwn, OwnRows
<1> QED
  BY <1>1, <1>2, <1>3, <1>4, <1>5, <1>6, <1>7, Zenon DEF Inv

\* Nothing of a database changes but its path and what a process remembers.
LEMMA Quiet ==
  ASSUME Inv,
         UNCHANGED <<files, lock, tx, job, dbKeyIDs, engineKeyIDs, epoch, conn, home,
                     newest, stage>>,
         path' \in 0 .. newest
  PROVE  Inv'
<1>1. Types' /\ Locks'
  BY Zenon DEF Inv, Types, Locks, Builds
<1>2. Names' /\ Homes'
  BY Zenon DEF Inv, Names, WellNamed, Homes, NoIDs, NoNames
<1>3. CachedIDsAreRight'
  BY CachedFrame, Zenon
<1>4. Jobs'
  BY Zenon DEF Inv, Jobs, NoJob
<1>5. RowsAreOwn'
  BY Zenon DEF Inv, RowsAreOwn, OwnRows
<1> QED
  BY <1>1, <1>2, <1>3, <1>4, <1>5, Zenon DEF Inv

\* A process goes from one stage outside a build to another.
LEMMA StageInv ==
  ASSUME Inv, NEW p \in Procs, ~Builds(p),
         \/ NewProcess(p) \/ Build(p) \/ BuildNotStarted(p) \/ AddRule(p) \/ RuleOpened(p)
  PROVE  Inv'
<1> DEFINE s == stage'[p]
<1>1. /\ UNCHANGED <<files, lock, tx, job, dbKeyIDs, engineKeyIDs, epoch, conn, home,
                     newest, path>>
      /\ s \in Stages \ {"gone", "building", "failing"}
      /\ stage' = [stage EXCEPT ![p] = s]
      /\ s = "attaching" => stage[p] = "gone"
  BY Zenon DEF Inv, Types, NewProcess, Build, BuildNotStarted, AddRule, RuleOpened, disk,
         connection, caches, history, Stages
<1>2. conn' = [conn EXCEPT ![p] = conn[p]] /\ home' = [home EXCEPT ![p] = home[p]]
  BY <1>1, Zenon DEF Inv, Types
<1>3. /\ conn[p] \in Int /\ home[p] \in Int /\ conn[p] \in -1 .. newest
      /\ newest \in Files /\ path \in 0 .. newest
      /\ home[p] # 0 => conn[p] \in {0, Mismatch, home[p]}
  BY Zenon DEF Inv, Types, Homes
<1>4. newest <= newest'
  BY <1>1, <1>3, BoundsAssumption
<1> HIDE DEF s
<1> QED
  BY <1>1, <1>2, <1>3, <1>4, Frame, Zenon

\* open() connects to the file at the path.
LEMMA ConnectInv ==
  ASSUME Inv, NEW p \in Procs, Opens(p), path # 0, Connect(p, path),
         NEW s \in {stage[p], "idle"}, stage' = [stage EXCEPT ![p] = s],
         UNCHANGED <<files, lock, tx, job, dbKeyIDs, engineKeyIDs, epoch, newest, path>>
  PROVE  Inv'
<1>1. ~Builds(p) /\ stage[p] \in Stages
  BY Zenon DEF Opens, Builds, Stages
<1>2. newest \in Nat /\ path \in 1 .. newest /\ newest \in Files
  BY BoundsAssumption DEF Inv, Types
<1> DEFINE h == IF home[p] = path THEN path ELSE 0
<1>3. h \in Int /\ h \in {0, home[p]} /\ (h # 0 => path = h)
  BY <1>2
<1>4. conn' = [conn EXCEPT ![p] = path] /\ home' = [home EXCEPT ![p] = h]
  BY Zenon DEF Connect
<1>5. /\ s \in Stages
      /\ s \in {"gone", "attaching"} => stage[p] \in {"gone", "attaching"}
      /\ s \notin {"building", "failing"}
  BY <1>1, Zenon DEF Stages, Builds
<1>6. path \in Int /\ path \in -1 .. newest' /\ newest <= newest' /\ path' \in 0 .. newest'
  BY <1>2
<1> HIDE DEF h
<1> QED
  BY <1>1, <1>2, <1>3, <1>4, <1>5, <1>6, Frame, Zenon

\* open() finds another schema, or creates the file.
LEMMA OpenMismatchInv ==
  ASSUME Inv, NEW p \in Procs, OpenMismatch(p)
  PROVE  Inv'
<1>1. ~Builds(p) /\ stage[p] \in Stages
  BY Zenon DEF OpenMismatch, Opens, Builds, Stages
<1>2. newest \in Nat /\ path \in 0 .. newest /\ newest \in Files /\ MaxFiles \in Nat
  BY BoundsAssumption DEF Inv, Types
<1>3. newest' \in Files /\ newest <= newest' /\ path' \in 0 .. newest' /\ newest' \in Nat
  BY <1>2 DEF OpenMismatch
<1> DEFINE h == home[p]
           s == stage[p]
<1>4. /\ conn' = [conn EXCEPT ![p] = Mismatch] /\ home' = [home EXCEPT ![p] = h]
      /\ stage' = [stage EXCEPT ![p] = s] /\ h \in Int
  BY Zenon DEF Inv, Types, OpenMismatch, history
<1>5. UNCHANGED <<files, lock, tx, job, dbKeyIDs, engineKeyIDs, epoch>>
  BY Zenon DEF OpenMismatch, caches
<1>6. Mismatch \in Int /\ Mismatch \in -1 .. newest' /\ h \in {0, home[p]}
  BY <1>3 DEF Mismatch
<1>7. /\ s \in Stages /\ s = stage[p]
      /\ s \in {"building", "failing"} => Builds(p)
  BY <1>1, Zenon DEF Builds
<1> HIDE DEF h, s
<1> QED
  BY <1>1, <1>3, <1>4, <1>5, <1>6, <1>7, Frame, Zenon

\* A build is refused: the connection is closed again.
LEMMA BuildRefusedInv ==
  ASSUME Inv, NEW p \in Procs, BuildRefused(p)
  PROVE  Inv'
<1>1. ~Builds(p) /\ "idle" \in Stages
  BY Zenon DEF BuildRefused, Builds, Stages
<1>2. newest \in Nat /\ path \in 0 .. newest /\ newest \in Files
  BY BoundsAssumption DEF Inv, Types
<1> DEFINE c == 0
           h == home[p]
           s == "idle"
<1>3. /\ conn' = [conn EXCEPT ![p] = c] /\ home' = [home EXCEPT ![p] = h]
      /\ stage' = [stage EXCEPT ![p] = s] /\ h \in Int /\ c \in Int
  BY DEF Inv, Types, BuildRefused, Close, history
<1>4. UNCHANGED <<files, lock, tx, job, dbKeyIDs, engineKeyIDs, epoch, newest, path>>
  BY Zenon DEF BuildRefused, caches, disk
<1>5. /\ newest' \in Files /\ newest <= newest' /\ path' \in 0 .. newest'
      /\ c \in -1 .. newest' /\ h \in {0, home[p]} /\ c \in {0, Mismatch, h}
  BY <1>2, <1>4
<1>6. s \in Stages /\ s \notin {"gone", "attaching", "building", "failing"}
  BY Zenon DEF Stages
<1> HIDE DEF c, h, s
<1> QED
  BY <1>1, <1>3, <1>4, <1>5, <1>6, Frame, Zenon

\* A process ends: its transaction is rolled back.
LEMMA DieInv ==
  ASSUME Inv, NEW p \in Procs, Die(p)
  PROVE  Inv'
<1>0. /\ \A q \in Procs \ {p} :
           /\ conn'[q] = conn[q] /\ stage'[q] = stage[q] /\ home'[q] = home[q]
           /\ job'[q] = job[q] /\ dbKeyIDs'[q] = dbKeyIDs[q]
           /\ engineKeyIDs'[q] = engineKeyIDs[q]
      /\ conn'[p] = 0 /\ stage'[p] = "gone" /\ home'[p] = 0 /\ job'[p] = NoJob
      /\ dbKeyIDs'[p] = NoIDs /\ engineKeyIDs'[p] = NoNames
  BY Zenon DEF Inv, Types, Die
<1>1. /\ UNCHANGED <<files, newest, path>>
      /\ \A f \in Files : /\ lock[f] = p => lock'[f] = NoProc /\ tx'[f] = files[f]
                          /\ lock[f] # p => lock'[f] = lock[f] /\ tx'[f] = tx[f]
  BY Zenon DEF Die
<1>2. Types'
  <2>1. NoJob \in Job
    BY BoundsAssumption, SMTT(60) DEF NoJob, NoResult, Job
  <2>2. lock' \in [Files -> Procs \cup {NoProc}] /\ tx' \in [Files -> Stored]
    BY Zenon DEF Inv, Types, Die
  <2>3. newest \in Nat
    BY BoundsAssumption DEF Inv, Types
  <2>4. conn' \in [Procs -> Int] /\ \A q \in Procs : conn'[q] \in -1 .. newest
    BY <2>3 DEF Inv, Types, Die
  <2>5. home' \in [Procs -> Int] /\ \A q \in Procs : home'[q] \in 0 .. newest
    BY <2>3 DEF Inv, Types, Die
  <2>6. /\ dbKeyIDs' \in [Procs -> [Keys -> IDs]]
        /\ engineKeyIDs' \in [Procs -> [IDs -> Keys \cup {NoKey}]]
    BY BoundsAssumption, SMTT(60) DEF Inv, Types, Die, NoIDs, NoNames
  <2>7. stage' \in [Procs -> Stages] /\ job' \in [Procs -> Job] /\ epoch' \in [Procs -> Nat]
    BY <2>1, Zenon DEF Inv, Types, Die, Stages
  <2> QED
    BY <1>1, <2>2, <2>4, <2>5, <2>6, <2>7, Zenon DEF Inv, Types
<1>3. Locks'
  <2>1. ASSUME NEW f \in Files, lock'[f] # NoProc
        PROVE  conn'[lock'[f]] = f /\ stage'[lock'[f]] \in {"building", "failing"}
    <3>1. lock'[f] = lock[f] /\ lock[f] \in Procs \ {p}
      BY <1>1, <2>1, Zenon DEF Inv, Types
    <3>2. conn[lock[f]] = f /\ stage[lock[f]] \in {"building", "failing"}
      BY <2>1, <3>1, Zenon DEF Inv, Locks, Builds
    <3> QED
      BY <1>0, <3>1, <3>2, Zenon
  <2>2. ASSUME NEW q \in Procs, Builds(q)'
        PROVE  conn'[q] > 0 /\ lock'[conn'[q]] = q
    <3>1. q # p /\ Builds(q) /\ conn'[q] = conn[q] /\ conn[q] > 0 /\ lock[conn[q]] = q
      BY <1>0, <2>2, Zenon DEF Inv, Locks, Builds
    <3>2. conn[q] \in Files
      BY <3>1, BoundsAssumption DEF Inv, Types
    <3> QED
      BY <3>1, <3>2, <1>1, Zenon
  <2>3. ASSUME NEW f \in Files, lock'[f] = NoProc
        PROVE  tx'[f] = files'[f]
    BY <1>1, <2>3, Zenon DEF Inv, Locks
  <2> QED
    BY <2>1, <2>2, <2>3, Zenon DEF Locks, Builds
<1>4. Names'
  BY <1>1, SMTT(60) DEF Inv, Names, WellNamed
<1>5. Homes'
  BY <1>0, ZenonT(60) DEF Inv, Homes, NoIDs, NoNames
<1>6. CachedIDsAreRight'
  <2> SUFFICES ASSUME NEW q \in Procs, home'[q] # 0
               PROVE  Right(NamesNext(q), dbKeyIDs'[q], engineKeyIDs'[q])
    BY RightCached, Zenon
  <2>1. q # p /\ home'[q] = home[q] /\ home[q] \in Files
    BY <1>0, HomeFile, Zenon
  <2>2. /\ lock'[home[q]] = q <=> lock[home[q]] = q
        /\ lock[home[q]] = q => tx'[home[q]] = tx[home[q]]
    BY <1>1, <2>1, NamesAssumption, Zenon
  <2> QED
    <3>1. NamesNext(q) = NamesOf(q)
      BY <1>1, <2>1, <2>2, Zenon DEF NamesNext, NamesOf
    <3> QED
      BY <1>0, <2>1, <3>1, CachedRight, Zenon
<1>7. Jobs'
  <2> SUFFICES ASSUME NEW q \in Procs, job'[q] # NoJob
               PROVE  q # p /\ tx'[conn[q]] = tx[conn[q]]
    BY <1>0, JobsFrame, Zenon
  <2>1. q # p /\ stage[q] = "building"
    BY <1>0, Zenon DEF Inv, Jobs
  <2>2. conn[q] > 0 /\ lock[conn[q]] = q
    BY <2>1, Zenon DEF Inv, Locks, Builds
  <2>3. conn[q] \in Files
    BY <2>2, ConnFile, Zenon
  <2> QED
    BY <1>1, <2>1, <2>2, <2>3, Zenon
<1>8. RowsAreOwn'
  <2>1. \A f \in Files : tx'[f] \in {tx[f], files[f]} /\ files'[f] = files[f]
    BY <1>1, Zenon
  <2> QED
    BY <2>1, Zenon DEF Inv, RowsAreOwn
<1> QED
  BY <1>2, <1>3, <1>4, <1>5, <1>6, <1>7, <1>8, Zenon DEF Inv

\* The transaction of a build ends, committed or not; when it is not, the process has
\* lost its home.
LEMMA EndsInv ==
  ASSUME Inv, NEW p \in Procs, NEW content \in Stored, Ends(p, content),
         \/ /\ content.names = tx[conn[p]].names /\ content.last = tx[conn[p]].last
            /\ content.rows = tx[conn[p]].rows /\ content.mixed = tx[conn[p]].mixed
            /\ UNCHANGED home
         \/ content = files[conn[p]] /\ home' = [home EXCEPT ![p] = 0]
  PROVE  Inv'
<1> DEFINE f == conn[p]
<1>1. Builds(p) /\ f \in Files /\ f > 0 /\ lock[f] = p /\ job[p] = NoJob
  BY BoundsAssumption, SMTT(60) DEF Inv, Types, Locks, Builds, Ends
<1>2. /\ \A g \in Files \ {f} : files'[g] = files[g] /\ tx'[g] = tx[g] /\ lock'[g] = lock[g]
      /\ files'[f] = content /\ tx'[f] = content /\ lock'[f] = NoProc
  BY <1>1, Zenon DEF Inv, Types, Ends
<1>3. /\ \A q \in Procs \ {p} : /\ conn'[q] = conn[q] /\ stage'[q] = stage[q]
                                /\ home'[q] = home[q]
      /\ conn'[p] = 0 /\ stage'[p] = "idle" /\ home'[p] \in {0, home[p]}
      /\ home' \in [Procs -> Int]
      /\ home'[p] # 0 => content.names = tx[f].names
      /\ UNCHANGED <<path, newest, job, dbKeyIDs, engineKeyIDs, epoch>>
  BY SMTT(60) DEF Inv, Types, Ends, Close, caches
<1>4. /\ WellNamed(content)
      /\ content.mixed \/ OwnRows(content)
      /\ \A id \in IDs : files[f].names[id] # NoKey => content.names[id] = files[f].names[id]
  <2>1. CASE content = files[f]
    BY <1>1, <2>1, Zenon DEF Inv, Names, RowsAreOwn
  <2>2. CASE /\ content.names = tx[f].names /\ content.last = tx[f].last
             /\ content.rows = tx[f].rows /\ content.mixed = tx[f].mixed
    <3>1. WellNamed(content) <=> WellNamed(tx[f])
      BY <2>2, Zenon DEF WellNamed
    <3>2. OwnRows(content) <=> OwnRows(tx[f])
      BY <2>2, SMTT(60) DEF OwnRows
    <3> QED
      BY <1>1, <2>2, <3>1, <3>2, Zenon DEF Inv, Names, RowsAreOwn
  <2> QED
    BY <2>1, <2>2, Zenon
<1> HIDE DEF f
<1>5. \A q \in Procs \ {p} : Builds(q) => conn[q] \in Files \ {f} /\ lock[conn[q]] = q
  <2> SUFFICES ASSUME NEW q \in Procs \ {p}, Builds(q)
               PROVE  conn[q] \in Files \ {f} /\ lock[conn[q]] = q
    BY Zenon
  <2>1. conn[q] > 0 /\ lock[conn[q]] = q
    BY Zenon DEF Inv, Locks
  <2>2. conn[q] \in Files
    BY <2>1, BoundsAssumption, SMTT(60) DEF Inv, Types
  <2> QED
    BY <1>1, <2>1, <2>2, Zenon
<1>6. Types'
  <2>1. newest \in Nat
    BY BoundsAssumption, SMTT(60) DEF Inv, Types
  <2>2. conn' \in [Procs -> Int] /\ \A q \in Procs : conn'[q] \in -1 .. newest
    BY <2>1, <1>3, SMTT(60) DEF Inv, Types, Ends, Close
  <2>3. home' \in [Procs -> Int] /\ \A q \in Procs : home'[q] \in 0 .. newest
    <3>1. \A q \in Procs : home[q] \in 0 .. newest /\ home'[q] \in {0, home[q]}
      BY <1>3, Zenon DEF Inv, Types
    <3> QED
      BY <2>1, <3>1, <1>3, SMTT(60)
  <2>4. /\ files' \in [Files -> Stored] /\ tx' \in [Files -> Stored]
        /\ lock' \in [Files -> Procs \cup {NoProc}] /\ stage' \in [Procs -> Stages]
    BY Zenon DEF Inv, Types, Ends, Stages
  <2> QED
    BY <1>3, <2>2, <2>3, <2>4, Zenon DEF Inv, Types
<1>7. Locks'
  <2>1. ASSUME NEW g \in Files, lock'[g] # NoProc
        PROVE  conn'[lock'[g]] = g /\ stage'[lock'[g]] \in {"building", "failing"}
    <3>1. g # f /\ lock'[g] = lock[g] /\ lock[g] \in Procs
      BY <1>2, <2>1, Zenon DEF Inv, Types
    <3>2. conn[lock[g]] = g /\ stage[lock[g]] \in {"building", "failing"}
      BY <2>1, <3>1, Zenon DEF Inv, Locks, Builds
    <3>3. lock[g] # p
      BY <3>1, <3>2, Zenon DEF f
    <3> QED
      BY <1>3, <3>1, <3>2, <3>3, ZenonT(60)
  <2>2. ASSUME NEW q \in Procs, Builds(q)'
        PROVE  conn'[q] > 0 /\ lock'[conn'[q]] = q
    <3>1. q # p /\ Builds(q)
      BY <1>3, <2>2, Zenon DEF Builds
    <3>2. conn[q] \in Files \ {f} /\ lock[conn[q]] = q /\ conn'[q] = conn[q]
      BY <1>3, <1>5, <3>1, Zenon
    <3> QED
      BY <1>2, <3>2, SMTT(60)
  <2>3. \A g \in Files : lock'[g] = NoProc => tx'[g] = files'[g]
    BY <1>2, Zenon DEF Inv, Locks
  <2> QED
    BY <2>1, <2>2, <2>3, Zenon DEF Locks, Builds
<1>8. Names'
  <2> SUFFICES ASSUME NEW g \in Files
               PROVE  /\ WellNamed(files'[g]) /\ WellNamed(tx'[g])
                      /\ \A id \in IDs : files'[g].names[id] # NoKey =>
                                           tx'[g].names[id] = files'[g].names[id]
    BY Zenon DEF Names
  <2>1. CASE g = f
    BY <2>1, <1>2, <1>4, Zenon
  <2>2. CASE g # f
    BY <2>2, <1>2, Zenon DEF Inv, Names
  <2> QED
    BY <2>1, <2>2, Zenon
<1>9. Homes'
  BY <1>3, Zenon DEF Inv, Homes, NoIDs, NoNames
<1>10. CachedIDsAreRight'
  <2> SUFFICES ASSUME NEW q \in Procs, home'[q] # 0
               PROVE  Right(NamesNext(q), dbKeyIDs'[q], engineKeyIDs'[q])
    BY RightCached, Zenon
  <2>1. home'[q] = home[q] /\ home[q] \in Files /\ home[q] # 0
    <3>1. home'[q] = home[q] /\ home[q] # 0
      BY <1>3, Zenon
    <3> QED
      BY <3>1, HomeFile, Zenon
  <2>2. CASE q = p
    <3>1. home[p] = f /\ content.names = tx[f].names
      BY <1>1, <1>3, <2>1, <2>2, HomeIsConn, Zenon DEF f
    <3>2. NamesNext(q) = content.names /\ NamesOf(q) = tx[f].names
      <4>1. lock'[f] # p /\ files'[f] = content /\ lock[f] = p
        BY <1>1, <1>2, NamesAssumption, Zenon
      <4> QED
        BY ONLY <2>1, <2>2, <3>1, <4>1, Zenon DEF NamesNext, NamesOf
    <3>3. Right(NamesOf(q), dbKeyIDs[q], engineKeyIDs[q])
      BY <2>1, CachedRight, Zenon
    <3>4. dbKeyIDs'[q] = dbKeyIDs[q] /\ engineKeyIDs'[q] = engineKeyIDs[q]
      BY <1>3, Zenon
    <3> QED
      BY ONLY <3>1, <3>2, <3>3, <3>4, Zenon
  <2>3. CASE q # p /\ home[q] # f
    <3>1. home[q] \in Files \ {f}
      BY <2>1, <2>3, Zenon
    <3>2. NamesNext(q) = NamesOf(q)
      BY <1>2, <2>1, <3>1, Zenon DEF NamesNext, NamesOf
    <3> QED
      BY <1>3, <2>1, <3>2, CachedRight, Zenon
  <2>4. CASE q # p /\ home[q] = f
    <3>1. lock[f] # q /\ lock'[f] # q
      BY <1>1, <1>2, <2>4, NamesAssumption, Zenon
    <3>2. Right(files[f].names, dbKeyIDs[q], engineKeyIDs[q])
      BY <2>1, <2>4, <3>1, CachedRight, Zenon DEF NamesOf
    <3>3. /\ \A k \in Keys : dbKeyIDs[q][k] \in IDs /\ Affinity[k] \in Keys
          /\ \A id \in IDs : engineKeyIDs[q][id] \in Keys \cup {NoKey}
      <4>1. dbKeyIDs[q] \in [Keys -> IDs] /\ engineKeyIDs[q] \in [IDs -> Keys \cup {NoKey}]
        BY Zenon DEF Inv, Types
      <4> QED
        BY <4>1, AffinityAssumption, Zenon
    <3>4. Right(content.names, dbKeyIDs[q], engineKeyIDs[q])
      <4> QED
        BY ONLY <1>4, <3>2, <3>3, NamesAssumption, SMT DEF Right
    <3>5. NamesNext(q) = content.names
      BY <1>2, <2>1, <2>4, <3>1, Zenon DEF NamesNext
    <3> QED
      BY <1>3, <3>4, <3>5, Zenon
  <2> QED
    BY <2>2, <2>3, <2>4, Zenon
<1>11. Jobs'
  <2> SUFFICES ASSUME NEW q \in Procs, job[q] # NoJob
               PROVE  q # p /\ tx'[conn[q]] = tx[conn[q]]
    BY <1>3, JobsFrame, Zenon
  <2>1. q # p /\ Builds(q)
    BY <1>1, Zenon DEF Inv, Jobs, Builds
  <2> QED
    BY <1>2, <1>5, <2>1, Zenon
<1>12. RowsAreOwn'
  <2>1. \A g \in Files : \/ files'[g] = files[g] /\ tx'[g] = tx[g]
                         \/ files'[g] = content /\ tx'[g] = content
    BY <1>2, Zenon
  <2> QED
    BY <1>4, <2>1, Zenon DEF Inv, RowsAreOwn
<1> QED
  BY <1>6, <1>7, <1>8, <1>9, <1>10, <1>11, <1>12, Zenon DEF Inv

\* open() creates the tables in a new file, which nobody knows.
LEMMA RecreateInv ==
  ASSUME Inv, NEW p \in Procs, Recreate(p)
  PROVE  Inv'
<1> DEFINE g == newest + 1
<1>1. newest \in Nat /\ g \in Nat /\ g \in Files /\ newest \in Files
  BY BoundsAssumption, SMTT(60) DEF Inv, Types, Recreate
<1>2. \A q \in Procs : conn[q] # g /\ home[q] # g
  BY <1>1, SMTT(60) DEF Inv, Types
<1>3. lock[g] = NoProc
  BY <1>1, <1>2, Holder, Zenon
<1>4. ~Builds(p)
  <2>1. conn[p] = -1
    BY Zenon DEF Recreate, Mismatch
  <2>2. Builds(p) => conn[p] > 0
    BY Zenon DEF Inv, Locks
  <2> QED
    BY <2>1, <2>2
<1>5. /\ path' = g /\ newest' = g
      /\ files' = [files EXCEPT ![g] = Empty(TRUE)] /\ tx' = [tx EXCEPT ![g] = Empty(TRUE)]
      /\ conn' = [conn EXCEPT ![p] = g]
      /\ home' = [home EXCEPT ![p] = IF @ = g THEN g ELSE 0]
      /\ UNCHANGED <<lock, stage, job, dbKeyIDs, engineKeyIDs, epoch>>
  BY Zenon DEF Recreate, Connect, caches
<1> HIDE DEF g
<1>6. /\ home'[p] = 0 /\ conn'[p] = g
      /\ \A q \in Procs \ {p} : conn'[q] = conn[q] /\ home'[q] = home[q]
      /\ \A f \in Files \ {g} : files'[f] = files[f] /\ tx'[f] = tx[f]
      /\ files'[g] = Empty(TRUE) /\ tx'[g] = Empty(TRUE)
  BY <1>1, <1>2, <1>5, Zenon DEF Inv, Types
<1>7. Types'
  <2>1. Empty(TRUE) \in Stored
    BY BoundsAssumption, SMTT(60) DEF NoResult, StoredRow, Stored, Empty, NoNames, NoRow
  <2>2. files' \in [Files -> Stored] /\ tx' \in [Files -> Stored]
    BY <1>5, <2>1, Zenon DEF Inv, Types
  <2>3. conn' \in [Procs -> Int] /\ home' \in [Procs -> Int]
    BY <1>1, <1>5, SMTT(60) DEF Inv, Types
  <2>4. newest <= newest'
    BY <1>1, <1>5 DEF g
  <2>5. \A q \in Procs : conn[q] \in -1 .. newest /\ home[q] \in 0 .. newest
    BY Zenon DEF Inv, Types
  <2>6. \A q \in Procs : conn'[q] \in -1 .. newest' /\ home'[q] \in 0 .. newest'
    BY <1>1, <1>5, <1>6, <2>4, <2>5
  <2>7. newest' \in Files /\ path' \in 0 .. newest'
    BY <1>1, <1>5
  <2> QED
    BY <1>5, <2>2, <2>3, <2>6, <2>7, Zenon DEF Inv, Types
<1>8. Locks'
  <2>1. \A q \in Procs : Builds(q)' <=> Builds(q)
    BY <1>5, Zenon DEF Builds
  <2>2. ASSUME NEW f \in Files, lock[f] # NoProc
        PROVE  conn'[lock[f]] = f /\ Builds(lock[f])
    <3>1. lock[f] \in Procs /\ conn[lock[f]] = f /\ Builds(lock[f])
      BY <2>2, Holder, Zenon
    <3> QED
      BY <1>4, <1>6, <3>1, Zenon
  <2>3. ASSUME NEW q \in Procs, Builds(q)
        PROVE  conn'[q] > 0 /\ lock[conn'[q]] = q
    BY <1>4, <1>6, <2>3, Zenon DEF Inv, Locks
  <2>4. ASSUME NEW f \in Files, lock[f] = NoProc
        PROVE  tx'[f] = files'[f]
    BY <1>6, <2>4, Zenon DEF Inv, Locks
  <2> QED
    BY <1>5, <2>1, <2>2, <2>3, <2>4, Zenon DEF Locks, Builds
<1>9. Names'
  <2>1. WellNamed(Empty(TRUE)) /\ \A id \in IDs : Empty(TRUE).names[id] = NoKey
    BY ZeroIsID, Zenon DEF WellNamed, Empty, NoNames
  <2> SUFFICES ASSUME NEW f \in Files
               PROVE  /\ WellNamed(files'[f]) /\ WellNamed(tx'[f])
                      /\ \A id \in IDs : files'[f].names[id] # NoKey =>
                                           tx'[f].names[id] = files'[f].names[id]
    BY Zenon DEF Names, WellNamed
  <2>2. CASE f = g
    BY <1>6, <2>1, <2>2, Zenon
  <2>3. CASE f # g
    BY <1>6, <2>3, SMTT(60) DEF Inv, Names
  <2> QED
    BY <2>2, <2>3, Zenon
<1>10. Homes'
  <2> SUFFICES ASSUME NEW q \in Procs
               PROVE  /\ home'[q] # 0 => conn'[q] \in {0, Mismatch, home'[q]}
                      /\ stage[q] \in {"gone", "attaching"} =>
                           home'[q] = 0 /\ dbKeyIDs[q] = NoIDs /\ engineKeyIDs[q] = NoNames
    BY <1>5, Zenon DEF Homes, NoIDs, NoNames
  <2> QED
    BY <1>6, Zenon DEF Inv, Homes
<1>11. CachedIDsAreRight'
  <2>1. \A q \in Procs : home'[q] # 0 => home'[q] = home[q] /\ home[q] \in Files \ {g}
    BY <1>2, <1>6, BoundsAssumption, SMTT(60) DEF Inv, Types
  <2> QED
    BY <1>5, <1>6, <2>1, CachedFrame, Zenon
<1>12. Jobs'
  <2> SUFFICES ASSUME NEW q \in Procs, job[q] # NoJob
               PROVE  conn'[q] = conn[q] /\ home'[q] = home[q] /\ tx'[conn[q]] = tx[conn[q]]
    BY <1>5, JobsFrame, Zenon
  <2>1. q # p /\ stage[q] = "building" /\ Builds(q)
    BY <1>4, Zenon DEF Inv, Jobs, Builds
  <2>2. conn[q] \in Files
    BY <2>1, BoundsAssumption, SMTT(60) DEF Inv, Locks, Types
  <2> QED
    BY <1>2, <1>6, <2>1, <2>2, Zenon
<1>13. RowsAreOwn'
  <2>1. OwnRows(Empty(TRUE))
    BY Zenon DEF OwnRows, Empty
  <2> QED
    BY <1>6, <2>1, Zenon DEF Inv, RowsAreOwn
<1> QED
  BY <1>7, <1>8, <1>9, <1>10, <1>11, <1>12, <1>13, Zenon DEF Inv

\* A process attaches: it knows the epoch of the file it is connected to, and no ids.
LEMMA GetCurrentEpochInv ==
  ASSUME Inv, NEW p \in Procs, GetCurrentEpoch(p)
  PROVE  Inv'
<1>1. CASE Die(p)
  BY <1>1, DieInv, Zenon
<1>2. CASE ~Die(p)
  <2>1. /\ stage[p] = "attaching" /\ conn[p] > 0
        /\ epoch' = [epoch EXCEPT ![p] = files[conn[p]].iteration]
        /\ home' = [home EXCEPT ![p] = conn[p]]
        /\ stage' = [stage EXCEPT ![p] = "idle"]
        /\ UNCHANGED <<files, path, newest, lock, tx, conn, job, dbKeyIDs, engineKeyIDs>>
    BY <1>2, Zenon DEF GetCurrentEpoch, disk, connection, caches
  <2>2. newest \in Nat /\ conn[p] \in Files /\ conn[p] \in 0 .. newest
    BY <2>1, BoundsAssumption DEF Inv, Types
  <2>3. /\ dbKeyIDs[p] = NoIDs /\ engineKeyIDs[p] = NoNames
        /\ \A k \in Keys : dbKeyIDs[p][k] = 0
        /\ \A id \in IDs : engineKeyIDs[p][id] = NoKey
    BY <2>1, ZenonT(60) DEF Inv, Homes, NoIDs, NoNames
  <2>4. /\ home'[p] = conn[p] /\ stage'[p] = "idle"
        /\ \A q \in Procs \ {p} : home'[q] = home[q] /\ stage'[q] = stage[q]
    BY <2>1, Zenon DEF Inv, Types
  <2>5. Types'
    <3>1. files[conn[p]].iteration \in Nat
      BY <2>2, Zenon DEF Inv, Types, Stored
    <3>2. epoch' \in [Procs -> Nat] /\ stage' \in [Procs -> Stages]
      BY <2>1, <3>1, Zenon DEF Inv, Types, Stages
    <3>3. home' \in [Procs -> Int] /\ \A q \in Procs : home'[q] \in 0 .. newest
      BY <2>1, <2>2, Zenon DEF Inv, Types
    <3> QED
      BY <2>1, <3>2, <3>3, Zenon DEF Inv, Types
  <2>6. Locks'
    <3>1. \A q \in Procs : Builds(q)' <=> Builds(q)
      BY <2>1, <2>4, Zenon DEF Builds
    <3>2. \A f \in Files : lock[f] # NoProc =>
            conn[lock[f]] = f /\ stage'[lock[f]] \in {"building", "failing"}
      BY <3>1, Holder, Zenon DEF Builds
    <3>3. \A q \in Procs : Builds(q)' => conn[q] > 0 /\ lock[conn[q]] = q
      BY <3>1, Zenon DEF Inv, Locks
    <3>4. \A f \in Files : lock[f] = NoProc => tx[f] = files[f]
      BY Zenon DEF Inv, Locks
    <3> QED
      BY <2>1, <3>2, <3>3, <3>4, Zenon DEF Locks, Builds
  <2>7. Names' /\ RowsAreOwn'
    BY <2>1, Contents, Zenon
  <2>8. Homes'
    <3> SUFFICES ASSUME NEW q \in Procs
                 PROVE  /\ home'[q] # 0 => conn[q] \in {0, Mismatch, home'[q]}
                        /\ stage'[q] \in {"gone", "attaching"} =>
                             home'[q] = 0 /\ dbKeyIDs[q] = NoIDs /\ engineKeyIDs[q] = NoNames
      BY <2>1, Zenon DEF Homes, NoIDs, NoNames
    <3> QED
      BY <2>4, Zenon DEF Inv, Homes
  <2>9. CachedIDsAreRight'
    <3> SUFFICES ASSUME NEW q \in Procs, home'[q] # 0
                 PROVE  Right(NamesNext(q), dbKeyIDs'[q], engineKeyIDs'[q])
      BY RightCached, Zenon
    <3>1. UNCHANGED <<dbKeyIDs, engineKeyIDs, files, tx, lock>>
      BY <2>1, Zenon
    <3>2. CASE q = p
      BY <2>3, <3>1, <3>2, Zenon DEF Right
    <3>3. CASE q # p
      <4>1. home'[q] = home[q]
        BY <2>4, <3>3, Zenon
      <4>2. NamesNext(q) = NamesOf(q)
        BY <3>1, <4>1, Zenon DEF NamesNext, NamesOf
      <4> QED
        BY <3>1, <4>1, <4>2, CachedRight, Zenon
    <3> QED
      BY <3>2, <3>3, Zenon
  <2>10. Jobs'
    <3>1. \A q \in Procs : job[q] # NoJob => q # p
      BY <2>1, Zenon DEF Inv, Jobs
    <3> QED
      BY <2>1, <2>4, <3>1, ZenonT(60) DEF Inv, Jobs
  <2> QED
    BY <2>5, <2>6, <2>7, <2>8, <2>9, <2>10, Zenon DEF Inv
<1> QED
  BY <1>1, <1>2, Zenon

\* BEGIN EXCLUSIVE.
LEMMA BuildStartedInv ==
  ASSUME Inv, NEW p \in Procs, BuildStarted(p)
  PROVE  Inv'
<1> DEFINE f == conn[p]
<1>1. /\ stage[p] = "starting" /\ lock[f] = NoProc
      /\ lock' = [lock EXCEPT ![f] = p]
      /\ stage' = [stage EXCEPT ![p] = "building"]
      /\ epoch' = [epoch EXCEPT ![p] = @ + 1]
      /\ UNCHANGED <<files, path, newest, tx, conn, job, dbKeyIDs, engineKeyIDs, home>>
  BY Zenon DEF BuildStarted, MayLock, connection, caches, history
<1>2. f \in Files /\ f > 0 /\ conn[p] = f
  BY BoundsAssumption, SMTT(60) DEF Inv, Types, BuildStarted
<1>3. tx[f] = files[f] /\ ~Builds(p)
  BY <1>1, <1>2, Zenon DEF Inv, Locks, Builds
<1> HIDE DEF f
<1>4. /\ lock'[f] = p /\ \A g \in Files \ {f} : lock'[g] = lock[g]
      /\ stage'[p] = "building" /\ \A q \in Procs \ {p} : stage'[q] = stage[q]
  BY <1>1, <1>2, Zenon DEF Inv, Types
<1>5. Types'
  <2>1. lock' \in [Files -> Procs \cup {NoProc}] /\ stage' \in [Procs -> Stages]
    BY <1>1, Zenon DEF Inv, Types, Stages
  <2>2. epoch' \in [Procs -> Nat]
    BY <1>1, SMTT(60) DEF Inv, Types
  <2> QED
    BY <1>1, <2>1, <2>2, Zenon DEF Inv, Types
<1>6. Locks'
  <2>1. \A q \in Procs : Builds(q)' <=> Builds(q) \/ q = p
    BY <1>4, Zenon DEF Builds
  <2>2. ASSUME NEW g \in Files, lock'[g] # NoProc
        PROVE  conn[lock'[g]] = g /\ stage'[lock'[g]] \in {"building", "failing"}
    <3>1. CASE g = f
      BY <1>2, <1>4, <3>1, Zenon
    <3>2. CASE g # f
      <4>1. lock'[g] = lock[g] /\ lock[g] \in Procs
        BY <1>4, <2>2, <3>2, Zenon DEF Inv, Types
      <4>2. conn[lock[g]] = g /\ stage[lock[g]] \in {"building", "failing"}
        BY <2>2, <4>1, Zenon DEF Inv, Locks, Builds
      <4> QED
        BY <1>4, <4>1, <4>2, Zenon
    <3> QED
      BY <3>1, <3>2, Zenon
  <2>3. ASSUME NEW q \in Procs, Builds(q)'
        PROVE  conn[q] > 0 /\ lock'[conn[q]] = q
    <3>1. CASE q = p
      BY <1>2, <1>4, <3>1, Zenon
    <3>2. CASE q # p
      <4>1. conn[q] > 0 /\ lock[conn[q]] = q
        BY <2>1, <2>3, <3>2, Zenon DEF Inv, Locks
      <4>2. conn[q] \in Files \ {f}
        BY <1>1, <4>1, NamesAssumption, BoundsAssumption, SMTT(60) DEF Inv, Types
      <4> QED
        BY <1>4, <4>1, <4>2, Zenon
    <3> QED
      BY <3>1, <3>2, Zenon
  <2>4. ASSUME NEW g \in Files, lock'[g] = NoProc
        PROVE  tx[g] = files[g]
    BY <1>4, <2>4, NamesAssumption, Zenon DEF Inv, Locks
  <2> QED
    BY <1>1, <2>2, <2>3, <2>4, Zenon DEF Locks, Builds
<1>7. Names' /\ RowsAreOwn'
  BY <1>1, Contents, Zenon
<1>8. Homes'
  BY <1>1, <1>4, Zenon DEF Inv, Homes, NoIDs, NoNames
<1>9. CachedIDsAreRight'
  <2> SUFFICES ASSUME NEW q \in Procs, home'[q] # 0
               PROVE  Right(NamesNext(q), dbKeyIDs'[q], engineKeyIDs'[q])
    BY RightCached, Zenon
  <2>1. home'[q] = home[q] /\ home[q] \in Files
    BY <1>1, HomeFile, Zenon
  <2>2. (IF lock'[home[q]] = q THEN tx[home[q]].names ELSE files[home[q]].names)
        = (IF lock[home[q]] = q THEN tx[home[q]].names ELSE files[home[q]].names)
    BY <1>3, <1>4, <2>1, Zenon
  <2>3. NamesNext(q) = NamesOf(q)
    BY <1>1, <2>1, <2>2, Zenon DEF NamesNext, NamesOf
  <2> QED
    BY <1>1, <2>1, <2>3, CachedRight, Zenon
<1>10. Jobs'
  <2>1. \A q \in Procs : job[q] # NoJob => q # p
    BY <1>1, Zenon DEF Inv, Jobs
  <2> QED
    BY <1>1, <1>4, <2>1, Zenon DEF Inv, Jobs
<1> QED
  BY <1>5, <1>6, <1>7, <1>8, <1>9, <1>10, Zenon DEF Inv

\* A result is to be stored, or cannot be stored.
LEMMA JobInv ==
  ASSUME Inv, NEW p \in Procs, stage[p] = "building",
         NEW j \in Job, NEW s \in {"building", "failing"},
         job' = [job EXCEPT ![p] = j], stage' = [stage EXCEPT ![p] = s],
         \/ j = NoJob
         \/ /\ s = "building" /\ j.key \in Keys /\ j.result.value = j.key
            /\ j.id = NoID /\ j.raw = <<>>,
         UNCHANGED <<files, lock, tx, dbKeyIDs, engineKeyIDs, epoch, conn, home, newest, path>>
  PROVE  Inv'
<1>1. /\ job'[p] = j /\ stage'[p] = s
      /\ \A q \in Procs \ {p} : job'[q] = job[q] /\ stage'[q] = stage[q]
  BY Zenon DEF Inv, Types
<1>2. Types'
  <2>1. job' \in [Procs -> Job] /\ stage' \in [Procs -> Stages]
    BY Zenon DEF Inv, Types, Stages
  <2> QED
    BY <2>1, Zenon DEF Inv, Types
<1>3. Locks'
  <2>1. \A q \in Procs : stage'[q] \in {"building", "failing"} <=> Builds(q)
    BY <1>1, Zenon DEF Builds
  <2>2. \A f \in Files : lock[f] # NoProc =>
          conn[lock[f]] = f /\ stage'[lock[f]] \in {"building", "failing"}
    BY <2>1, Holder, Zenon
  <2>3. \A q \in Procs : Builds(q) => conn[q] > 0 /\ lock[conn[q]] = q
    BY Zenon DEF Inv, Locks
  <2>4. \A f \in Files : lock[f] = NoProc => tx[f] = files[f]
    BY Zenon DEF Inv, Locks
  <2> QED
    BY <2>1, <2>2, <2>3, <2>4, Zenon DEF Locks, Builds
<1>4. Names' /\ RowsAreOwn'
  BY Contents, Zenon
<1>5. Homes'
  BY <1>1, Zenon DEF Inv, Homes, NoIDs, NoNames
<1>6. CachedIDsAreRight'
  BY CachedFrame, Zenon
<1>7. Jobs'
  <2> SUFFICES ASSUME NEW q \in Procs, job'[q] # NoJob
               PROVE  /\ stage'[q] = "building" /\ job'[q].key \in Keys
                      /\ job'[q].result.value = job'[q].key
                      /\ home'[q] # 0 =>
                           /\ job'[q].id # NoID =>
                                tx'[conn'[q]].names[job'[q].id] = Affinity[job'[q].key]
                           /\ \A n \in DOMAIN job'[q].raw :
                                tx'[conn'[q]].names[job'[q].raw[n] \div 4] # NoKey
    BY Zenon DEF Jobs, NoJob
  <2>1. CASE q = p
    <3>1. /\ job'[q] = j /\ j # NoJob /\ stage'[q] = s /\ s = "building"
          /\ j.key \in Keys /\ j.result.value = j.key /\ j.id = NoID /\ j.raw = <<>>
      BY <1>1, <2>1, Zenon
    <3>2. \A n \in DOMAIN <<>> : FALSE
      BY ONLY SMT
    <3> QED
      BY ONLY <3>1, <3>2, Zenon
  <2>2. CASE q # p
    <3>1. UNCHANGED <<conn, home, tx>> /\ job'[q] = job[q] /\ stage'[q] = stage[q]
      BY <1>1, <2>2, Zenon
    <3>2. /\ stage[q] = "building" /\ job[q].key \in Keys
          /\ job[q].result.value = job[q].key
          /\ home[q] # 0 =>
               /\ job[q].id # NoID => tx[conn[q]].names[job[q].id] = Affinity[job[q].key]
               /\ \A n \in DOMAIN job[q].raw :
                    tx[conn[q]].names[job[q].raw[n] \div 4] # NoKey
      BY <3>1, Zenon DEF Inv, Jobs
    <3> QED
      BY <3>1, <3>2, Zenon
  <2> QED
    BY <2>1, <2>2, Zenon
<1> QED
  BY <1>2, <1>3, <1>4, <1>5, <1>6, <1>7, Zenon DEF Inv

\* setRuleResult() is called.
LEMMA SetRuleResultInv ==
  ASSUME Inv, NEW p \in Procs, NEW k \in Keys, NEW deps \in Deps[k],
         SetRuleResult(p, k, deps)
  PROVE  Inv'
<1> DEFINE result == [value |-> k, builtAt |-> epoch[p], dependencies |-> deps]
           j == [NoJob EXCEPT !.key = k, !.result = result]
           s == "building"
<1>1. deps \in Seq(KeyFlags) /\ epoch[p] \in Int
  <2>1. deps \in Seq(KeyFlags)
    BY DepsAssumption, Zenon DEF KeyFlags
  <2>2. epoch[p] \in Nat
    BY Zenon DEF Inv, Types
  <2> QED
    BY <2>1, <2>2
<1>2. j.key = k /\ j.result.value = k /\ j.id = NoID /\ j.raw = <<>> /\ j \in Job
  <2>1. result.value = k
    BY Zenon
  <2>2. result \in [value : Keys \cup {NoKey}, builtAt : Int, dependencies : Seq(KeyFlags)]
    BY <1>1, Zenon
  <2>3. NoJob \in Job /\ NoJob.id = NoID /\ NoJob.raw = <<>>
    BY NoJobIsJob, Zenon
  <2> HIDE DEF result
  <2> QED
    BY <2>1, <2>2, <2>3, Zenon DEF Job
<1>3. /\ job' = [job EXCEPT ![p] = j]
      /\ stage' = [stage EXCEPT ![p] = s] /\ stage[p] = "building"
      /\ UNCHANGED <<files, lock, tx, dbKeyIDs, engineKeyIDs, epoch, conn, home, newest, path>>
  BY Zenon DEF SetRuleResult, Inv, Types, disk, connection, caches, history
<1>4. s \in {"building", "failing"} /\ s = "building"
  BY Zenon
<1> HIDE DEF j, s
<1> QED
  BY <1>2, <1>3, <1>4, JobInv, Zenon

\* The engine learns that the result was not stored.
LEMMA StoreFailsInv ==
  ASSUME Inv, NEW p \in Procs, StoreFails(p)
  PROVE  Inv'
<1>1. NoJob \in Job
  BY NoJobIsJob, Zenon
<1>2. stage[p] = "building" /\ job[p] # NoJob
  BY Zenon DEF StoreFails, Inv, Jobs
<1>3. /\ job' = [job EXCEPT ![p] = NoJob] /\ stage' = [stage EXCEPT ![p] = "failing"]
      /\ UNCHANGED <<files, lock, tx, dbKeyIDs, engineKeyIDs, epoch, conn, home, newest, path>>
  BY Zenon DEF StoreFails, disk, connection, caches
<1> QED
  BY <1>1, <1>2, <1>3, JobInv, Zenon

\* A build writes c to its file, where no name is lost, and may learn ids in c: right
\* ones, or those that make its process homeless.
Writes(p, c, j, d, e) ==
  /\ stage[p] = "building" /\ c \in Stored /\ j \in Job
  /\ d \in [Keys -> IDs] /\ e \in [IDs -> Keys \cup {NoKey}]
  /\ tx' = [tx EXCEPT ![conn[p]] = c] /\ job' = [job EXCEPT ![p] = j]
  /\ dbKeyIDs' = [dbKeyIDs EXCEPT ![p] = d]
  /\ engineKeyIDs' = [engineKeyIDs EXCEPT ![p] = e]
  /\ UNCHANGED <<files, lock, epoch, conn, newest, path, stage>>
  /\ home' = home \/ home' = [home EXCEPT ![p] = 0]
  /\ WellNamed(c) /\ (c.mixed \/ OwnRows(c))
  /\ \A id \in IDs : tx[conn[p]].names[id] # NoKey => c.names[id] = tx[conn[p]].names[id]
  /\ j # NoJob => j.key \in Keys /\ j.result.value = j.key
  /\ home'[p] # 0 =>
       /\ \A k \in Keys : d[k] # 0 => c.names[d[k]] = Affinity[k]
       /\ \A id \in IDs : e[id] # NoKey => c.names[id] = Affinity[e[id]]
       /\ j # NoJob =>
            /\ j.id # NoID => c.names[j.id] = Affinity[j.key]
            /\ \A n \in DOMAIN j.raw : c.names[j.raw[n] \div 4] # NoKey

\* It keeps the invariant.
LEMMA WriteInv ==
  ASSUME Inv, NEW p \in Procs, NEW c, NEW j, NEW d, NEW e, Writes(p, c, j, d, e)
  PROVE  Inv'
<1> DEFINE f == conn[p]
<1>1. Builds(p) /\ f \in Files /\ lock[f] = p /\ f = conn[p] /\ f > 0
  <2>1. Builds(p)
    BY Zenon DEF Writes, Builds
  <2>2. conn[p] > 0 /\ lock[conn[p]] = p
    BY <2>1, Zenon DEF Inv, Locks
  <2> QED
    BY <2>1, <2>2, ConnFile, Zenon
<1> HIDE DEF f
<1>u. UNCHANGED <<files, lock, epoch, conn, newest, path, stage>>
  BY Zenon DEF Writes
<1>h. /\ home' \in [Procs -> Int]
      /\ \A q \in Procs : home'[q] \in {0, home[q]} /\ (q # p => home'[q] = home[q])
  <2>1. home \in [Procs -> Int]
    BY Zenon DEF Inv, Types
  <2> QED
    BY <2>1 DEF Writes
<1>2. /\ tx'[f] = c /\ \A g \in Files \ {f} : tx'[g] = tx[g]
      /\ job'[p] = j /\ dbKeyIDs'[p] = d /\ engineKeyIDs'[p] = e
      /\ \A q \in Procs \ {p} : /\ job'[q] = job[q] /\ dbKeyIDs'[q] = dbKeyIDs[q]
                                /\ engineKeyIDs'[q] = engineKeyIDs[q]
  BY <1>1, Zenon DEF Writes, Inv, Types
<1>3. \A q \in Procs \ {p} : Builds(q) => conn[q] \in Files \ {f}
  <2> SUFFICES ASSUME NEW q \in Procs \ {p}, Builds(q)
               PROVE  conn[q] \in Files \ {f}
    BY Zenon
  <2>1. conn[q] > 0 /\ lock[conn[q]] = q
    BY Zenon DEF Inv, Locks
  <2>2. conn[q] \in Files
    BY <2>1, ConnFile, Zenon
  <2> QED
    BY <1>1, <2>1, <2>2, Zenon
<1>4. Types'
  <2>1. tx' \in [Files -> Stored] /\ job' \in [Procs -> Job]
    BY Zenon DEF Writes, Inv, Types
  <2>2. /\ dbKeyIDs' \in [Procs -> [Keys -> IDs]]
        /\ engineKeyIDs' \in [Procs -> [IDs -> Keys \cup {NoKey}]]
    BY Zenon DEF Writes, Inv, Types
  <2>3. \A q \in Procs : home'[q] \in 0 .. newest
    <3>1. newest \in Nat /\ \A q \in Procs : home[q] \in 0 .. newest
      BY BoundsAssumption DEF Inv, Types
    <3> QED
      BY <1>h, <3>1
  <2> QED
    BY <1>u, <1>h, <2>1, <2>2, <2>3, Zenon DEF Inv, Types
<1>5. Locks'
  <2>1. \A g \in Files : lock[g] # NoProc =>
          conn[lock[g]] = g /\ stage[lock[g]] \in {"building", "failing"}
    BY Holder, Zenon DEF Builds
  <2>2. \A q \in Procs : Builds(q) => conn[q] > 0 /\ lock[conn[q]] = q
    BY Zenon DEF Inv, Locks
  <2>3. \A g \in Files : lock[g] = NoProc => tx'[g] = files[g]
    <3>1. p # NoProc
      BY NamesAssumption, Zenon
    <3> QED
      BY <1>1, <1>2, <3>1, Zenon DEF Inv, Locks
  <2> QED
    BY <1>u, <2>1, <2>2, <2>3, ZenonT(60) DEF Locks, Builds
<1>6. Names'
  <2> SUFFICES ASSUME NEW g \in Files
               PROVE  /\ WellNamed(files'[g]) /\ WellNamed(tx'[g])
                      /\ \A id \in IDs : files'[g].names[id] # NoKey =>
                                           tx'[g].names[id] = files'[g].names[id]
    BY Zenon DEF Names
  <2>0. /\ files' = files /\ WellNamed(files[g]) /\ WellNamed(tx[g])
        /\ \A id \in IDs : files[g].names[id] # NoKey => tx[g].names[id] = files[g].names[id]
    BY <1>u, Zenon DEF Inv, Names
  <2>1. CASE g = f
    <3>1. \A id \in IDs : tx[f].names[id] # NoKey => c.names[id] = tx[f].names[id]
      BY <1>1, Zenon DEF Writes
    <3>2. WellNamed(c) /\ tx'[g] = c
      BY <1>2, <2>1, Zenon DEF Writes
    <3> QED
      BY ONLY <2>0, <2>1, <3>1, <3>2, Zenon
  <2>2. CASE g # f
    BY <1>2, <2>0, <2>2, Zenon
  <2> QED
    BY <2>1, <2>2, Zenon
<1>7. Homes'
  <2> SUFFICES ASSUME NEW q \in Procs
               PROVE  /\ home'[q] # 0 => conn[q] \in {0, Mismatch, home'[q]}
                      /\ stage[q] \in {"gone", "attaching"} =>
                           home'[q] = 0 /\ dbKeyIDs'[q] = NoIDs /\ engineKeyIDs'[q] = NoNames
    BY <1>u, Zenon DEF Homes, NoIDs, NoNames
  <2>1. CASE q = p
    BY <1>h, <2>1, Zenon DEF Writes, Inv, Homes
  <2>2. CASE q # p
    BY <1>2, <1>h, <2>2, Zenon DEF Inv, Homes
  <2> QED
    BY <2>1, <2>2, Zenon
<1>8. CachedIDsAreRight'
  <2> SUFFICES ASSUME NEW q \in Procs, home'[q] # 0
               PROVE  Right(NamesNext(q), dbKeyIDs'[q], engineKeyIDs'[q])
    BY RightCached, Zenon
  <2>1. home'[q] = home[q] /\ home[q] # 0 /\ lock' = lock /\ files' = files
    BY <1>u, <1>h, Zenon
  <2>2. home[q] \in Files
    BY <2>1, HomeFile, Zenon
  <2>3. CASE q = p
    <3>1. home[p] = f
      BY <1>1, <2>1, <2>3, HomeIsConn, Zenon
    <3>2. lock[home[p]] = p /\ tx'[home[p]] = c
      BY <1>1, <1>2, <3>1, Zenon
    <3>3. NamesNext(p) = c.names
      BY ONLY <2>1, <2>3, <3>2, Zenon DEF NamesNext
    <3>4. Right(c.names, d, e)
      BY <2>1, <2>3, Zenon DEF Writes, Right
    <3> QED
      BY <1>2, <2>3, <3>3, <3>4, Zenon
  <2>4. CASE q # p
    <3>1. lock[home[q]] = q => tx'[home[q]] = tx[home[q]]
      BY <1>1, <1>2, <2>2, <2>4, Zenon
    <3>2. NamesNext(q) = NamesOf(q)
      BY ONLY <2>1, <3>1, Zenon DEF NamesNext, NamesOf
    <3>3. Right(NamesOf(q), dbKeyIDs[q], engineKeyIDs[q])
      BY <2>1, CachedRight, Zenon
    <3> QED
      BY <1>2, <2>4, <3>2, <3>3, Zenon
  <2> QED
    BY <2>3, <2>4, Zenon
<1>9. Jobs'
  <2> SUFFICES ASSUME NEW q \in Procs, job'[q] # NoJob
               PROVE  /\ stage'[q] = "building" /\ job'[q].key \in Keys
                      /\ job'[q].result.value = job'[q].key
                      /\ home'[q] # 0 =>
                           /\ job'[q].id # NoID =>
                                tx'[conn'[q]].names[job'[q].id] = Affinity[job'[q].key]
                           /\ \A n \in DOMAIN job'[q].raw :
                                tx'[conn'[q]].names[job'[q].raw[n] \div 4] # NoKey
    BY Zenon DEF Jobs, NoJob
  <2>1. CASE q = p
    <3>1. /\ job'[q] = j /\ j # NoJob /\ stage'[q] = "building" /\ home'[q] = home'[p]
          /\ tx'[conn'[q]] = c
      BY <1>1, <1>2, <1>u, <2>1, Zenon DEF Writes
    <3>2. /\ j.key \in Keys /\ j.result.value = j.key
          /\ home'[p] # 0 => /\ j.id # NoID => c.names[j.id] = Affinity[j.key]
                             /\ \A n \in DOMAIN j.raw : c.names[j.raw[n] \div 4] # NoKey
      BY <3>1, Zenon DEF Writes
    <3> QED
      BY ONLY <3>1, <3>2, Zenon
  <2>2. CASE q # p
    <3>1. job'[q] = job[q] /\ stage[q] = "building"
      BY <1>2, <2>2, Zenon DEF Inv, Jobs
    <3>2. tx'[conn[q]] = tx[conn[q]]
      BY <1>2, <1>3, <2>2, <3>1, Zenon DEF Builds
    <3>3. /\ job[q].key \in Keys /\ job[q].result.value = job[q].key
          /\ home[q] # 0 =>
               /\ job[q].id # NoID => tx[conn[q]].names[job[q].id] = Affinity[job[q].key]
               /\ \A n \in DOMAIN job[q].raw :
                    tx[conn[q]].names[job[q].raw[n] \div 4] # NoKey
      BY <3>1, Zenon DEF Inv, Jobs
    <3>4. /\ job'[q] = job[q] /\ stage'[q] = "building" /\ home'[q] = home[q]
          /\ tx'[conn'[q]] = tx[conn[q]]
      BY <1>u, <1>h, <2>2, <3>1, <3>2, Zenon
    <3> QED
      BY ONLY <3>3, <3>4, Zenon
  <2> QED
    BY <2>1, <2>2, Zenon
<1>10. RowsAreOwn'
  <2>1. \A g \in Files : files'[g].mixed \/ OwnRows(files'[g])
    BY <1>u, Zenon DEF Inv, RowsAreOwn
  <2>2. \A g \in Files : tx'[g].mixed \/ OwnRows(tx'[g])
    BY <1>2, Zenon DEF Writes, Inv, RowsAreOwn
  <2> QED
    BY <2>1, <2>2, ZenonT(60) DEF RowsAreOwn, OwnRows
<1> QED
  BY <1>4, <1>5, <1>6, <1>7, <1>8, <1>9, <1>10, Zenon DEF Inv

\* The facts about a result under way.
LEMMA UnderWay ==
  ASSUME Inv, NEW p \in Procs, job[p] # NoJob
  PROVE  /\ stage[p] = "building" /\ job[p].key \in Keys /\ job[p].result.value = job[p].key
         /\ conn[p] \in Files /\ lock[conn[p]] = p /\ tx[conn[p]] \in Stored
         /\ home[p] # 0 => home[p] = conn[p]
         /\ job[p] \in Job
         /\ job[p].id \in IDs \cup {NoID} /\ job[p].raw \in Seq(Raws)
         /\ job[p].result \in [value : Keys \cup {NoKey}, builtAt : Int,
                               dependencies : Seq(KeyFlags)]
<1>1. stage[p] = "building" /\ job[p].key \in Keys /\ job[p].result.value = job[p].key
  BY Zenon DEF Inv, Jobs
<1>2. conn[p] > 0 /\ lock[conn[p]] = p
  BY <1>1, Zenon DEF Inv, Locks, Builds
<1>3. conn[p] \in Files
  BY <1>2, ConnFile, Zenon
<1>4. tx[conn[p]] \in Stored /\ job[p] \in Job
  BY <1>3, Zenon DEF Inv, Types
<1>5. home[p] # 0 => home[p] = conn[p]
  BY <1>2, HomeIsConn, Zenon
<1>6. /\ job[p].id \in IDs \cup {NoID} /\ job[p].raw \in Seq(Raws)
      /\ job[p].result \in [value : Keys \cup {NoKey}, builtAt : Int,
                            dependencies : Seq(KeyFlags)]
  BY <1>4, Zenon DEF Job
<1> QED
  BY <1>1, <1>2, <1>3, <1>4, <1>5, <1>6, Zenon

\* The row of a result is written, under the id of its key.
LEMMA StoreRowInv ==
  ASSUME Inv, NEW p \in Procs, StoreRow(p)
  PROVE  Inv'
<1> DEFINE f == conn[p]
           old == tx[f]
           id == job[p].id
           row == Row(job[p].result, job[p].raw)
           c == [old EXCEPT !.rows = [old.rows EXCEPT ![id] = row],
                            !.mixed = old.mixed \/ home[p] = 0]
<1>1. job[p] # NoJob /\ id # NoID
  BY Zenon DEF StoreRow
<1>2. /\ stage[p] = "building" /\ job[p].key \in Keys /\ job[p].result.value = job[p].key
      /\ f \in Files /\ old \in Stored /\ id \in IDs /\ job[p].raw \in Seq(Raws)
      /\ job[p].result \in [value : Keys \cup {NoKey}, builtAt : Int,
                            dependencies : Seq(KeyFlags)]
  BY <1>1, UnderWay, Zenon
<1>3. /\ row \in StoredRow /\ row.value = job[p].key /\ row.dependencies = job[p].raw
  <2> DEFINE r == job[p].result
  <2>1. row = [r EXCEPT !.dependencies = job[p].raw]
    BY Zenon DEF Row
  <2>2. r.value \in Keys /\ r.value = job[p].key
    BY <1>2, Zenon
  <2> HIDE DEF r, row
  <2>3. r \in [value : Keys \cup {NoKey}, builtAt : Int, dependencies : Seq(KeyFlags)]
    BY <1>2, Zenon DEF r
  <2>4. row \in [value : Keys, builtAt : Int, dependencies : Seq(Raws)]
    BY <1>2, <2>1, <2>2, <2>3, Zenon
  <2> QED
    BY <2>1, <2>2, <2>3, <2>4, Zenon DEF StoredRow
<1>4. tx' = [tx EXCEPT ![f] = c]
  BY <1>2, Zenon DEF StoreRow, Inv, Types, Stored
<1>5. /\ UNCHANGED <<files, lock, epoch, conn, home, newest, path, stage>>
      /\ job' = [job EXCEPT ![p] = NoJob]
      /\ UNCHANGED <<dbKeyIDs, engineKeyIDs>>
  BY Zenon DEF StoreRow, caches, history
<1> HIDE DEF row
<1>6. /\ c.names = old.names /\ c.last = old.last
      /\ c.rows = [old.rows EXCEPT ![id] = row] /\ c.mixed = (old.mixed \/ home[p] = 0)
  BY <1>2, Zenon DEF Stored
<1>7. c \in Stored
  <2>1. [old.rows EXCEPT ![id] = row] \in [IDs -> StoredRow] /\ (old.mixed \/ home[p] = 0) \in BOOLEAN
    BY <1>2, <1>3, Zenon DEF Stored
  <2> QED
    BY <1>2, <2>1, Zenon DEF Stored
<1> HIDE DEF c
<1>8. WellNamed(c) /\ (old.mixed \/ OwnRows(old))
  <2>1. WellNamed(old) /\ (old.mixed \/ OwnRows(old))
    BY <1>2, Zenon DEF Inv, Names, RowsAreOwn
  <2> QED
    BY <1>6, <2>1, Zenon DEF WellNamed
<1>9. c.mixed \/ OwnRows(c)
  <2> SUFFICES ASSUME ~old.mixed, home[p] # 0
               PROVE  OwnRows(c)
    BY <1>6, Zenon
  <2>1. /\ old.names[id] = Affinity[job[p].key]
        /\ \A n \in DOMAIN job[p].raw : old.names[job[p].raw[n] \div 4] # NoKey
    BY <1>1, Zenon DEF Inv, Jobs
  <2>2. OwnRows(old)
    BY <1>8, Zenon
  <2> SUFFICES ASSUME NEW i \in IDs, c.rows[i] # NoRow
               PROVE  /\ c.names[i] = Affinity[c.rows[i].value]
                      /\ \A n \in DOMAIN c.rows[i].dependencies :
                           c.names[c.rows[i].dependencies[n] \div 4] # NoKey
    BY Zenon DEF OwnRows
  <2>3. CASE i = id
    <3>1. c.rows[i] = row /\ c.names = old.names
      BY <1>2, <1>6, <2>3, Zenon DEF Stored
    <3> QED
      BY <1>3, <2>1, <2>3, <3>1, Zenon
  <2>4. CASE i # id
    <3>1. c.rows[i] = old.rows[i] /\ c.names = old.names
      BY <1>2, <1>6, <2>4, Zenon DEF Stored
    <3> QED
      BY <2>2, <3>1, Zenon DEF OwnRows
  <2> QED
    BY <2>3, <2>4, Zenon
<1>10. home[p] # 0 =>
         /\ \A k \in Keys : dbKeyIDs[p][k] # 0 => c.names[dbKeyIDs[p][k]] = Affinity[k]
         /\ \A i \in IDs : engineKeyIDs[p][i] # NoKey =>
                             c.names[i] = Affinity[engineKeyIDs[p][i]]
  <2>1. home[p] # 0 => home[p] = f /\ lock[f] = p
    BY <1>1, UnderWay, Zenon
  <2>2. home[p] # 0 => NamesOf(p) = c.names
    BY <1>6, <2>1, Zenon DEF NamesOf
  <2>3. home[p] # 0 => Right(NamesOf(p), dbKeyIDs[p], engineKeyIDs[p])
    BY CachedRight, Zenon
  <2> QED
    BY ONLY <2>2, <2>3, Zenon DEF Right
<1> DEFINE d == dbKeyIDs[p]
           e == engineKeyIDs[p]
           j == NoJob
<1>11. /\ d \in [Keys -> IDs] /\ e \in [IDs -> Keys \cup {NoKey}]
       /\ dbKeyIDs' = [dbKeyIDs EXCEPT ![p] = d]
       /\ engineKeyIDs' = [engineKeyIDs EXCEPT ![p] = e]
  BY <1>5, Zenon DEF Inv, Types
<1>12. j \in Job /\ job' = [job EXCEPT ![p] = j]
  BY <1>5, NoJobIsJob, Zenon
<1>13. \A i \in IDs : tx[conn[p]].names[i] # NoKey => c.names[i] = tx[conn[p]].names[i]
  BY <1>6, Zenon
<1>14. tx' = [tx EXCEPT ![conn[p]] = c]
  BY <1>4, Zenon
<1>15. j # NoJob => j.key \in Keys /\ j.result.value = j.key
  BY Zenon
<1>16. home[p] # 0 =>
         /\ \A k \in Keys : d[k] # 0 => c.names[d[k]] = Affinity[k]
         /\ \A i \in IDs : e[i] # NoKey => c.names[i] = Affinity[e[i]]
         /\ j # NoJob =>
              /\ j.id # NoID => c.names[j.id] = Affinity[j.key]
              /\ \A n \in DOMAIN j.raw : c.names[j.raw[n] \div 4] # NoKey
  BY <1>10, Zenon
<1> HIDE DEF d, e, f, j, old, id
<1> QED
  <2>1. Writes(p, c, j, d, e)
    BY <1>2, <1>5, <1>7, <1>8, <1>9, <1>11, <1>12, <1>13, <1>14, <1>15, <1>16, Zenon DEF Writes
  <2> QED
    BY <2>1, WriteInv, Zenon

\* What a process that may read its file knows is what it sees there.
LEMMA Knows ==
  ASSUME Inv, NEW p \in Procs, conn[p] > 0, MayRead(p)
  PROVE  /\ conn[p] \in Files /\ tx[conn[p]] \in Stored
         /\ home[p] # 0 =>
              /\ \A k \in Keys : dbKeyIDs[p][k] # 0 =>
                   tx[conn[p]].names[dbKeyIDs[p][k]] = Affinity[k]
              /\ \A id \in IDs : engineKeyIDs[p][id] # NoKey =>
                   tx[conn[p]].names[id] = Affinity[engineKeyIDs[p][id]]
<1>1. conn[p] \in Files
  BY ConnFile, Zenon
<1>2. tx[conn[p]] \in Stored
  BY <1>1, Zenon DEF Inv, Types
<1>3. ASSUME home[p] # 0
      PROVE  /\ \A k \in Keys : dbKeyIDs[p][k] # 0 =>
                  tx[conn[p]].names[dbKeyIDs[p][k]] = Affinity[k]
             /\ \A id \in IDs : engineKeyIDs[p][id] # NoKey =>
                  tx[conn[p]].names[id] = Affinity[engineKeyIDs[p][id]]
  <2>1. home[p] = conn[p]
    BY <1>3, HomeIsConn, Zenon
  <2>2. lock[conn[p]] # p => tx[conn[p]] = files[conn[p]]
    BY <1>1, Zenon DEF Inv, Locks, MayRead
  <2>3. NamesOf(p) = tx[conn[p]].names
    BY <2>1, <2>2, Zenon DEF NamesOf
  <2>4. Right(NamesOf(p), dbKeyIDs[p], engineKeyIDs[p])
    BY <1>3, CachedRight, Zenon
  <2> QED
    BY ONLY <2>3, <2>4, Zenon DEF Right
<1> QED
  BY <1>1, <1>2, <1>3, Zenon

\* getKeyID() and the lookups find the id of a key.
LEMMA FindsID ==
  ASSUME Inv, NEW p \in Procs, conn[p] > 0, MayRead(p), NEW k \in Keys
  PROVE  /\ IDOf(p, k) \in IDs
         /\ IDOf(p, k) # 0 /\ (home[p] # 0 \/ ~Cached(p, k)) =>
              tx[conn[p]].names[IDOf(p, k)] = Affinity[k]
<1>1. CASE Cached(p, k)
  <2>1. IDOf(p, k) = dbKeyIDs[p][k]
    BY <1>1, Zenon DEF IDOf
  <2>2. dbKeyIDs[p][k] \in IDs
    <3>1. dbKeyIDs[p] \in [Keys -> IDs]
      BY Zenon DEF Inv, Types
    <3> QED
      BY <3>1, Zenon
  <2> QED
    BY <1>1, <2>1, <2>2, Knows, Zenon
<1>2. CASE ~Cached(p, k)
  <2>1. IDOf(p, k) = Find(tx[conn[p]], k)
    BY <1>2, Zenon DEF IDOf, Sees
  <2> DEFINE names == tx[conn[p]].names
  <2>2. CASE \E id \in IDs : names[id] = Affinity[k]
    <3>1. Find(tx[conn[p]], k) = CHOOSE id \in IDs : names[id] = Affinity[k]
      BY <2>2, Zenon DEF Find
    <3> HIDE DEF names
    <3>2. Find(tx[conn[p]], k) \in IDs /\ names[Find(tx[conn[p]], k)] = Affinity[k]
      BY <2>2, <3>1, Zenon
    <3> QED
      BY <2>1, <3>2, Zenon DEF names
  <2>3. CASE ~\E id \in IDs : names[id] = Affinity[k]
    <3>1. Find(tx[conn[p]], k) = 0
      BY <2>3, Zenon DEF Find
    <3> QED
      BY <2>1, <3>1, ZeroIsID, Zenon
  <2> QED
    BY <2>2, <2>3, Zenon
<1> QED
  BY <1>1, <1>2, Zenon

\* A process learns ids, and nothing else of the database changes.
Learns(p, d, e) ==
  /\ d \in [Keys -> IDs] /\ e \in [IDs -> Keys \cup {NoKey}]
  /\ dbKeyIDs' = [dbKeyIDs EXCEPT ![p] = d]
  /\ engineKeyIDs' = [engineKeyIDs EXCEPT ![p] = e]
  /\ UNCHANGED <<files, lock, tx, job, epoch, conn, home, newest, path, stage>>
  /\ home[p] # 0 =>
       /\ \A k \in Keys : d[k] # 0 => tx[conn[p]].names[d[k]] = Affinity[k]
       /\ \A id \in IDs : e[id] # NoKey => tx[conn[p]].names[id] = Affinity[e[id]]

\* It keeps the invariant.
LEMMA LearnInv ==
  ASSUME Inv, NEW p \in Procs, conn[p] > 0, MayRead(p), NEW d, NEW e, Learns(p, d, e),
         stage[p] \notin {"gone", "attaching"}
  PROVE  Inv'
<1>1. /\ dbKeyIDs'[p] = d /\ engineKeyIDs'[p] = e
      /\ \A q \in Procs \ {p} : dbKeyIDs'[q] = dbKeyIDs[q] /\ engineKeyIDs'[q] = engineKeyIDs[q]
  BY Zenon DEF Inv, Types, Learns
<1>2. UNCHANGED <<files, lock, tx, job, epoch, conn, home, newest, path, stage>>
  BY Zenon DEF Learns
<1>3. Types'
  <2>1. /\ dbKeyIDs' \in [Procs -> [Keys -> IDs]]
        /\ engineKeyIDs' \in [Procs -> [IDs -> Keys \cup {NoKey}]]
    BY Zenon DEF Inv, Types, Learns
  <2> QED
    BY <1>2, <2>1, Zenon DEF Inv, Types
<1>4. Locks'
  BY <1>2, Zenon DEF Inv, Locks, Builds
<1>5. Names' /\ RowsAreOwn'
  BY <1>2, Contents, Zenon
<1>6. Homes'
  <2> SUFFICES ASSUME NEW q \in Procs
               PROVE  /\ home[q] # 0 => conn[q] \in {0, Mismatch, home[q]}
                      /\ stage[q] \in {"gone", "attaching"} =>
                           home[q] = 0 /\ dbKeyIDs'[q] = NoIDs /\ engineKeyIDs'[q] = NoNames
    BY <1>2, Zenon DEF Homes, NoIDs, NoNames
  <2> QED
    BY <1>1, Zenon DEF Inv, Homes
<1>7. CachedIDsAreRight'
  <2> SUFFICES ASSUME NEW q \in Procs, home'[q] # 0
               PROVE  Right(NamesNext(q), dbKeyIDs'[q], engineKeyIDs'[q])
    BY RightCached, Zenon
  <2>1. home'[q] = home[q] /\ home[q] # 0 /\ NamesNext(q) = NamesOf(q)
    BY <1>2, Zenon DEF NamesNext, NamesOf
  <2>2. CASE q = p
    <3>1. home[p] = conn[p] /\ conn[p] \in Files
      BY <2>1, <2>2, HomeIsConn, ConnFile, Zenon
    <3>2. lock[conn[p]] # p => tx[conn[p]] = files[conn[p]]
      BY <3>1, Zenon DEF Inv, Locks, MayRead
    <3>3. NamesOf(p) = tx[conn[p]].names
      BY <3>1, <3>2, Zenon DEF NamesOf
    <3>4. Right(tx[conn[p]].names, d, e)
      BY <2>1, <2>2, Zenon DEF Learns, Right
    <3> QED
      BY <1>1, <2>1, <2>2, <3>3, <3>4, Zenon
  <2>3. CASE q # p
    BY <1>1, <2>1, <2>3, CachedRight, Zenon
  <2> QED
    BY <2>2, <2>3, Zenon
<1>8. Jobs'
  BY <1>2, JobsFrame, Zenon
<1> QED
  BY <1>3, <1>4, <1>5, <1>6, <1>7, <1>8, Zenon DEF Inv

\* INSERT INTO key_names.
AddName(old, k, id) ==
  [old EXCEPT !.names = [old.names EXCEPT ![id] = Affinity[k]], !.last = id]

\* A new name takes no name away, and spoils no row.
LEMMA NewName ==
  ASSUME NEW old \in Stored, NEW k \in Keys, NEW id \in IDs, id = old.last + 1,
         WellNamed(old), old.mixed \/ OwnRows(old)
  PROVE  LET c == AddName(old, k, id)
         IN  /\ c \in Stored /\ WellNamed(c) /\ (c.mixed \/ OwnRows(c))
             /\ \A i \in IDs : old.names[i] # NoKey => c.names[i] = old.names[i]
             /\ c.names[id] = Affinity[k]
<1> DEFINE c == AddName(old, k, id)
<1>1. /\ c.names = [old.names EXCEPT ![id] = Affinity[k]] /\ c.last = id
      /\ c.rows = old.rows /\ c.mixed = old.mixed
  BY Zenon DEF Stored, AddName
<1>2. old.names \in [IDs -> Keys \cup {NoKey}] /\ old.last \in IDs /\ old.last \in Int
  BY BoundsAssumption DEF Stored
<1>3. c.names[id] = Affinity[k] /\ \A i \in IDs \ {id} : c.names[i] = old.names[i]
  <2> DEFINE a == Affinity[k]
             names == old.names
             I == IDs
             new == c.names
  <2>1. new = [names EXCEPT ![id] = a] /\ names \in [I -> Keys \cup {NoKey}] /\ id \in I
    BY <1>1, <1>2, Zenon
  <2> HIDE DEF a, names, I, new
  <2>2. new[id] = a /\ \A i \in I \ {id} : new[i] = names[i]
    BY ONLY <2>1, Zenon
  <2> QED
    BY <2>2, Zenon DEF a, names, I, new
<1>4. old.names[id] = NoKey
  <2>1. ~(id <= old.last)
    BY ONLY id = old.last + 1, <1>2, SMT
  <2> QED
    BY <2>1, Zenon DEF WellNamed
<1>5. c \in Stored
  <2>1. c.names \in [IDs -> Keys \cup {NoKey}]
    BY <1>1, <1>2, AffinityAssumption, ZenonT(60)
  <2> QED
    BY <1>1, <2>1, ZenonT(60) DEF Stored, AddName
<1> HIDE DEF c
<1>6. WellNamed(c)
  <2>0. c.names[0] = NoKey
    <3>1. id # 0
      BY ONLY id = old.last + 1, <1>2, BoundsAssumption, SMT
    <3> QED
      BY <1>3, <3>1, ZeroIsID, Zenon DEF WellNamed
  <2> SUFFICES ASSUME NEW i \in IDs, c.names[i] # NoKey
               PROVE  i <= c.last /\ Affinity[c.names[i]] = c.names[i]
    BY <2>0, Zenon DEF WellNamed
  <2>1. CASE i = id
    <3>1. c.names[i] = Affinity[k] /\ c.last = id /\ Affinity[Affinity[k]] = Affinity[k]
      BY <1>1, <1>3, <2>1, AffinityAssumption, Zenon
    <3>2. id <= id
      BY ONLY id \in IDs, BoundsAssumption, SMT
    <3> QED
      BY ONLY <2>1, <3>1, <3>2, Zenon
  <2>2. CASE i # id
    <3>1. c.names[i] = old.names[i] /\ i <= old.last /\ Affinity[old.names[i]] = old.names[i]
      BY <1>3, <2>2, Zenon DEF WellNamed
    <3> QED
      <4>1. i <= id
        BY ONLY i \in IDs, id = old.last + 1, <1>2, <3>1, BoundsAssumption, SMT
      <4> QED
        BY ONLY <1>1, <3>1, <4>1, Zenon
  <2> QED
    BY <2>1, <2>2, Zenon
<1>7. \A i \in IDs : old.names[i] # NoKey => c.names[i] = old.names[i]
  BY <1>3, <1>4, Zenon
<1>8. c.mixed \/ OwnRows(c)
  <2> SUFFICES ASSUME OwnRows(old), NEW i \in IDs, c.rows[i] # NoRow
               PROVE  /\ c.names[i] = Affinity[c.rows[i].value]
                      /\ \A n \in DOMAIN c.rows[i].dependencies :
                           c.names[c.rows[i].dependencies[n] \div 4] # NoKey
    BY <1>1, Zenon DEF OwnRows
  <2> DEFINE row == old.rows[i]
  <2>1. c.rows[i] = row /\ row # NoRow
    BY <1>1, Zenon
  <2>2. row \in [value : Keys, builtAt : Int, dependencies : Seq(Raws)]
    BY <2>1, Zenon DEF Stored, StoredRow
  <2>3. /\ old.names[i] = Affinity[row.value]
        /\ \A n \in DOMAIN row.dependencies : old.names[row.dependencies[n] \div 4] # NoKey
    BY <2>1, Zenon DEF OwnRows
  <2> HIDE DEF row
  <2>4. c.names[i] = Affinity[row.value]
    <3>1. row.value \in Keys
      BY <2>2, Zenon
    <3>2. Affinity[row.value] # NoKey
      BY <3>1, AffinityAssumption, NamesAssumption, Zenon
    <3> QED
      BY <1>7, <2>3, <3>2, Zenon
  <2>5. \A n \in DOMAIN row.dependencies : c.names[row.dependencies[n] \div 4] # NoKey
    <3> SUFFICES ASSUME NEW n \in DOMAIN row.dependencies
                 PROVE  c.names[row.dependencies[n] \div 4] # NoKey
      BY Zenon
    <3>1. row.dependencies[n] \in Raws
      <4>1. row.dependencies \in Seq(Raws)
        BY <2>2, Zenon
      <4> QED
        BY ONLY <4>1, n \in DOMAIN row.dependencies, SMT
    <3>2. row.dependencies[n] \div 4 \in IDs
      BY <3>1, Zenon DEF Raws
    <3> QED
      BY <1>7, <2>3, <3>2, Zenon
  <2> QED
    BY <2>1, <2>4, <2>5, Zenon
<1> QED
  BY <1>3, <1>5, <1>6, <1>7, <1>8, Zenon DEF c

\* The next id, for a key that has none.
NextID(c, k, id) == id = c.last + 1 /\ Find(c, k) = 0

\* What getKeyID() does, whether or not its search fails: the result under way gets
\* the id, of a new row for a key that had none.  The id is right, or else the process
\* has no home any more.
Gets(p, id) ==
  /\ WantsID(p) /\ Wanted(p) \in Keys /\ Takes(p, id)
  /\ \/ tx' = tx
     \/ /\ tx' = [tx EXCEPT ![conn[p]] = AddName(tx[conn[p]], Wanted(p), id)]
        /\ NextID(tx[conn[p]], Wanted(p), id)
  /\ home' = home \/ home' = [home EXCEPT ![p] = 0]
  /\ home'[p] # 0 => tx'[conn[p]].names[id] = Affinity[Wanted(p)]

\* setRuleResult() wants the id of the key, or of the next dependency.
LEMMA WantsKey ==
  ASSUME Inv, NEW p \in Procs, WantsID(p)
  PROVE  /\ Wanted(p) \in Keys
         /\ job[p].id = NoID => Wanted(p) = job[p].key
         /\ job[p].id # NoID =>
              LET dep == job[p].result.dependencies[Len(job[p].raw) + 1]
              IN  /\ Len(job[p].raw) + 1 \in DOMAIN job[p].result.dependencies
                  /\ dep \in KeyFlags /\ Wanted(p) = dep.key
<1>1. /\ job[p] # NoJob
      /\ job[p].id = NoID \/ Len(job[p].raw) < Len(job[p].result.dependencies)
  BY Zenon DEF WantsID
<1>2. /\ job[p].key \in Keys /\ job[p].raw \in Seq(Raws)
      /\ job[p].result.dependencies \in Seq(KeyFlags)
  BY <1>1, UnderWay, Zenon
<1>3. CASE job[p].id = NoID
  BY <1>2, <1>3, Zenon DEF Wanted
<1>4. CASE job[p].id # NoID
  <2>1. PICK n : n = Len(job[p].raw) + 1
    BY Zenon
  <2>2. n \in DOMAIN job[p].result.dependencies
    <3>1. Len(job[p].raw) < Len(job[p].result.dependencies)
      BY <1>1, <1>4, Zenon
    <3> QED
      BY ONLY <1>2, <2>1, <3>1, SMT
  <2>3. PICK dep : dep = job[p].result.dependencies[n]
    BY Zenon
  <2>4. dep \in KeyFlags
    BY <1>2, <2>2, <2>3, Element, Zenon
  <2>5. dep.key \in Keys /\ Wanted(p) = dep.key
    BY <1>4, <2>1, <2>3, <2>4, Zenon DEF Wanted, KeyFlags
  <2> QED
    BY <1>4, <2>1, <2>2, <2>3, <2>4, <2>5, Zenon
<1> QED
  BY <1>3, <1>4, Zenon

\* INSERT OR IGNORE gives a key that has no id the next one.
LEMMA InsertIs ==
  ASSUME Inv, NEW p \in Procs, WantsID(p), InsertIntoKeys(p)
  PROVE  /\ LastRowID(p) \in IDs /\ Takes(p, LastRowID(p))
         /\ IsNew(p) =>
              /\ tx' = [tx EXCEPT ![conn[p]] = AddName(tx[conn[p]], Wanted(p), LastRowID(p))]
              /\ NextID(tx[conn[p]], Wanted(p), LastRowID(p))
              /\ tx'[conn[p]].names[LastRowID(p)] = Affinity[Wanted(p)]
         /\ ~IsNew(p) => tx' = tx
<1>1. LastRowID(p) \in IDs /\ Takes(p, LastRowID(p)) /\ (~IsNew(p) => tx' = tx)
  BY Zenon DEF InsertIntoKeys
<1>2. ASSUME IsNew(p)
      PROVE  /\ tx' = [tx EXCEPT ![conn[p]] = AddName(tx[conn[p]], Wanted(p), LastRowID(p))]
             /\ NextID(tx[conn[p]], Wanted(p), LastRowID(p))
             /\ tx'[conn[p]].names[LastRowID(p)] = Affinity[Wanted(p)]
  <2>1. conn[p] \in Files /\ tx[conn[p]] \in Stored
    BY UnderWay, Zenon DEF WantsID
  <2>2. PICK id : id = LastRowID(p)
    BY Zenon
  <2>3. tx' = [tx EXCEPT ![conn[p]] = AddName(tx[conn[p]], Wanted(p), id)]
    BY <1>2, <2>1, <2>2, Zenon DEF InsertIntoKeys, AddName, Inv, Types, Stored
  <2>4. NextID(tx[conn[p]], Wanted(p), id)
    BY <1>2, <2>2, Zenon DEF NextID, LastRowID, IsNew, Sees
  <2>5. tx'[conn[p]] = AddName(tx[conn[p]], Wanted(p), id)
    BY <2>1, <2>3, Zenon DEF Inv, Types
  <2>6. AddName(tx[conn[p]], Wanted(p), id).names[id] = Affinity[Wanted(p)]
    BY <1>1, <2>1, <2>2, Zenon DEF AddName, Stored
  <2> QED
    BY <2>2, <2>3, <2>4, <2>5, <2>6, Zenon
<1> QED
  BY <1>1, <1>2, Zenon

\* Both ways that getKeyID() can go.
LEMMA GetKeyIDGets ==
  ASSUME Inv, NEW p \in Procs, GetKeyID(p) \/ FindFails(p)
  PROVE  \E id \in IDs : Gets(p, id)
<1>1. WantsID(p) /\ job[p] # NoJob
  BY Zenon DEF GetKeyID, FindFails, WantsID
<1>2. conn[p] \in Files /\ conn[p] > 0 /\ MayRead(p) /\ Wanted(p) \in Keys
  <2>1. conn[p] \in Files /\ lock[conn[p]] = p
    BY <1>1, UnderWay, Zenon
  <2> QED
    BY <1>1, <2>1, FileIs, WantsKey, Zenon DEF MayRead
<1>3. CASE GetKeyID(p) /\ IDOf(p, Wanted(p)) # 0
  <2>1. PICK id : id = IDOf(p, Wanted(p))
    BY Zenon
  <2>2. Takes(p, id) /\ UNCHANGED <<tx, home>> /\ id # 0
    BY <1>3, <2>1, Zenon DEF GetKeyID
  <2>3. id \in IDs /\ (home[p] # 0 => tx[conn[p]].names[id] = Affinity[Wanted(p)])
    BY <1>2, <1>3, <2>1, FindsID, Zenon
  <2> QED
    BY <1>1, <1>2, <2>2, <2>3, Zenon DEF Gets
<1>4. CASE GetKeyID(p) /\ IDOf(p, Wanted(p)) = 0
  <2>1. InsertIntoKeys(p) /\ UNCHANGED home
    BY <1>4, Zenon DEF GetKeyID
  <2>2. IsNew(p)
    BY <1>4, Zenon DEF IsNew, IDOf, Cached
  <2> QED
    BY <1>1, <1>2, <2>1, <2>2, InsertIs, Zenon DEF Gets
<1>5. CASE FindFails(p)
  <2>1. PICK id : id = LastRowID(p)
    BY Zenon
  <2>2. /\ InsertIntoKeys(p)
        /\ home' = [home EXCEPT ![p] =
             IF tx'[conn[p]].names[id] = Affinity[Wanted(p)] THEN @ ELSE 0]
    BY <1>5, <2>1, Zenon DEF FindFails
  <2>3. /\ id \in IDs /\ Takes(p, id)
        /\ \/ tx' = tx
           \/ /\ tx' = [tx EXCEPT ![conn[p]] = AddName(tx[conn[p]], Wanted(p), id)]
              /\ NextID(tx[conn[p]], Wanted(p), id)
    BY <1>1, <2>1, <2>2, InsertIs, Zenon
  <2>4. home \in [Procs -> Int]
    BY Zenon DEF Inv, Types
  <2>5. CASE tx'[conn[p]].names[id] = Affinity[Wanted(p)]
    <3>1. home' = home
      BY <2>2, <2>4, <2>5, Zenon
    <3> QED
      BY <1>1, <1>2, <2>3, <2>5, <3>1, Zenon DEF Gets
  <2>6. CASE tx'[conn[p]].names[id] # Affinity[Wanted(p)]
    <3>1. home' = [home EXCEPT ![p] = 0] /\ home'[p] = 0
      BY <2>2, <2>4, <2>6, Zenon
    <3> QED
      BY <1>1, <1>2, <2>3, <3>1, Zenon DEF Gets
  <2> QED
    BY <2>5, <2>6, Zenon
<1> QED
  BY <1>3, <1>4, <1>5, Zenon

\* The id of a key, or of a dependency, of the result under way.
LEMMA GetsInv ==
  ASSUME Inv, NEW p \in Procs, NEW id \in IDs, Gets(p, id)
  PROVE  Inv'
<1> DEFINE k == Wanted(p)
           old == tx[conn[p]]
           c == tx'[conn[p]]
           cached == Cached(p, k)
           dep == job[p].result.dependencies[Len(job[p].raw) + 1]
           d == IF id = 0 THEN dbKeyIDs[p] ELSE [dbKeyIDs[p] EXCEPT ![k] = id]
           e == IF cached \/ id = 0 THEN engineKeyIDs[p]
                ELSE [engineKeyIDs[p] EXCEPT ![id] = k]
           j == IF job[p].id = NoID THEN [job[p] EXCEPT !.id = id]
                ELSE [job[p] EXCEPT !.raw = Append(job[p].raw, Encode(id, dep))]
<1>1. /\ job[p] # NoJob /\ WantsID(p)
      /\ job[p].id = NoID \/ Len(job[p].raw) < Len(job[p].result.dependencies)
  BY Zenon DEF Gets, WantsID
<1>2. /\ stage[p] = "building" /\ job[p].key \in Keys /\ job[p].result.value = job[p].key
      /\ conn[p] \in Files /\ lock[conn[p]] = p /\ old \in Stored /\ job[p] \in Job
      /\ job[p].id \in IDs \cup {NoID} /\ job[p].raw \in Seq(Raws)
      /\ job[p].result.dependencies \in Seq(KeyFlags)
  BY <1>1, UnderWay, Zenon
<1>3. conn[p] > 0 /\ MayRead(p)
  BY <1>2, FileIs, Zenon DEF MayRead
<1>4. job[p].id # NoID => dep \in KeyFlags
  BY <1>1, WantsKey, Zenon
<1>5. k \in Keys /\ (job[p].id = NoID => k = job[p].key) /\ (job[p].id # NoID => k = dep.key)
  BY <1>1, WantsKey, Zenon
<1>6. /\ UNCHANGED <<files, lock, epoch, conn, newest, path, stage>>
      /\ job' = [job EXCEPT ![p] = j]
      /\ dbKeyIDs' = [dbKeyIDs EXCEPT ![p] = d]
  <2>1. UNCHANGED <<files, lock, epoch, conn, newest, path, stage>>
    BY Zenon DEF Gets, Takes
  <2>2. job' = [job EXCEPT ![p] = j]
    BY Zenon DEF Gets, Takes
  <2>3. dbKeyIDs' = [dbKeyIDs EXCEPT ![p] = d]
    BY Zenon DEF Gets, Takes, Inv, Types
  <2> QED
    BY <2>1, <2>2, <2>3, Zenon
<1>7. engineKeyIDs' = [engineKeyIDs EXCEPT ![p] = e]
  BY Zenon DEF Gets, Takes, Inv, Types
<1>8. tx' = [tx EXCEPT ![conn[p]] = c]
  <2>1. tx' = tx \/ \E x : tx' = [tx EXCEPT ![conn[p]] = x]
    BY Zenon DEF Gets
  <2>2. DOMAIN tx = Files /\ tx = [f \in Files |-> tx[f]]
    BY Zenon DEF Inv, Types
  <2> QED
    BY <1>2, <2>1, <2>2, Zenon
<1>9. \/ c = old
      \/ c = AddName(old, k, id) /\ id = old.last + 1
  BY <1>2, Zenon DEF Gets, NextID, Inv, Types
<1>10. /\ home' = home \/ home' = [home EXCEPT ![p] = 0]
       /\ home'[p] # 0 => home[p] # 0 /\ c.names[id] = Affinity[k]
  BY Zenon DEF Gets, Inv, Types
<1>11. WellNamed(old) /\ (old.mixed \/ OwnRows(old))
  BY <1>2, Zenon DEF Inv, Names, RowsAreOwn
<1> HIDE DEF k, cached, c, dep, old
<1>12. /\ c \in Stored /\ WellNamed(c) /\ (c.mixed \/ OwnRows(c))
       /\ \A i \in IDs : old.names[i] # NoKey => c.names[i] = old.names[i]
  <2>1. CASE c = old
    BY <1>2, <1>11, <2>1, Zenon
  <2>2. CASE c = AddName(old, k, id) /\ id = old.last + 1
    <3>1. /\ old \in Stored /\ k \in Keys /\ id \in IDs /\ id = old.last + 1
          /\ WellNamed(old) /\ (old.mixed \/ OwnRows(old))
          /\ c = AddName(old, k, id)
      BY <1>2, <1>5, <1>11, <2>2, Zenon
    <3> QED
      <4>1. LET b == AddName(old, k, id)
            IN  /\ b \in Stored /\ WellNamed(b) /\ (b.mixed \/ OwnRows(b))
                /\ \A i \in IDs : old.names[i] # NoKey => b.names[i] = old.names[i]
                /\ b.names[id] = Affinity[k]
        BY <3>1, NewName, ZenonT(60)
      <4> QED
        BY ONLY <3>1, <4>1, Zenon
  <2> QED
    BY <1>9, <2>1, <2>2, Zenon
<1>13. /\ d \in [Keys -> IDs] /\ e \in [IDs -> Keys \cup {NoKey}]
       /\ \A l \in Keys : d[l] = dbKeyIDs[p][l] \/ (l = k /\ d[l] = id)
       /\ \A i \in IDs : e[i] = engineKeyIDs[p][i] \/ (i = id /\ e[i] = k)
  <2>1. dbKeyIDs[p] \in [Keys -> IDs] /\ engineKeyIDs[p] \in [IDs -> Keys \cup {NoKey}]
    BY Zenon DEF Inv, Types
  <2>2. CASE id = 0
    BY <2>1, <2>2, Zenon
  <2>3. CASE id # 0
    <3>1. d = [dbKeyIDs[p] EXCEPT ![k] = id]
      BY <2>3, Zenon
    <3>2. e = engineKeyIDs[p] \/ e = [engineKeyIDs[p] EXCEPT ![id] = k]
      BY Zenon
    <3> HIDE DEF d, e
    <3>3. d \in [Keys -> IDs] /\ \A l \in Keys : d[l] = dbKeyIDs[p][l] \/ (l = k /\ d[l] = id)
      BY <1>5, <2>1, <3>1, Zenon
    <3>4. /\ e \in [IDs -> Keys \cup {NoKey}]
          /\ \A i \in IDs : e[i] = engineKeyIDs[p][i] \/ (i = id /\ e[i] = k)
      BY <1>5, <2>1, <3>2, Zenon
    <3> QED
      BY <3>3, <3>4, Zenon
  <2> QED
    BY <2>2, <2>3, Zenon
<1>14. ASSUME home'[p] # 0
       PROVE  /\ \A l \in Keys : d[l] # 0 => c.names[d[l]] = Affinity[l]
              /\ \A i \in IDs : e[i] # NoKey => c.names[i] = Affinity[e[i]]
  <2>1. /\ \A l \in Keys : dbKeyIDs[p][l] # 0 => old.names[dbKeyIDs[p][l]] = Affinity[l]
        /\ \A i \in IDs : engineKeyIDs[p][i] # NoKey =>
                            old.names[i] = Affinity[engineKeyIDs[p][i]]
    BY <1>3, <1>10, <1>14, Knows, Zenon DEF old
  <2>2. /\ \A l \in Keys : dbKeyIDs[p][l] \in IDs /\ Affinity[l] \in Keys
        /\ \A i \in IDs : engineKeyIDs[p][i] \in Keys \cup {NoKey}
    <3>1. dbKeyIDs[p] \in [Keys -> IDs] /\ engineKeyIDs[p] \in [IDs -> Keys \cup {NoKey}]
      BY Zenon DEF Inv, Types
    <3> QED
      BY <3>1, AffinityAssumption, Zenon
  <2> HIDE DEF d, e
  <2>3. \A l \in Keys : dbKeyIDs[p][l] # 0 => c.names[dbKeyIDs[p][l]] = Affinity[l]
    <3> SUFFICES ASSUME NEW l \in Keys, dbKeyIDs[p][l] # 0
                 PROVE  c.names[dbKeyIDs[p][l]] = Affinity[l]
      BY Zenon
    <3>1. dbKeyIDs[p][l] \in IDs
      BY <2>2, Zenon
    <3>2. Affinity[l] # NoKey
      BY <2>2, NamesAssumption, Zenon
    <3> QED
      BY <1>12, <2>1, <3>1, <3>2, Zenon
  <2>4. \A i \in IDs : engineKeyIDs[p][i] # NoKey => c.names[i] = Affinity[engineKeyIDs[p][i]]
    <3> SUFFICES ASSUME NEW i \in IDs, engineKeyIDs[p][i] # NoKey
                 PROVE  c.names[i] = Affinity[engineKeyIDs[p][i]]
      BY Zenon
    <3>1. Affinity[engineKeyIDs[p][i]] # NoKey
      BY <2>2, NamesAssumption, Zenon
    <3> QED
      BY <1>12, <2>1, <3>1, Zenon
  <2>5. \A l \in Keys : d[l] # 0 => c.names[d[l]] = Affinity[l]
    BY <1>10, <1>13, <1>14, <2>3, Zenon
  <2>6. \A i \in IDs : e[i] # NoKey => c.names[i] = Affinity[e[i]]
    BY <1>10, <1>13, <1>14, <2>4, Zenon
  <2> QED
    BY <2>5, <2>6, Zenon
<1>15. /\ j \in Job /\ j.key = job[p].key /\ j.result = job[p].result
       /\ job[p].id = NoID => j.id = id /\ j.raw = job[p].raw
       /\ job[p].id # NoID => j.id = job[p].id /\ j.raw = Append(job[p].raw, Encode(id, dep))
  <2>1. CASE job[p].id = NoID
    <3>1. j = [job[p] EXCEPT !.id = id] /\ id \in IDs
      BY <1>1, <2>1, Zenon
    <3> HIDE DEF j
    <3> QED
      BY <1>2, <2>1, <3>1, Zenon DEF Job
  <2>2. CASE job[p].id # NoID
    <3> DEFINE raw == Append(job[p].raw, Encode(id, dep))
    <3>1. raw \in Seq(Raws)
      BY <1>1, <1>2, <1>4, <2>2, EncodeKeepsID, OneMore, Zenon
    <3>2. j = [job[p] EXCEPT !.raw = raw]
      BY <2>2, Zenon
    <3> HIDE DEF raw, j
    <3>3. j \in Job /\ j.key = job[p].key /\ j.result = job[p].result /\ j.id = job[p].id
          /\ j.raw = raw
      BY <1>2, <3>1, <3>2, Zenon DEF Job
    <3> QED
      BY <2>2, <3>3, Zenon DEF raw
  <2> QED
    BY <2>1, <2>2, Zenon
<1> HIDE DEF j, d, e
<1>16. ASSUME home'[p] # 0
       PROVE  /\ j.id # NoID => c.names[j.id] = Affinity[j.key]
              /\ \A n \in DOMAIN j.raw : c.names[j.raw[n] \div 4] # NoKey
  <2>1. /\ job[p].id # NoID => old.names[job[p].id] = Affinity[job[p].key]
        /\ \A n \in DOMAIN job[p].raw : old.names[job[p].raw[n] \div 4] # NoKey
    BY <1>1, <1>10, <1>16, Zenon DEF Inv, Jobs, old
  <2>2. Affinity[job[p].key] \in Keys /\ Affinity[k] \in Keys
    BY <1>2, <1>5, AffinityAssumption, Zenon
  <2>3. j.id # NoID => c.names[j.id] = Affinity[j.key]
    <3>1. CASE job[p].id = NoID
      BY <1>5, <1>10, <1>15, <1>16, <3>1, Zenon
    <3>2. CASE job[p].id # NoID
      <4>1. job[p].id \in IDs /\ old.names[job[p].id] # NoKey
        BY <1>2, <2>1, <2>2, <3>2, NamesAssumption, Zenon
      <4>2. c.names[job[p].id] = Affinity[job[p].key]
        BY <1>12, <2>1, <3>2, <4>1, Zenon
      <4> QED
        BY <1>15, <3>2, <4>2, Zenon
    <3> QED
      BY <3>1, <3>2, Zenon
  <2>4. ASSUME NEW n \in DOMAIN job[p].raw
        PROVE  c.names[job[p].raw[n] \div 4] # NoKey
    <3>1. job[p].raw[n] \div 4 \in IDs
      <4>1. job[p].raw[n] \in Raws
        BY <1>2, Element, Zenon
      <4> QED
        BY <4>1, Zenon DEF Raws
    <3> QED
      BY <1>12, <2>1, <3>1, Zenon
  <2>5. ASSUME NEW n \in DOMAIN j.raw
        PROVE  c.names[j.raw[n] \div 4] # NoKey
    <3>1. CASE job[p].id = NoID
      BY <1>15, <2>4, <3>1, Zenon
    <3>2. CASE job[p].id # NoID
      <4>1. Encode(id, dep) \in Raws /\ Encode(id, dep) \div 4 = id
        BY <1>1, <1>4, <3>2, EncodeKeepsID, Zenon
      <4>2. \/ j.raw[n] = Encode(id, dep)
            \/ n \in DOMAIN job[p].raw /\ j.raw[n] = job[p].raw[n]
        <5>1. j.raw = Append(job[p].raw, Encode(id, dep))
          BY <1>15, <3>2, Zenon
        <5> DEFINE raw == job[p].raw
                   x == Encode(id, dep)
        <5>2. raw \in Seq(Raws) /\ x \in Raws
          BY <1>2, <4>1, Zenon
        <5>3. n \in DOMAIN Append(raw, x) /\ j.raw[n] = Append(raw, x)[n]
          BY <5>1, Zenon
        <5> HIDE DEF raw, x
        <5>4. \A m \in DOMAIN Append(raw, x) :
                \/ Append(raw, x)[m] = x
                \/ m \in DOMAIN raw /\ Append(raw, x)[m] = raw[m]
          BY ONLY <5>2, SMT
        <5>5. \/ j.raw[n] = x
              \/ n \in DOMAIN raw /\ j.raw[n] = raw[n]
          BY ONLY <5>3, <5>4, Zenon
        <5> QED
          BY <5>5, Zenon DEF raw, x
      <4>3. c.names[id] # NoKey
        BY <1>10, <1>16, <2>2, NamesAssumption, Zenon
      <4> QED
        BY <2>4, <4>1, <4>2, <4>3, Zenon
    <3> QED
      BY <3>1, <3>2, Zenon
  <2> QED
    BY <2>3, <2>5, Zenon
<1>17. Writes(p, c, j, d, e)
  <2>1. \A i \in IDs : tx[conn[p]].names[i] # NoKey => c.names[i] = tx[conn[p]].names[i]
    BY <1>12, Zenon DEF old
  <2> QED
    BY <1>2, <1>6, <1>7, <1>8, <1>10, <1>12, <1>13, <1>14, <1>15, <1>16, <2>1, Zenon DEF Writes
<1> QED
  BY <1>17, WriteInv, Zenon

\* Both ways keep the invariant.
LEMMA GetKeyIDInv ==
  ASSUME Inv, NEW p \in Procs, GetKeyID(p) \/ FindFails(p)
  PROVE  Inv'
BY GetKeyIDGets, GetsInv, Zenon

\* A row is found, and some of its dependencies are decoded.
LEMMA ReadsInv ==
  ASSUME Inv, NEW p \in Procs, NEW k \in Keys, Adds(p, k), MayRead(p),
         RowOf(p, k) # NoRow, NEW n \in Nat, n <= Last(p, k), Reads(p, k, n)
  PROVE  Inv'
<1> DEFINE names == tx[conn[p]].names
           row == RowOf(p, k)
           learnt == Learnt(p, k, n)
           e0 == EngineKeyIDs(p, k)
           d0 == DBKeyIDs(p, k)
           e == [id \in IDs |-> IF id \in learnt THEN names[id] ELSE e0[id]]
           d == [j \in Keys |-> IF \E id \in learnt : names[id] = j
                                THEN CHOOSE id \in learnt : names[id] = j ELSE d0[j]]
<1>1. conn[p] > 0 /\ stage[p] \notin {"gone", "attaching"}
  BY Zenon DEF Adds
<1>2. conn[p] \in Files /\ tx[conn[p]] \in Stored /\ names \in [IDs -> Keys \cup {NoKey}]
  <2>1. conn[p] \in Files /\ tx[conn[p]] \in Stored
    BY <1>1, Knows, Zenon
  <2> QED
    BY <2>1, Zenon DEF Stored
<1>3. IDOf(p, k) # 0
  BY Zenon DEF RowOf
<1>4. /\ IDOf(p, k) \in IDs
      /\ home[p] # 0 \/ ~Cached(p, k) => names[IDOf(p, k)] = Affinity[k]
  BY <1>1, <1>3, FindsID, Zenon
<1>5. learnt \subseteq IDs
  <2>1. row = tx[conn[p]].rows[IDOf(p, k)]
    BY <1>3, Zenon DEF RowOf, Sees
  <2>2. row \in [value : Keys, builtAt : Int, dependencies : Seq(Raws)]
    <3>1. tx[conn[p]].rows \in [IDs -> StoredRow]
      BY <1>2, Zenon DEF Stored
    <3>2. row \in StoredRow
      BY <1>4, <2>1, <3>1, Zenon
    <3> QED
      BY <3>2, Zenon DEF StoredRow
  <2>3. ASSUME NEW m \in 1 .. n
        PROVE  RawID(p, k, m) \in IDs
    <3>1. row.dependencies \in Seq(Raws) /\ Len(row.dependencies) = Last(p, k)
      BY <2>2, Zenon DEF Last
    <3>2. m \in DOMAIN row.dependencies
      <4>1. n \in Nat /\ n <= Len(row.dependencies) /\ m \in 1 .. n
        BY <3>1, Zenon
      <4> QED
        BY ONLY <3>1, <4>1, SMT
    <3>3. row.dependencies[m] \in Raws
      BY <3>1, <3>2, Element, Zenon
    <3> QED
      BY <3>3, Zenon DEF RawID, Raws
  <2> QED
    BY <2>3, Zenon DEF Learnt
<1>6. /\ dbKeyIDs[p] \in [Keys -> IDs] /\ engineKeyIDs[p] \in [IDs -> Keys \cup {NoKey}]
  BY Zenon DEF Inv, Types
<1>7. /\ d0 = [dbKeyIDs[p] EXCEPT ![k] = IDOf(p, k)]
      /\ Cached(p, k) => e0 = engineKeyIDs[p]
      /\ ~Cached(p, k) => e0 = [engineKeyIDs[p] EXCEPT ![IDOf(p, k)] = k]
  BY Zenon DEF DBKeyIDs, EngineKeyIDs
<1> HIDE DEF names, learnt, e0, d0, row
<1>8. d0 \in [Keys -> IDs] /\ e0 \in [IDs -> Keys \cup {NoKey}]
  <2>1. d0 \in [Keys -> IDs]
    BY <1>4, <1>6, <1>7, Zenon
  <2>2. e0 \in [IDs -> Keys \cup {NoKey}]
    BY <1>4, <1>6, <1>7, Zenon
  <2> QED
    BY <2>1, <2>2, Zenon
<1>9. ASSUME NEW j \in Keys, \E id \in learnt : names[id] = j
      PROVE  d[j] \in IDs /\ names[d[j]] = j
  <2>1. d[j] = CHOOSE id \in learnt : names[id] = j
    BY <1>9, Zenon
  <2>2. d[j] \in learnt /\ names[d[j]] = j
    BY <1>9, <2>1, Zenon
  <2> QED
    BY <1>5, <2>2, Zenon
<1>10. \A j \in Keys : ~(\E id \in learnt : names[id] = j) => d[j] = d0[j]
  BY Zenon
<1>11. d \in [Keys -> IDs] /\ e \in [IDs -> Keys \cup {NoKey}]
  <2>1. ASSUME NEW j \in Keys
        PROVE  d[j] \in IDs
    <3>1. CASE \E id \in learnt : names[id] = j
      <4>1. d[j] \in IDs
        BY <1>9, <3>1, Zenon
      <4> HIDE DEF d
      <4> QED
        BY <4>1, Zenon
    <3>2. CASE ~\E id \in learnt : names[id] = j
      BY <1>8, <1>10, <3>2, Zenon
    <3> QED
      BY <3>1, <3>2, Zenon
  <2>2. \A id \in IDs : e[id] \in Keys \cup {NoKey}
    BY <1>2, <1>8, Zenon
  <2> QED
    BY <2>1, <2>2, Zenon
<1>12. \A id \in IDs : names[id] # NoKey => Affinity[names[id]] = names[id]
  BY <1>2, Zenon DEF Inv, Names, WellNamed, names
<1>13. ASSUME home[p] # 0
       PROVE  /\ \A j \in Keys : d[j] # 0 => names[d[j]] = Affinity[j]
              /\ \A id \in IDs : e[id] # NoKey => names[id] = Affinity[e[id]]
  <2>1. /\ \A j \in Keys : dbKeyIDs[p][j] # 0 => names[dbKeyIDs[p][j]] = Affinity[j]
        /\ \A id \in IDs : engineKeyIDs[p][id] # NoKey =>
                             names[id] = Affinity[engineKeyIDs[p][id]]
    BY <1>1, <1>13, Knows, Zenon DEF names
  <2>2. \A j \in Keys : d0[j] # 0 => names[d0[j]] = Affinity[j]
    BY <1>4, <1>6, <1>7, <1>13, <2>1, Zenon
  <2>3. \A id \in IDs : e0[id] # NoKey => names[id] = Affinity[e0[id]]
    BY <1>4, <1>6, <1>7, <2>1, Zenon
  <2>4. ASSUME NEW j \in Keys, d[j] # 0
        PROVE  names[d[j]] = Affinity[j]
    <3>1. CASE \E id \in learnt : names[id] = j
      <4>1. d[j] \in IDs /\ names[d[j]] = j /\ j # NoKey
        BY <1>9, <3>1, NamesAssumption, Zenon
      <4> QED
        BY <1>12, <4>1, Zenon
    <3>2. CASE ~\E id \in learnt : names[id] = j
      BY <1>10, <2>2, <2>4, <3>2, Zenon
    <3> QED
      BY <3>1, <3>2, Zenon
  <2>5. ASSUME NEW id \in IDs, e[id] # NoKey
        PROVE  names[id] = Affinity[e[id]]
    BY <1>12, <2>3, <2>5, Zenon
  <2> QED
    BY <2>4, <2>5, Zenon
<1>14. /\ engineKeyIDs' = [engineKeyIDs EXCEPT ![p] = e]
       /\ dbKeyIDs' = [dbKeyIDs EXCEPT ![p] = d]
       /\ UNCHANGED <<files, lock, tx, job, epoch, conn, home, newest, path, stage>>
  BY Zenon DEF Reads, Sees, disk, names, learnt, e0, d0
<1> HIDE DEF d, e
<1>15. Learns(p, d, e)
  BY <1>11, <1>13, <1>14, Zenon DEF Learns, names
<1> QED
  BY <1>1, <1>15, LearnInv, Zenon

\* Every step keeps the invariant.
LEMMA StepInv ==
  ASSUME Inv, NEW p \in Procs, Step(p)
  PROVE  Inv'
<1>1. CASE Exit(p) \/ Crash(p) \/ RecreateMissing(p)
  BY <1>1, DieInv, Zenon DEF Exit, Crash, RecreateMissing
<1>2. CASE NewProcess(p) \/ Build(p) \/ BuildNotStarted(p) \/ AddRule(p) \/ RuleOpened(p)
  <2>1. ~Builds(p)
    BY <1>2, Zenon DEF NewProcess, Build, BuildNotStarted, AddRule, RuleOpened, Builds
  <2> QED
    BY <1>2, <2>1, StageInv, Zenon
<1>3. CASE OpenExisting(p)
  <2> DEFINE s == stage[p]
  <2>1. s \in {stage[p], "idle"} /\ stage' = [stage EXCEPT ![p] = s]
    BY <1>3, Zenon DEF OpenExisting, Inv, Types
  <2>2. /\ UNCHANGED <<files, lock, tx, job, dbKeyIDs, engineKeyIDs, epoch, newest, path>>
        /\ Opens(p) /\ path # 0 /\ Connect(p, path)
    BY <1>3, Zenon DEF OpenExisting, disk, caches
  <2> HIDE DEF s
  <2> QED
    BY <2>1, <2>2, ConnectInv, Zenon
<1>4. CASE OpenBusy(p)
  <2>1. CASE Die(p)
    BY <2>1, DieInv, Zenon
  <2>2. CASE ~Die(p)
    <3> DEFINE s == "idle"
    <3>1. s \in {stage[p], "idle"} /\ stage' = [stage EXCEPT ![p] = s]
      BY <1>4, <2>2, Zenon DEF OpenBusy
    <3>2. /\ UNCHANGED <<files, lock, tx, job, dbKeyIDs, engineKeyIDs, epoch, newest, path>>
          /\ Opens(p) /\ path # 0 /\ Connect(p, path)
      BY <1>4, <2>2, Zenon DEF OpenBusy, disk, caches
    <3> HIDE DEF s
    <3> QED
      BY <3>1, <3>2, ConnectInv, Zenon
  <2> QED
    BY <2>1, <2>2, Zenon
<1>5. CASE OpenMismatch(p) \/ Recreate(p) \/ GetCurrentEpoch(p)
  BY <1>5, OpenMismatchInv, RecreateInv, GetCurrentEpochInv, Zenon
<1>6. CASE BuildStarted(p) \/ BuildRefused(p)
  BY <1>6, BuildStartedInv, BuildRefusedInv, Zenon
<1>7. CASE BuildComplete(p) \/ IterationNotStored(p) \/ CommitFails(p)
  <2>1. PICK content : Ends(p, content) /\
          \/ content = [tx[conn[p]] EXCEPT !.iteration = epoch[p]] /\ UNCHANGED home
          \/ content = tx[conn[p]] /\ UNCHANGED home
          \/ content = files[conn[p]] /\ home' = [home EXCEPT ![p] = 0]
    BY <1>7, Zenon DEF BuildComplete, IterationNotStored, CommitFails, Sees
  <2>2. Builds(p)
    BY <2>1, Zenon DEF Ends, Builds
  <2>3. conn[p] \in Files
    BY <2>2, ConnFile, Zenon DEF Inv, Locks
  <2>4. tx[conn[p]] \in Stored /\ files[conn[p]] \in Stored /\ epoch[p] \in Nat
    BY <2>3, Zenon DEF Inv, Types
  <2>5. /\ content \in Stored
        /\ \/ /\ content.names = tx[conn[p]].names /\ content.last = tx[conn[p]].last
              /\ content.rows = tx[conn[p]].rows /\ content.mixed = tx[conn[p]].mixed
              /\ UNCHANGED home
           \/ content = files[conn[p]] /\ home' = [home EXCEPT ![p] = 0]
    <3>1. CASE content = [tx[conn[p]] EXCEPT !.iteration = epoch[p]] /\ UNCHANGED home
      BY <2>4, <3>1, Zenon DEF Stored
    <3>2. CASE content = tx[conn[p]] /\ UNCHANGED home
      BY <2>4, <3>2, Zenon
    <3>3. CASE content = files[conn[p]] /\ home' = [home EXCEPT ![p] = 0]
      BY <2>4, <3>3, Zenon
    <3> QED
      BY <2>1, <3>1, <3>2, <3>3, Zenon
  <2> QED
    BY <2>1, <2>5, EndsInv, Zenon
<1>8. ASSUME NEW k \in Keys, LookupFinds(p, k) \/ LookupStops(p, k)
      PROVE  Inv'
  <2>1. Adds(p, k) /\ MayRead(p) /\ RowOf(p, k) # NoRow
    BY <1>8, Zenon DEF LookupFinds, LookupStops, Found
  <2>2. Last(p, k) \in Nat
    <3>1. conn[p] > 0
      BY <2>1, Zenon DEF Adds
    <3>2. conn[p] \in Files /\ tx[conn[p]] \in Stored /\ IDOf(p, k) \in IDs
      BY <2>1, <3>1, Knows, FindsID, Zenon
    <3>3. RowOf(p, k) = tx[conn[p]].rows[IDOf(p, k)] /\ IDOf(p, k) # 0
      BY <2>1, Zenon DEF RowOf, Sees
    <3>4. IDOf(p, k) \in IDs /\ tx[conn[p]].rows \in [IDs -> StoredRow]
      BY <3>2, <3>3, Zenon DEF Stored
    <3>5. RowOf(p, k) \in StoredRow
      BY <3>3, <3>4, Zenon
    <3>6. RowOf(p, k).dependencies \in Seq(Raws)
      BY <2>1, <3>5, Zenon DEF StoredRow
    <3> QED
      BY <3>6 DEF Last
  <2>3. CASE LookupFinds(p, k)
    <3>1. Reads(p, k, Last(p, k))
      BY <2>3, Zenon DEF LookupFinds
    <3>2. Last(p, k) <= Last(p, k)
      BY ONLY <2>2, SMT
    <3> QED
      BY <2>1, <2>2, <3>1, <3>2, ReadsInv, Zenon
  <2>4. CASE LookupStops(p, k)
    <3>1. PICK n \in 0 .. Last(p, k) - 1 : Reads(p, k, n)
      BY <2>4, Zenon DEF LookupStops
    <3>2. n \in Nat /\ n <= Last(p, k)
      BY ONLY <2>2, n \in 0 .. Last(p, k) - 1, SMT
    <3> QED
      BY <2>1, <3>1, <3>2, ReadsInv, Zenon
  <2> QED
    BY <1>8, <2>3, <2>4, Zenon
<1>9. ASSUME NEW k \in Keys, LookupFindsNone(p, k) \/ LookupFails(p, k)
      PROVE  Inv'
  <2>1. UNCHANGED <<files, lock, tx, job, dbKeyIDs, engineKeyIDs, epoch, conn, home,
                    newest, stage>>
    BY <1>9, Zenon DEF LookupFindsNone, LookupFails, disk, connection, caches, history
  <2>2. path' = path /\ path \in 0 .. newest
    BY <1>9, Zenon DEF LookupFindsNone, LookupFails, disk, Inv, Types
  <2> QED
    BY <2>1, <2>2, Quiet, Zenon
<1>10. ASSUME NEW k \in Keys, NEW deps \in Deps[k], SetRuleResult(p, k, deps)
       PROVE  Inv'
  BY <1>10, SetRuleResultInv, Zenon
<1>11. CASE GetKeyID(p) \/ FindFails(p) \/ StoreRow(p) \/ StoreFails(p)
  BY <1>11, GetKeyIDInv, StoreRowInv, StoreFailsInv, Zenon
<1>12. CASE NotPrepared(p)
  <2>1. \/ Die(p) \/ (\E k \in Keys : LookupFails(p, k)) \/ StoreFails(p)
    BY <1>12, Zenon DEF NotPrepared
  <2> QED
    BY <2>1, <1>9, <1>11, DieInv, Zenon
<1>13. CASE \E k \in Keys : \/ LookupFinds(p, k) \/ LookupFindsNone(p, k)
                           \/ LookupFault(p, k) \/ LookupResets(p, k) \/ LookupStops(p, k)
                           \/ \E deps \in Deps[k] : SetRuleResult(p, k, deps)
  BY <1>8, <1>9, <1>10, <1>13, Zenon DEF LookupFault, LookupResets
<1>14. CASE StoreFault(p) \/ FindResets(p)
  BY <1>11, <1>14, Zenon DEF StoreFault, FindResets
<1> QED
  BY <1>1, <1>2, <1>3, <1>4, <1>5, <1>6, <1>7, <1>11, <1>12, <1>13, <1>14, Zenon DEF Step

\* So does the database as a whole.
LEMMA NextInv ==
  ASSUME Inv, [Next]_vars
  PROVE  Inv'
<1>1. CASE DeleteFile
  <2>1. UNCHANGED <<files, lock, tx, job, dbKeyIDs, engineKeyIDs, epoch, conn, home,
                    newest, stage>>
    BY <1>1, Zenon DEF DeleteFile, connection, caches, history
  <2>2. path' \in 0 .. newest
    <3>1. path' = 0 /\ newest \in Files
      BY <1>1, Zenon DEF DeleteFile, Inv, Types
    <3> QED
      BY ONLY <3>1, BoundsAssumption, SMT
  <2> QED
    BY <2>1, <2>2, Quiet, Zenon
<1>2. ASSUME NEW p \in Procs, Step(p)
      PROVE  Inv'
  BY <1>2, StepInv, Zenon
<1>3. CASE UNCHANGED vars
  <2>1. UNCHANGED <<files, lock, tx, job, dbKeyIDs, engineKeyIDs, epoch, conn, home,
                    newest, stage>>
    BY <1>3, Zenon DEF vars, disk, connection, caches, history
  <2>2. path' \in 0 .. newest
    BY <1>3, Zenon DEF vars, disk, Inv, Types
  <2> QED
    BY <2>1, <2>2, Quiet, Zenon
<1> QED
  BY <1>1, <1>2, <1>3, Zenon DEF Next

\* The ids that a process has cached stay the ids of its keys in its file, for any
\* number of processes that build, crash and delete files: getKeyID() and
\* getKeyIDForID() may use them after the transaction that gave them.  Only three
\* things in this code spoil them, and then the property gives the process up: its file
\* is replaced, a commit fails, or getKeyIDFromDB() takes a search that failed for a key
\* that is not there.
THEOREM IDsStayRight == Spec => []CachedIDsAreRight
<1>1. Inv => CachedIDsAreRight
  BY Zenon DEF Inv
<1> QED
  BY InitInv, NextInv, <1>1, PTL DEF Spec

\* Every row of rule_results is filed under the key whose result it is, and its
\* dependencies are ids of keys: what setRuleResult() writes with cached ids.  Files
\* to which a process has written whose ids are spoilt, in one of those three ways, are
\* left out.
THEOREM RowsBelongToKeys == Spec => []RowsAreOwn
<1>1. Inv => RowsAreOwn
  BY Zenon DEF Inv
<1> QED
  BY InitInv, NextInv, <1>1, PTL DEF Spec

\* No path through build(), no error and no crash leaves the exclusive transaction of
\* buildStarted() open.
THEOREM LocksEndWithBuilds == Spec => []LocksAreReleased
<1>1. Inv => LocksAreReleased
  BY Zenon DEF Inv, Locks, LocksAreReleased, Builds
<1> QED
  BY InitInv, NextInv, <1>1, PTL DEF Spec

------------------------------------------------------------------------------
(***************************************************************************)
(* What a process has in memory is what its file says                      *)
(*                                                                         *)
(* For texts that the column "key STRING" keeps as they are.  The          *)
(* invariant says it of a process that does not build, too: what the file  *)
(* that it knows says was committed before it attached, or by itself.      *)
(***************************************************************************)
\* What a process sees of the file that its ids and its results are from.
Known(p) == IF lock[home[p]] = p THEN tx[home[p]] ELSE files[home[p]]

\* No two ids for a key.
Distinct(content) ==
  \A i, j \in IDs : content.names[i] = content.names[j] /\ content.names[i] # NoKey => i = j
IDsAreDistinct == \A f \in Files : Distinct(files[f]) /\ Distinct(tx[f])

\* A result under way is in memory, and what is encoded of it can be decoded again.
Encoded(names, raw, deps) ==
  \A n \in DOMAIN raw :
    n \in DOMAIN deps /\ Decode(raw[n], names[raw[n] \div 4]) = deps[n]
JobIsKept(p) ==
  job[p] # NoJob =>
    /\ memory[p][job[p].key] = job[p].result
    /\ home[p] # 0 => Encoded(Known(p).names, job[p].raw, job[p].result.dependencies)

Mirrored(p, k) == Known(p).mixed \/ memory[p][k] = View(Known(p), k)
Mirrors(p) ==
  home[p] # 0 /\ ~overtaken[p] =>
    \A k \in Keys : memory[p][k] # Unknown /\ k \notin broken[p] /\ k # job[p].key
                      => Mirrored(p, k)

Fresh(p) == \A k \in Keys : memory[p][k] = Unknown
OfMemory(p) ==
  /\ stage[p] \in {"gone", "attaching"} => Fresh(p)
  /\ JobIsKept(p) /\ Mirrors(p)

Domains ==
  /\ DOMAIN memory = Procs /\ \A p \in Procs : DOMAIN memory[p] = Keys
  /\ DOMAIN overtaken = Procs /\ DOMAIN broken = Procs

MemoryInv == Domains /\ IDsAreDistinct /\ \A p \in Procs : OfMemory(p)

\* Contents with the same names and rows say the same.
SameTables(c, d) == c.names = d.names /\ c.rows = d.rows /\ c.mixed = d.mixed

\* They have the same view of a key.
LEMMA SameView ==
  ASSUME NEW c, NEW d, SameTables(c, d), NEW k
  PROVE  View(c, k) = View(d, k)
<1>1. Find(c, k) = Find(d, k)
  BY Zenon DEF Find, SameTables
<1> QED
  BY <1>1, Zenon DEF View, SameTables

\* A process keeps its results, the file that it knows says what it said, and a result
\* under way stays or is given up with an error.
Spared(q) ==
  /\ memory'[q] = memory[q] /\ broken[q] \subseteq broken'[q]
  /\ stage'[q] \in {"gone", "attaching"} => stage[q] \in {"gone", "attaching"}
  /\ job'[q] = job[q] \/ (job'[q] = NoJob /\ job[q].key \in broken'[q])
  /\ overtaken[q] => overtaken'[q]
  /\ home'[q] # 0 =>
       /\ home'[q] = home[q]
       /\ job[q] # NoJob \/ ~overtaken'[q] => SameTables(Known(q)', Known(q))

\* Its memory is what it was.
LEMMA SparedMemory ==
  ASSUME NEW q \in Procs, OfMemory(q), Spared(q)
  PROVE  OfMemory(q)'
<1>1. stage'[q] \in {"gone", "attaching"} => Fresh(q)'
  BY Zenon DEF OfMemory, Spared, Fresh
<1>2. JobIsKept(q)'
  <2> SUFFICES ASSUME job'[q] # NoJob
               PROVE  /\ memory'[q][job'[q].key] = job'[q].result
                      /\ home'[q] # 0 =>
                           Encoded(Known(q)'.names, job'[q].raw, job'[q].result.dependencies)
    BY Zenon DEF JobIsKept, NoJob, Encoded, Decode
  <2>1. job'[q] = job[q]
    BY Zenon DEF Spared
  <2>2. memory[q][job[q].key] = job[q].result
    BY <2>1, Zenon DEF OfMemory, JobIsKept
  <2>3. ASSUME home'[q] # 0
        PROVE  Encoded(Known(q)'.names, job'[q].raw, job'[q].result.dependencies)
    <3>1. Known(q)'.names = Known(q).names /\ home[q] # 0
      BY <2>1, <2>3, Zenon DEF Spared, SameTables
    <3>2. Encoded(Known(q).names, job[q].raw, job[q].result.dependencies)
      BY <2>1, <3>1, Zenon DEF OfMemory, JobIsKept
    <3> QED
      BY <2>1, <3>1, <3>2, Zenon
  <2> QED
    BY <2>1, <2>2, <2>3, Zenon DEF Spared
<1>3. Mirrors(q)'
  <2> SUFFICES ASSUME home'[q] # 0, ~overtaken'[q], NEW k \in Keys,
                      memory'[q][k] # Unknown, k \notin broken'[q], k # job'[q].key
               PROVE  Known(q)'.mixed \/ memory'[q][k] = View(Known(q)', k)
    BY Zenon DEF Mirrors, Mirrored, View, Find, Decode, Row, Unknown, NoRow, NoResult
  <2>1. /\ home[q] # 0 /\ ~overtaken[q] /\ memory'[q] = memory[q]
        /\ k \notin broken[q] /\ k # job[q].key
    BY Zenon DEF Spared
  <2>2. Mirrored(q, k)
    BY <2>1, Zenon DEF OfMemory, Mirrors
  <2>3. SameTables(Known(q)', Known(q))
    BY Zenon DEF Spared
  <2>4. View(Known(q)', k) = View(Known(q), k) /\ Known(q)'.mixed = Known(q).mixed
    BY <2>3, SameView, Zenon DEF SameTables
  <2> QED
    BY <2>1, <2>2, <2>4, Zenon DEF Mirrored
<1> QED
  BY <1>1, <1>2, <1>3, Zenon DEF OfMemory

\* The file that a process knows stays the same as long as nothing is written to it
\* that the process sees.
LEMMA SameKnown ==
  ASSUME NEW q \in Procs, home'[q] = home[q],
         lock'[home[q]] = q <=> lock[home[q]] = q,
         lock[home[q]] = q => tx'[home[q]] = tx[home[q]],
         lock[home[q]] # q => files'[home[q]] = files[home[q]]
  PROVE  Known(q)' = Known(q)
BY Zenon DEF Known

\* The same files make the same of it.
LEMMA SameFiles ==
  ASSUME NEW q \in Procs, home'[q] = home[q], UNCHANGED <<files, lock, tx>>
  PROVE  SameTables(Known(q)', Known(q))
<1>1. Known(q)' = Known(q)
  BY Zenon DEF Known
<1> QED
  BY <1>1, Zenon DEF SameTables

\* What a step of a process does to another one: the other can only be overtaken.
Apart(p, q) ==
  /\ memory'[q] = memory[q] /\ broken'[q] = broken[q] /\ stage'[q] = stage[q]
  /\ job'[q] = job[q] /\ home'[q] = home[q]
  /\ overtaken[q] => overtaken'[q]

\* All the steps of a process keep apart from the others.
LEMMA StepApart ==
  ASSUME Inv, Domains, NEW p \in Procs, NEW q \in Procs, q # p, Step(p)
  PROVE  Apart(p, q)
<1>1. /\ DOMAIN memory = Procs /\ DOMAIN broken = Procs /\ DOMAIN overtaken = Procs
      /\ DOMAIN stage = Procs /\ DOMAIN job = Procs /\ DOMAIN home = Procs
  BY Zenon DEF Domains, Inv, Types
<1>2. CASE Die(p)
  BY <1>1, <1>2, Zenon DEF Die, Apart
<1>3. CASE NewProcess(p) \/ Build(p) \/ BuildNotStarted(p) \/ AddRule(p) \/ RuleOpened(p)
  BY <1>1, <1>3, Zenon DEF NewProcess, Build, BuildNotStarted, AddRule, RuleOpened, history, Apart
<1>4. CASE OpenExisting(p) \/ OpenMismatch(p)
  BY <1>1, <1>4, Zenon DEF OpenExisting, OpenMismatch, Connect, history, Apart
<1>5. CASE Recreate(p)
  BY <1>1, <1>5, Zenon DEF Recreate, Connect, Apart
<1>6. CASE OpenBusy(p) /\ ~Die(p)
  BY <1>1, <1>6, Zenon DEF OpenBusy, Connect, Apart
<1>7. CASE GetCurrentEpoch(p) /\ ~Die(p)
  BY <1>1, <1>7, Zenon DEF GetCurrentEpoch, Apart
<1>8. CASE BuildStarted(p) \/ BuildRefused(p)
  BY <1>1, <1>8, Zenon DEF BuildStarted, BuildRefused, history, Apart
<1>9. CASE BuildComplete(p) \/ IterationNotStored(p) \/ CommitFails(p)
  BY <1>1, <1>9, Zenon DEF BuildComplete, IterationNotStored, CommitFails, Ends, Overtake, Apart
<1>10. ASSUME NEW k \in Keys, LookupFinds(p, k) \/ LookupStops(p, k)
       PROVE  Apart(p, q)
  <2>1. PICK v : memory' = [memory EXCEPT ![p][k] = v]
    BY <1>10, Zenon DEF LookupFinds, LookupStops, Reads
  <2>2. UNCHANGED <<stage, job, home, overtaken>>
    BY <1>10, Zenon DEF LookupFinds, LookupStops, Reads
  <2>3. broken'[q] = broken[q]
    BY <1>1, <1>10, Zenon DEF LookupFinds, LookupStops, Breaks
  <2> QED
    BY <1>1, <2>1, <2>2, <2>3, Zenon DEF Apart
<1>11. ASSUME NEW k \in Keys, LookupFindsNone(p, k) \/ LookupFails(p, k)
       PROVE  Apart(p, q)
  BY <1>1, <1>11, Zenon DEF LookupFindsNone, LookupFails, Breaks, history, Apart
<1>12. ASSUME NEW k \in Keys, NEW deps \in Deps[k], SetRuleResult(p, k, deps)
       PROVE  Apart(p, q)
  BY <1>1, <1>12, Zenon DEF SetRuleResult, history, Apart
<1>13. CASE GetKeyID(p) \/ FindFails(p)
  <2>1. PICK id \in IDs : Gets(p, id)
    BY <1>13, GetKeyIDGets, Zenon
  <2>2. PICK j : job' = [job EXCEPT ![p] = j]
    BY <2>1, Zenon DEF Gets, Takes
  <2>3. UNCHANGED <<stage, memory, overtaken, broken>>
    BY <2>1, Zenon DEF Gets, Takes
  <2>4. home'[q] = home[q]
    BY <1>1, <2>1, Zenon DEF Gets
  <2> QED
    BY <1>1, <2>2, <2>3, <2>4, Zenon DEF Apart
<1>14. CASE StoreRow(p)
  BY <1>1, <1>14, Zenon DEF StoreRow, history, Apart
<1>15. CASE StoreFails(p)
  BY <1>1, <1>15, Zenon DEF StoreFails, Apart
<1> QED
  BY <1>2, <1>3, <1>4, <1>5, <1>6, <1>7, <1>8, <1>9, <1>10, <1>11, <1>12, <1>13, <1>14, <1>15,
     Zenon
     DEF Step, Exit, Crash, RecreateMissing, LookupFault, LookupResets, StoreFault, FindResets, NotPrepared

\* The steps that change a file, or who has locked it.
LEMMA StepDisk ==
  ASSUME NEW p \in Procs, Step(p)
  PROVE  \/ UNCHANGED <<files, lock, tx>>
         \/ Die(p) \/ Recreate(p) \/ BuildStarted(p)
         \/ GetKeyID(p) \/ FindFails(p) \/ StoreRow(p)
         \/ BuildComplete(p) \/ IterationNotStored(p) \/ CommitFails(p)
<1>1. CASE NewProcess(p) \/ Build(p) \/ BuildNotStarted(p) \/ AddRule(p) \/ RuleOpened(p)
  BY <1>1, Zenon DEF NewProcess, Build, BuildNotStarted, AddRule, RuleOpened, disk
<1>2. CASE OpenExisting(p) \/ OpenMismatch(p)
  BY <1>2, Zenon DEF OpenExisting, OpenMismatch, disk
<1>3. CASE OpenBusy(p) \/ GetCurrentEpoch(p) \/ BuildRefused(p)
  BY <1>3, Zenon DEF OpenBusy, GetCurrentEpoch, BuildRefused, disk
<1>4. ASSUME NEW k \in Keys, LookupFinds(p, k) \/ LookupStops(p, k)
      PROVE  UNCHANGED <<files, lock, tx>>
  BY <1>4, Zenon DEF LookupFinds, LookupStops, Reads, disk
<1>5. ASSUME NEW k \in Keys, LookupFindsNone(p, k) \/ LookupFails(p, k)
      PROVE  UNCHANGED <<files, lock, tx>>
  BY <1>5, Zenon DEF LookupFindsNone, LookupFails, disk
<1>6. ASSUME NEW k \in Keys, NEW deps \in Deps[k], SetRuleResult(p, k, deps)
      PROVE  UNCHANGED <<files, lock, tx>>
  BY <1>6, Zenon DEF SetRuleResult, disk
<1>7. CASE StoreFails(p)
  BY <1>7, Zenon DEF StoreFails, disk
<1> QED
  BY <1>1, <1>2, <1>3, <1>4, <1>5, <1>6, <1>7, Zenon
     DEF Step, Exit, Crash, RecreateMissing, LookupFault, LookupResets, StoreFault, FindResets, NotPrepared

\* A step of a process leaves what another one knows alone, or overtakes it.
LEMMA StepSpares ==
  ASSUME Inv, Domains, NEW p \in Procs, NEW q \in Procs, q # p, Step(p)
  PROVE  Spared(q)
<1>1. Apart(p, q)
  BY StepApart, Zenon
<1>2. ASSUME home[q] # 0, job[q] # NoJob \/ ~overtaken'[q]
      PROVE  SameTables(Known(q)', Known(q))
  <2>1. home'[q] = home[q] /\ home[q] \in Files /\ NoProc # q
    BY <1>1, <1>2, HomeFile, NamesAssumption, Zenon DEF Apart
  <2>2. /\ DOMAIN files = Files /\ DOMAIN tx = Files /\ DOMAIN lock = Files
    BY Zenon DEF Inv, Types
  <2> SUFFICES /\ lock'[home[q]] = q <=> lock[home[q]] = q
               /\ lock[home[q]] = q => tx'[home[q]] = tx[home[q]]
               /\ lock[home[q]] # q => files'[home[q]] = files[home[q]]
    BY <2>1, SameKnown, Zenon DEF SameTables
  <2>3. CASE UNCHANGED <<files, lock, tx>>
    BY <2>3, Zenon
  <2>4. CASE Die(p)
    BY <2>1, <2>2, <2>4, Zenon DEF Die
  <2>5. CASE Recreate(p)
    <3>1. home[q] # newest + 1
      <4>1. newest \in Nat /\ home[q] \in 0 .. newest
        BY BoundsAssumption DEF Inv, Types
      <4> QED BY ONLY <4>1, SMT
    <3> QED BY <2>1, <2>2, <2>5, <3>1, Zenon DEF Recreate
  <2>6. CASE BuildStarted(p)
    <3>1. lock[conn[p]] = NoProc /\ lock' = [lock EXCEPT ![conn[p]] = p] /\ UNCHANGED <<files, tx>>
      BY <2>6, Zenon DEF BuildStarted, MayLock
    <3> QED BY <2>1, <2>2, <3>1, Zenon
  <2>7. CASE GetKeyID(p) \/ FindFails(p) \/ StoreRow(p)
    <3>1. UNCHANGED <<files, lock>> /\ job[p] # NoJob
      BY <2>7, Zenon DEF GetKeyID, FindFails, InsertIntoKeys, Takes, WantsID, StoreRow
    <3>2. \A f \in Files : f # conn[p] => tx'[f] = tx[f]
      BY <2>2, <2>7, Zenon DEF GetKeyID, FindFails, InsertIntoKeys, StoreRow
    <3>3. lock[conn[p]] = p
      BY <3>1, UnderWay, Zenon
    <3> QED BY <2>1, <3>1, <3>2, <3>3, Zenon
  <2>8. CASE BuildComplete(p) \/ IterationNotStored(p) \/ CommitFails(p)
    <3>1. PICK content :
            /\ files' = [files EXCEPT ![conn[p]] = content]
            /\ tx' = [tx EXCEPT ![conn[p]] = content]
            /\ lock' = [lock EXCEPT ![conn[p]] = NoProc]
            /\ Overtake(p) \/ content = files[conn[p]]
            /\ Builds(p)
      BY <2>8, Zenon DEF BuildComplete, IterationNotStored, CommitFails, Ends, Builds
    <3>2. lock[conn[p]] = p
      BY <3>1, Zenon DEF Inv, Locks
    <3>3. CASE home[q] = conn[p]
      <4>1. lock'[home[q]] # q /\ lock[home[q]] # q
        BY <2>1, <2>2, <3>1, <3>2, <3>3, Zenon
      <4>2. job[q] = NoJob
        <5> SUFFICES ASSUME job[q] # NoJob PROVE FALSE
          BY Zenon
        <5>1. lock[conn[q]] = q /\ home[q] = conn[q]
          BY <1>2, UnderWay, Zenon
        <5> QED BY <4>1, <5>1, Zenon
      <4>3. content = files[conn[p]]
        BY <1>2, <3>1, <3>3, <4>2, Zenon DEF Overtake
      <4> QED BY <2>1, <2>2, <3>1, <4>1, <4>3, Zenon
    <3>4. CASE home[q] # conn[p]
      BY <2>1, <2>2, <3>1, <3>4, Zenon
    <3> QED BY <3>3, <3>4, Zenon
  <2> QED BY <2>3, <2>4, <2>5, <2>6, <2>7, <2>8, StepDisk, Zenon
<1> QED
  BY <1>1, <1>2, Zenon DEF Apart, Spared

\* The steps of a process that leave its own memory alone: it opens, starts, refuses and
\* ends builds.
LEMMA OwnSteps ==
  ASSUME Inv, Domains, NEW p \in Procs,
         \/ NewProcess(p) \/ Build(p) \/ BuildNotStarted(p) \/ AddRule(p) \/ RuleOpened(p)
         \/ OpenExisting(p) \/ OpenMismatch(p) \/ BuildRefused(p)
         \/ (OpenBusy(p) /\ stage[p] = "starting" /\ ~Die(p))
         \/ StoreFails(p)
  PROVE  Spared(p)
<1>1. /\ DOMAIN broken = Procs /\ DOMAIN stage = Procs /\ DOMAIN job = Procs
      /\ DOMAIN home = Procs
  BY Zenon DEF Domains, Inv, Types
<1>2. UNCHANGED <<files, lock, tx, memory, overtaken>>
  BY Zenon DEF NewProcess, Build, BuildNotStarted, AddRule, RuleOpened, OpenExisting,
     OpenMismatch, BuildRefused, OpenBusy, StoreFails, disk, history
<1>3. home'[p] # 0 => home'[p] = home[p]
  BY <1>1, Zenon DEF NewProcess, Build, BuildNotStarted, AddRule, RuleOpened, OpenExisting,
     OpenMismatch, BuildRefused, OpenBusy, StoreFails, Connect, history
<1>4. home'[p] # 0 => SameTables(Known(p)', Known(p))
  BY <1>2, <1>3, SameFiles, Zenon
<1>5. /\ broken[p] \subseteq broken'[p]
      /\ job'[p] = job[p] \/ (job'[p] = NoJob /\ job[p].key \in broken'[p])
  <2>1. CASE StoreFails(p)
    BY <1>1, <2>1, Zenon DEF StoreFails
  <2>2. CASE ~StoreFails(p)
    BY <2>2, Zenon DEF NewProcess, Build, BuildNotStarted, AddRule, RuleOpened, OpenExisting,
       OpenMismatch, BuildRefused, OpenBusy, history
  <2> QED
    BY <2>1, <2>2, Zenon
<1>6. stage'[p] \in {"gone", "attaching"} => stage[p] \in {"gone", "attaching"}
  BY <1>1, Zenon DEF NewProcess, Build, BuildNotStarted, AddRule, RuleOpened, OpenExisting,
     OpenMismatch, BuildRefused, OpenBusy, StoreFails
<1> QED
  BY <1>2, <1>3, <1>4, <1>5, <1>6, Zenon DEF Spared

\* A new file is nobody's home yet.
LEMMA RecreateSpares ==
  ASSUME Inv, Domains, NEW p \in Procs, Recreate(p)
  PROVE  Spared(p)
<1>1. home[p] # newest + 1
  <2>1. newest \in Nat /\ home[p] \in 0 .. newest
    BY BoundsAssumption DEF Inv, Types
  <2> QED
    BY ONLY <2>1, SMT
<1>2. home'[p] = 0
  BY <1>1, Zenon DEF Recreate, Connect, Inv, Types
<1> QED
  BY <1>2, Zenon DEF Recreate, Spared

\* The transaction of a build starts with the file as it is.
LEMMA BuildStartedSpares ==
  ASSUME Inv, Domains, NEW p \in Procs, BuildStarted(p)
  PROVE  Spared(p)
<1>1. /\ lock[conn[p]] = NoProc /\ lock' = [lock EXCEPT ![conn[p]] = p] /\ conn[p] > 0
      /\ UNCHANGED <<files, tx, memory, broken, job, overtaken, home>>
      /\ stage' = [stage EXCEPT ![p] = "building"]
  BY Zenon DEF BuildStarted, MayLock, history
<1>2. conn[p] \in Files
  BY <1>1, ConnFile, Zenon
<1>3. tx[conn[p]] = files[conn[p]] /\ DOMAIN lock = Files /\ DOMAIN stage = Procs
  BY <1>1, <1>2, Zenon DEF Inv, Locks, Types
<1>4. ASSUME home[p] # 0
      PROVE  Known(p)' = Known(p)
  <2>1. home[p] = conn[p]
    BY <1>1, <1>4, HomeIsConn, Zenon
  <2>2. Known(p) = files[conn[p]]
    BY <1>3, <2>1, Zenon DEF Known
  <2>3. Known(p)' = tx[conn[p]]
    BY <1>1, <1>2, <1>3, <2>1, Zenon DEF Known
  <2> QED
    BY <1>3, <2>2, <2>3, Zenon
<1> QED
  BY <1>1, <1>3, <1>4, Zenon DEF Spared, SameTables

\* And ends with what it has written, or without anything of it, and then the ids of the
\* process are of no file.
LEMMA EndsSpares ==
  ASSUME Inv, Domains, NEW p \in Procs,
         BuildComplete(p) \/ IterationNotStored(p) \/ CommitFails(p)
  PROVE  Spared(p)
<1>1. PICK content :
        /\ files' = [files EXCEPT ![conn[p]] = content]
        /\ lock' = [lock EXCEPT ![conn[p]] = NoProc]
        /\ stage' = [stage EXCEPT ![p] = "idle"]
        /\ Builds(p) /\ UNCHANGED <<memory, broken, job>>
        /\ \/ content = [tx[conn[p]] EXCEPT !.iteration = epoch[p]] /\ UNCHANGED home
           \/ content = tx[conn[p]] /\ UNCHANGED home
           \/ home' = [home EXCEPT ![p] = 0]
  BY Zenon DEF BuildComplete, IterationNotStored, CommitFails, Ends, Builds, Sees
<1>2. conn[p] > 0 /\ lock[conn[p]] = p
  BY <1>1, Zenon DEF Inv, Locks
<1>3. conn[p] \in Files
  BY <1>2, ConnFile, Zenon
<1>4. /\ DOMAIN lock = Files /\ DOMAIN files = Files /\ DOMAIN stage = Procs
      /\ DOMAIN home = Procs /\ tx[conn[p]] \in Stored
  BY <1>3, Zenon DEF Inv, Types
<1>5. ASSUME home'[p] # 0
      PROVE  home'[p] = home[p] /\ SameTables(Known(p)', Known(p))
  <2>1. /\ UNCHANGED home
        /\ content = [tx[conn[p]] EXCEPT !.iteration = epoch[p]] \/ content = tx[conn[p]]
    BY <1>1, <1>4, <1>5, Zenon
  <2>2. home[p] = conn[p]
    BY <1>2, <1>5, <2>1, HomeIsConn, Zenon
  <2>3. Known(p) = tx[conn[p]]
    BY <1>2, <2>2, Zenon DEF Known
  <2>4. Known(p)' = content
    <3>1. lock'[conn[p]] # p /\ files'[conn[p]] = content
      BY <1>1, <1>3, <1>4, NamesAssumption, Zenon
    <3> QED
      BY <2>1, <2>2, <3>1, Zenon DEF Known
  <2>5. SameTables(content, tx[conn[p]])
    BY <1>4, <2>1, Zenon DEF SameTables, Stored
  <2> QED
    BY <2>1, <2>3, <2>4, <2>5, Zenon
<1>6. overtaken[p] => overtaken'[p]
  BY Zenon DEF BuildComplete, IterationNotStored, CommitFails, Overtake
<1> QED
  BY <1>1, <1>4, <1>5, <1>6, Zenon DEF Spared

\* The texts of keys are kept as they are: none of them looks like a number.
TextsAreKept == \A k \in Keys : Affinity[k] = k

\* A process that may read sees the file that it knows.
LEMMA Sight ==
  ASSUME Inv, NEW p \in Procs, conn[p] > 0, MayRead(p), home[p] # 0
  PROVE  Known(p) = tx[conn[p]] /\ home[p] = conn[p]
<1>1. home[p] = conn[p] /\ conn[p] \in Files
  BY HomeIsConn, ConnFile, Zenon
<1>2. lock[conn[p]] # p => tx[conn[p]] = files[conn[p]]
  BY <1>1, Zenon DEF Inv, Locks, MayRead
<1> QED
  BY <1>1, <1>2, Zenon DEF Known

\* The id of a key is found, as there is one only.
LEMMA FindIs ==
  ASSUME NEW c, Distinct(c), NEW k \in Keys, NEW id \in IDs, c.names[id] = Affinity[k],
         Affinity[k] # NoKey
  PROVE  Find(c, k) = id
<1>1. Find(c, k) = CHOOSE i \in IDs : c.names[i] = Affinity[k]
  BY Zenon DEF Find
<1>2. PICK i : i = Find(c, k)
  BY Zenon
<1>3. i \in IDs /\ c.names[i] = Affinity[k]
  BY <1>1, <1>2, Zenon
<1> QED
  BY <1>2, <1>3, Zenon DEF Distinct

\* By the cache or by its text, a key is found under the same id.
LEMMA IDIsFound ==
  ASSUME TextsAreKept, Inv, IDsAreDistinct, NEW p \in Procs, conn[p] > 0, MayRead(p),
         home[p] # 0, NEW k \in Keys
  PROVE  IDOf(p, k) = Find(tx[conn[p]], k)
<1>1. CASE ~Cached(p, k)
  BY <1>1, Zenon DEF IDOf, Sees
<1>2. CASE Cached(p, k)
  <2>1. IDOf(p, k) # 0 /\ IDOf(p, k) = dbKeyIDs[p][k]
    BY <1>2, Zenon DEF IDOf, Cached
  <2>2. PICK i : i = IDOf(p, k)
    BY Zenon
  <2>3. i \in IDs /\ tx[conn[p]].names[i] = Affinity[k]
    BY <2>1, <2>2, FindsID, Zenon
  <2>4. Distinct(tx[conn[p]]) /\ Affinity[k] # NoKey
    <3>1. conn[p] \in Files
      BY ConnFile, Zenon
    <3> QED
      BY <3>1, NamesAssumption, Zenon DEF IDsAreDistinct, TextsAreKept
  <2> QED
    BY <2>2, <2>3, <2>4, FindIs, Zenon
<1> QED
  BY <1>1, <1>2, Zenon

\* An id is read as the key that key_names has for it, from the cache or not.
LEMMA KeyIsRead ==
  ASSUME TextsAreKept, Inv, NEW p \in Procs, conn[p] > 0, MayRead(p), home[p] # 0,
         NEW k \in Keys, IDOf(p, k) # 0, NEW id \in IDs
  PROVE  KeyForID(p, k, id) = tx[conn[p]].names[id]
<1>1. /\ tx[conn[p]].names[IDOf(p, k)] = k /\ IDOf(p, k) \in IDs
  BY FindsID, Zenon DEF TextsAreKept
<1>2. engineKeyIDs[p] \in [IDs -> Keys \cup {NoKey}]
  BY Zenon DEF Inv, Types
<1>3. \A i \in IDs : engineKeyIDs[p][i] # NoKey => tx[conn[p]].names[i] = engineKeyIDs[p][i]
  <2> SUFFICES ASSUME NEW i \in IDs, engineKeyIDs[p][i] # NoKey
               PROVE  tx[conn[p]].names[i] = engineKeyIDs[p][i]
    BY Zenon
  <2>1. engineKeyIDs[p][i] \in Keys
    BY <1>2, Zenon
  <2> QED
    BY <2>1, Knows, Zenon DEF TextsAreKept
<1>4. CASE Cached(p, k)
  BY <1>3, <1>4, Zenon DEF KeyForID, EngineKeyIDs, Sees
<1>5. CASE ~Cached(p, k)
  <2>1. PICK e : e = [engineKeyIDs[p] EXCEPT ![IDOf(p, k)] = k]
    BY Zenon
  <2>2. \A i \in IDs : e[i] = IF i = IDOf(p, k) THEN k ELSE engineKeyIDs[p][i]
    BY <1>2, <2>1, Zenon
  <2>3. e[id] # NoKey => tx[conn[p]].names[id] = e[id]
    BY <1>1, <1>3, <2>2, Zenon
  <2> QED
    BY <1>5, <2>1, <2>3, Zenon DEF KeyForID, EngineKeyIDs, Sees
<1> QED
  BY <1>4, <1>5, Zenon

\* The memory of a process that has read one more result, or failed to.
LEMMA ReadMemory ==
  ASSUME Inv, Domains, NEW p \in Procs, NEW k \in Keys, NEW v, OfMemory(p),
         job[p] = NoJob, job' = job,
         memory' = [memory EXCEPT ![p][k] = v],
         broken[p] \subseteq broken'[p], overtaken' = overtaken,
         stage'[p] \notin {"gone", "attaching"},
         home'[p] # 0 => home'[p] = home[p] /\ SameTables(Known(p)', Known(p)),
         home[p] # 0 => k \in broken'[p] \/ v = View(Known(p), k)
  PROVE  OfMemory(p)'
<1>1. JobIsKept(p)'
  BY Zenon DEF JobIsKept
<1>2. Mirrors(p)'
  <2> SUFFICES ASSUME home'[p] # 0, ~overtaken'[p], NEW j \in Keys,
                      memory'[p][j] # Unknown, j \notin broken'[p], j # job'[p].key
               PROVE  Known(p)'.mixed \/ memory'[p][j] = View(Known(p)', j)
    BY Zenon DEF Mirrors, Mirrored, View, Find, Decode, Row, Unknown, NoRow, NoResult
  <2>1. home[p] # 0 /\ ~overtaken[p] /\ SameTables(Known(p)', Known(p))
    BY Zenon
  <2>2. View(Known(p)', j) = View(Known(p), j) /\ Known(p)'.mixed = Known(p).mixed
    BY <2>1, SameView, Zenon DEF SameTables
  <2>3. memory'[p][j] = IF j = k THEN v ELSE memory[p][j]
    BY Zenon DEF Domains
  <2>4. CASE j = k
    BY <2>1, <2>2, <2>3, <2>4, Zenon
  <2>5. CASE j # k
    <3>1. Mirrored(p, j)
      BY <2>1, <2>3, <2>5, Zenon DEF OfMemory, Mirrors
    <3> QED
      BY <2>2, <2>3, <2>5, <3>1, Zenon DEF Mirrored
  <2> QED
    BY <2>4, <2>5, Zenon
<1> QED
  BY <1>1, <1>2, Zenon DEF OfMemory

\* A result is read as the tables have it.
LEMMA ReadIsView ==
  ASSUME TextsAreKept, Inv, IDsAreDistinct, NEW p \in Procs, NEW k \in Keys, Adds(p, k),
         MayRead(p), RowOf(p, k) # NoRow, home[p] # 0, Reads(p, k, Last(p, k))
  PROVE  memory' = [memory EXCEPT ![p][k] = View(Known(p), k)]
<1>1. conn[p] > 0
  BY Zenon DEF Adds
<1>2. PICK c : c = tx[conn[p]] /\ c = Known(p) /\ c \in Stored
  BY <1>1, Sight, Knows, Zenon
<1>3. PICK i : i = IDOf(p, k) /\ i = Find(c, k) /\ i # 0 /\ i \in IDs
  <2>1. IDOf(p, k) # 0
    BY Zenon DEF RowOf
  <2>2. IDOf(p, k) = Find(c, k)
    BY <1>1, <1>2, IDIsFound, Zenon
  <2>3. IDOf(p, k) \in IDs
    BY <1>1, FindsID, Zenon
  <2>4. IDOf(p, k) \in IDs
    BY <2>1, <2>3, Zenon
  <2> QED
    BY <2>1, <2>2, <2>4, Zenon
<1>4. PICK row : row = RowOf(p, k) /\ row = c.rows[i] /\ row # NoRow
  BY <1>2, <1>3, Zenon DEF RowOf, Sees
<1>5. PICK d : d = row.dependencies /\ d \in Seq(Raws)
  <2>1. c.rows \in [IDs -> StoredRow]
    BY <1>2, Zenon DEF Stored
  <2>2. row \in StoredRow
    BY <1>3, <1>4, <2>1, Zenon
  <2> QED
    BY <1>4, <2>2, Zenon DEF StoredRow
<1>6. ASSUME NEW m \in DOMAIN d
      PROVE  /\ m <= Len(d)
             /\ KeyForID(p, k, d[m] \div 4) = c.names[d[m] \div 4]
  <2>1. m <= Len(d)
    BY ONLY <1>5, <1>6, SMT
  <2>2. d[m] \in Raws
    BY <1>5, Element, Zenon
  <2>3. PICK id \in IDs : id = d[m] \div 4
    BY <2>2, Zenon DEF Raws
  <2>4. KeyForID(p, k, id) = c.names[id]
    BY <1>1, <1>2, <1>3, KeyIsRead, Zenon
  <2> QED
    BY <2>1, <2>3, <2>4, Zenon
<1>7. View(c, k) = Row(row, [n \in DOMAIN d |-> Decode(d[n], c.names[d[n] \div 4])])
  BY <1>3, <1>4, <1>5, Zenon DEF View
<1>8. memory' = [memory EXCEPT ![p][k] = Row(row, [m \in DOMAIN d |->
         IF m <= Len(d) THEN Decode(d[m], KeyForID(p, k, d[m] \div 4))
         ELSE [key |-> NoKey, orderOnly |-> 0, singleUse |-> 0]])]
  BY <1>4, <1>5, Zenon DEF Reads, Last, RawID
<1>9. [m \in DOMAIN d |->
         IF m <= Len(d) THEN Decode(d[m], KeyForID(p, k, d[m] \div 4))
         ELSE [key |-> NoKey, orderOnly |-> 0, singleUse |-> 0]]
      = [n \in DOMAIN d |-> Decode(d[n], c.names[d[n] \div 4])]
  BY <1>6, Zenon
<1> QED
  BY <1>2, <1>7, <1>8, <1>9, Zenon

\* A lookup keeps the memory like the tables, or marks the key.
LEMMA LookupMemory ==
  ASSUME TextsAreKept, Inv, Domains, IDsAreDistinct, NEW p \in Procs, OfMemory(p),
         NEW k \in Keys,
         \/ LookupFinds(p, k) \/ LookupFindsNone(p, k) \/ LookupStops(p, k) \/ LookupFails(p, k)
  PROVE  OfMemory(p)'
<1>1. /\ Adds(p, k) /\ UNCHANGED <<files, lock, tx, stage, job, home, overtaken>>
  BY Zenon DEF LookupFinds, LookupFindsNone, LookupStops, LookupFails, Found, Reads, disk,
     history
<1>2. conn[p] > 0 /\ job[p] = NoJob /\ stage'[p] \notin {"gone", "attaching"}
  BY <1>1, Zenon DEF Adds
<1>3. SameTables(Known(p)', Known(p))
  BY <1>1, SameFiles, Zenon
<1>4. broken[p] \subseteq broken'[p]
  BY Zenon DEF LookupFinds, LookupFindsNone, LookupStops, LookupFails, Breaks, history, Domains
<1>5. PICK v : /\ memory' = [memory EXCEPT ![p][k] = v]
               /\ home[p] # 0 => k \in broken'[p] \/ v = View(Known(p), k)
  <2>1. CASE LookupFinds(p, k)
    <3>1. PICK w : memory' = [memory EXCEPT ![p][k] = w]
      BY <2>1, Zenon DEF LookupFinds, Reads
    <3>2. CASE home[p] # 0
      BY <1>1, <2>1, <3>2, ReadIsView, Zenon DEF LookupFinds, Found
    <3> QED
      BY <3>1, <3>2, Zenon
  <2>2. CASE LookupFindsNone(p, k)
    <3>1. ASSUME home[p] # 0
          PROVE  View(Known(p), k) = NoResult
      <4>1. MayRead(p) /\ RowOf(p, k) = NoRow
        BY <2>2, Zenon DEF LookupFindsNone
      <4>2. IDOf(p, k) = Find(tx[conn[p]], k) /\ Known(p) = tx[conn[p]]
        BY <1>2, <3>1, <4>1, IDIsFound, Sight, Zenon
      <4> QED
        BY <4>1, <4>2, Zenon DEF View, RowOf, Sees
    <3> QED
      BY <2>2, <3>1, Zenon DEF LookupFindsNone
  <2>3. CASE LookupStops(p, k) \/ LookupFails(p, k)
    <3>1. PICK w : memory' = [memory EXCEPT ![p][k] = w]
      BY <2>3, Zenon DEF LookupStops, LookupFails, Reads
    <3>2. k \in broken'[p]
      <4>1. Breaks(p, k)
        BY <2>3, Zenon DEF LookupStops, LookupFails
      <4> QED
        BY <4>1, Zenon DEF Breaks, Domains
    <3> QED
      BY <3>1, <3>2, Zenon
  <2> QED
    BY <2>1, <2>2, <2>3, Zenon
<1> QED
  BY <1>1, <1>2, <1>3, <1>4, <1>5, ReadMemory, Zenon

\* A process that has no connection cannot read, and notes it.
LEMMA OpenBusyMemory ==
  ASSUME Inv, Domains, NEW p \in Procs, OfMemory(p), OpenBusy(p), stage[p] = "adding", ~Die(p)
  PROVE  OfMemory(p)'
<1>1. PICK k \in Keys : /\ memory' = [memory EXCEPT ![p][k] = NoResult]
                        /\ broken' = [broken EXCEPT ![p] = @ \cup {k}]
  BY Zenon DEF OpenBusy
<1>2. UNCHANGED <<files, lock, tx, job, overtaken>> /\ stage' = [stage EXCEPT ![p] = "idle"]
  BY Zenon DEF OpenBusy, disk
<1>3. home'[p] # 0 => home'[p] = home[p]
  BY Zenon DEF OpenBusy, Connect, Inv, Types
<1>4. home'[p] # 0 => SameTables(Known(p)', Known(p))
  BY <1>2, <1>3, SameFiles, Zenon
<1>5. job[p] = NoJob /\ stage'[p] \notin {"gone", "attaching"}
  BY <1>2, Zenon DEF Inv, Jobs, Types
<1>6. broken[p] \subseteq broken'[p] /\ k \in broken'[p]
  BY <1>1, Zenon DEF Domains
<1>7. PICK v : v = NoResult
  BY Zenon
<1> QED
  BY <1>1, <1>2, <1>3, <1>4, <1>5, <1>6, <1>7, ReadMemory, Zenon

\* A process that ends forgets everything, and one that attaches knows nothing yet.
LEMMA DieMemory ==
  ASSUME Inv, Domains, NEW p \in Procs, Die(p)
  PROVE  OfMemory(p)'
<1>1. /\ home'[p] = 0 /\ job'[p] = NoJob /\ memory'[p] = [k \in Keys |-> Unknown]
  BY Zenon DEF Die, Inv, Types, Domains
<1> QED
  BY <1>1, Zenon DEF OfMemory, Fresh, JobIsKept, Mirrors

\* A process that attaches has nothing in memory.
LEMMA AttachMemory ==
  ASSUME Inv, Domains, NEW p \in Procs, OfMemory(p), GetCurrentEpoch(p), ~Die(p)
  PROVE  OfMemory(p)'
<1>1. stage[p] = "attaching" /\ memory' = memory /\ job' = job
  BY Zenon DEF GetCurrentEpoch
<1>2. Fresh(p) /\ job[p] = NoJob
  BY <1>1, Zenon DEF OfMemory, Inv, Jobs
<1> QED
  BY <1>1, <1>2, Zenon DEF OfMemory, Fresh, JobIsKept, Mirrors

\* A finished rule is in memory before it is stored.
LEMMA SetRuleResultMemory ==
  ASSUME Inv, Domains, NEW p \in Procs, OfMemory(p), NEW k \in Keys, NEW deps \in Deps[k],
         SetRuleResult(p, k, deps)
  PROVE  OfMemory(p)'
<1>1. PICK r : /\ memory' = [memory EXCEPT ![p][k] = r]
               /\ job' = [job EXCEPT ![p] = [NoJob EXCEPT !.key = k, !.result = r]]
  BY Zenon DEF SetRuleResult
<1>2. /\ UNCHANGED <<files, lock, tx, stage, home, overtaken, broken>>
      /\ stage[p] = "building" /\ job[p] = NoJob
  BY Zenon DEF SetRuleResult, disk, history
<1>3. /\ job'[p].key = k /\ job'[p].result = r /\ job'[p].raw = <<>>
      /\ \A j \in Keys : memory'[p][j] = IF j = k THEN r ELSE memory[p][j]
  BY <1>1, NoJobIsJob, Zenon DEF Inv, Types, Domains, NoJob
<1>4. Known(p)' = Known(p)
  BY <1>2, Zenon DEF Known
<1>5. JobIsKept(p)'
  <2>1. \A names, d : Encoded(names, <<>>, d)
    BY DEF Encoded
  <2> QED
    BY <1>3, <2>1, Zenon DEF JobIsKept
<1>6. Mirrors(p)'
  <2> SUFFICES ASSUME home[p] # 0, ~overtaken[p], NEW j \in Keys,
                      memory'[p][j] # Unknown, j \notin broken[p], j # job'[p].key
               PROVE  Known(p)'.mixed \/ memory'[p][j] = View(Known(p)', j)
    BY <1>2, Zenon DEF Mirrors, Mirrored, View, Find, Decode, Row, Unknown, NoRow, NoResult
  <2>1. j # k /\ memory'[p][j] = memory[p][j] /\ j # job[p].key
    <3>1. j # k /\ memory'[p][j] = memory[p][j]
      BY <1>3, Zenon
    <3>2. NoJob.key = NoKey
      BY DEF NoJob
    <3> QED
      BY <1>2, <3>1, <3>2, NamesAssumption, Zenon
  <2>2. Mirrored(p, j)
    BY <2>1, Zenon DEF OfMemory, Mirrors
  <2> QED
    BY <1>4, <2>1, <2>2, Zenon DEF Mirrored
<1> QED
  BY <1>2, <1>5, <1>6, Zenon DEF OfMemory

\* Decoding is the inverse of encoding.
LEMMA EncodeDecodes ==
  ASSUME NEW id \in IDs, NEW dep \in KeyFlags
  PROVE  Decode(Encode(id, dep), dep.key) = dep
<1>1. PICK s \in {0, 1}, o \in {0, 1} : s = dep.singleUse /\ o = dep.orderOnly
  BY Zenon DEF KeyFlags
<1>2. PICK r : r = 4 * id + 2 * s + o
  BY Zenon
<1>3. id \in Nat
  BY BoundsAssumption
<1>4. r % 2 = o /\ (r \div 2) % 2 = s
  <2>1. CASE s = 0
    BY ONLY <1>2, <1>3, <2>1, o \in {0, 1}, SMT
  <2>2. CASE s = 1
    BY ONLY <1>2, <1>3, <2>2, o \in {0, 1}, SMT
  <2> QED
    BY <2>1, <2>2, Zenon
<1>5. Encode(id, dep) = r
  BY <1>1, <1>2, Zenon DEF Encode
<1> QED
  BY <1>1, <1>4, <1>5, Zenon DEF Decode, KeyFlags

Added(c, d, k, id) ==
  /\ Distinct(d) /\ c.names[id] = NoKey
  /\ \A i \in IDs : d.names[i] = IF i = id THEN Affinity[k] ELSE c.names[i]
  /\ d.rows = c.rows /\ d.mixed = c.mixed
  /\ \A i \in IDs : c.names[i] # Affinity[k]

\* A new name has a new id, and no other.
LEMMA AddedName ==
  ASSUME NEW c \in Stored, WellNamed(c), Distinct(c), NEW k \in Keys, NEW id \in IDs,
         NextID(c, k, id)
  PROVE  Added(c, AddName(c, k, id), k, id)
<1>1. PICK d : d = AddName(c, k, id)
  BY Zenon
<1>2. /\ d.names = [c.names EXCEPT ![id] = Affinity[k]]
      /\ d.rows = c.rows /\ d.mixed = c.mixed /\ c.names \in [IDs -> Keys \cup {NoKey}]
  BY <1>1, Zenon DEF Stored, AddName
<1>3. \A i \in IDs : d.names[i] = IF i = id THEN Affinity[k] ELSE c.names[i]
  BY <1>2, Zenon
<1>4. c.names[id] = NoKey
  <2> SUFFICES ASSUME c.names[id] # NoKey PROVE FALSE
    BY Zenon
  <2>1. c.last + 1 <= c.last /\ c.last \in IDs
    BY Zenon DEF WellNamed, Stored, NextID
  <2> QED
    BY ONLY <2>1, BoundsAssumption, SMT
<1>5. \A i \in IDs : c.names[i] # Affinity[k]
  <2> SUFFICES ASSUME NEW i \in IDs, c.names[i] = Affinity[k] PROVE FALSE
    BY Zenon
  <2>1. Find(c, k) = CHOOSE n \in IDs : c.names[n] = Affinity[k]
    BY Zenon DEF Find
  <2>2. c.names[0] = Affinity[k]
    BY <2>1, Zenon DEF NextID
  <2> QED
    BY <2>2, AffinityAssumption, NamesAssumption, Zenon DEF WellNamed
<1>6. Distinct(d)
  <2> SUFFICES ASSUME NEW i \in IDs, NEW j \in IDs, d.names[i] = d.names[j], d.names[i] # NoKey
               PROVE  i = j
    BY Zenon DEF Distinct
  <2>1. CASE i = id \/ j = id
    BY <1>3, <1>5, <2>1, Zenon
  <2>2. CASE i # id /\ j # id
    BY <1>3, <2>2, Zenon DEF Distinct
  <2> QED
    BY <2>1, <2>2, Zenon
<1> QED
  BY <1>1, <1>2, <1>3, <1>4, <1>5, <1>6, Zenon DEF Added

\* It changes nothing that the tables say: nothing is filed under the new id.
LEMMA AddedView ==
  ASSUME TextsAreKept, NEW c \in Stored, WellNamed(c), Distinct(c), OwnRows(c),
         NEW k \in Keys, NEW id \in IDs, NextID(c, k, id), NEW j \in Keys
  PROVE  View(AddName(c, k, id), j) = View(c, j)
<1>1. PICK d : d = AddName(c, k, id)
  BY Zenon
<1>2. /\ Distinct(d) /\ c.names[id] = NoKey /\ d.rows = c.rows
      /\ \A i \in IDs : d.names[i] = IF i = id THEN k ELSE c.names[i]
      /\ \A i \in IDs : c.names[i] # k
  <2>1. Added(c, d, k, id)
    BY <1>1, AddedName, Zenon
  <2>2. Affinity[k] = k
    BY Zenon DEF TextsAreKept
  <2> QED
    BY <2>1, <2>2, Zenon DEF Added
<1>3. Affinity[j] = j /\ j # NoKey
  BY NamesAssumption, Zenon DEF TextsAreKept
<1>4. CASE j = k
  <2>1. View(c, j) = NoResult
    BY <1>4, Zenon DEF View, NextID
  <2>2. d.names[id] = Affinity[j] /\ Affinity[j] # NoKey
    BY <1>2, <1>3, <1>4, Zenon
  <2>3. Find(d, j) = id
    BY <1>2, <2>2, FindIs, Zenon
  <2>4. c.rows[id] = NoRow
    <3> SUFFICES ASSUME c.rows[id] # NoRow PROVE FALSE
      BY Zenon
    <3>1. c.rows \in [IDs -> StoredRow]
      BY Zenon DEF Stored
    <3>2. c.rows[id] \in StoredRow
      BY <3>1, Zenon
    <3>3. c.rows[id].value \in Keys
      BY <3>2, Zenon DEF StoredRow
    <3>4. NoKey = Affinity[c.rows[id].value]
      BY <1>2, Zenon DEF OwnRows
    <3> QED
      BY <3>3, <3>4, NamesAssumption, Zenon DEF TextsAreKept
  <2>5. View(d, j) = NoResult
    BY <1>2, <2>3, <2>4, Zenon DEF View
  <2> QED
    BY <1>1, <2>1, <2>5, Zenon
<1>5. CASE j # k /\ \E i \in IDs : c.names[i] = j
  <2>1. PICK i \in IDs : c.names[i] = j
    BY <1>5, Zenon
  <2>2. Find(c, j) = i
    BY <1>3, <2>1, FindIs, Zenon
  <2>3. d.names[i] = Affinity[j] /\ Affinity[j] # NoKey
    BY <1>2, <1>3, <2>1, Zenon
  <2>4. Find(d, j) = i
    BY <1>2, <2>3, FindIs, Zenon
  <2>5. CASE c.rows[i] = NoRow
    BY <1>1, <1>2, <2>2, <2>4, <2>5, Zenon DEF View
  <2>6. CASE c.rows[i] # NoRow
    <3>1. PICK deps : deps = c.rows[i].dependencies /\ deps \in Seq(Raws)
      <4>1. c.rows \in [IDs -> StoredRow]
        BY Zenon DEF Stored
      <4>2. c.rows[i] \in StoredRow
        BY <4>1, Zenon
      <4> QED
        BY <2>6, <4>2, Zenon DEF StoredRow
    <3>2. ASSUME NEW n \in DOMAIN deps
          PROVE  d.names[deps[n] \div 4] = c.names[deps[n] \div 4]
      <4>1. deps[n] \in Raws
        BY <3>1, Element, Zenon
      <4>2. PICK m \in IDs : m = deps[n] \div 4
        BY <4>1, Zenon DEF Raws
      <4>3. c.names[m] # NoKey
        BY <2>6, <3>1, <4>2, Zenon DEF OwnRows
      <4> QED
        BY <1>2, <4>2, <4>3, Zenon
    <3>3. i # 0
      BY <1>3, <2>1, Zenon DEF WellNamed
    <3>4. View(c, j) = Row(c.rows[i], [n \in DOMAIN deps |-> Decode(deps[n], c.names[deps[n] \div 4])])
      BY <2>2, <2>6, <3>1, <3>3, Zenon DEF View
    <3>5. View(d, j) = Row(c.rows[i], [n \in DOMAIN deps |-> Decode(deps[n], d.names[deps[n] \div 4])])
      BY <1>2, <2>4, <2>6, <3>1, <3>3, Zenon DEF View
    <3>6. [n \in DOMAIN deps |-> Decode(deps[n], c.names[deps[n] \div 4])] =
            [n \in DOMAIN deps |-> Decode(deps[n], d.names[deps[n] \div 4])]
      BY <3>2, Zenon
    <3> QED
      BY <1>1, <3>4, <3>5, <3>6, Zenon
  <2> QED
    BY <2>5, <2>6, Zenon
<1>6. CASE j # k /\ ~\E i \in IDs : c.names[i] = j
  <2>1. ~\E i \in IDs : d.names[i] = j
    BY <1>2, <1>6, Zenon
  <2>2. Find(c, j) = 0 /\ Find(d, j) = 0
    BY <1>3, <1>6, <2>1, Zenon DEF Find
  <2> QED
    BY <1>1, <2>2, Zenon DEF View
<1> QED
  BY <1>4, <1>5, <1>6, Zenon

\* What was encoded stays decodable as long as no name is taken away.
LEMMA StaysEncoded ==
  ASSUME NEW names, NEW new, \A i \in IDs : names[i] # NoKey => new[i] = names[i],
         NEW raw \in Seq(Raws), \A n \in DOMAIN raw : names[raw[n] \div 4] # NoKey,
         NEW deps, Encoded(names, raw, deps)
  PROVE  Encoded(new, raw, deps)
<1> SUFFICES ASSUME NEW n \in DOMAIN raw
             PROVE  n \in DOMAIN deps /\ Decode(raw[n], new[raw[n] \div 4]) = deps[n]
  BY Zenon DEF Encoded
<1>1. raw[n] \in Raws
  BY Element, Zenon
<1>2. PICK i \in IDs : i = raw[n] \div 4
  BY <1>1, Zenon DEF Raws
<1>3. new[i] = names[i]
  BY <1>2, Zenon
<1> QED
  BY <1>2, <1>3, Zenon DEF Encoded

\* The id is the one of the dependency to be encoded next.
IsNext(names, raw, deps, id, n) ==
  n \in DOMAIN deps /\ n = Len(raw) + 1 /\ names[id] = deps[n].key

\* One more dependency is encoded.
LEMMA EncodedOneMore ==
  ASSUME NEW names, NEW raw \in Seq(Raws), NEW deps \in Seq(KeyFlags),
         Encoded(names, raw, deps), NEW id \in IDs, NEW n, IsNext(names, raw, deps, id, n)
  PROVE  Encoded(names, Append(raw, Encode(id, deps[n])), deps)
<1> USE DEF IsNext
<1>1. deps[n] \in KeyFlags
  BY Element, Zenon
<1>2. PICK r : r = Encode(id, deps[n])
  BY Zenon
<1>3. r \div 4 = id /\ Decode(r, deps[n].key) = deps[n]
  BY <1>1, <1>2, EncodeKeepsID, EncodeDecodes, Zenon
<1>4. \A m \in DOMAIN Append(raw, r) : \/ m \in DOMAIN raw /\ Append(raw, r)[m] = raw[m]
                                       \/ m = n /\ Append(raw, r)[m] = r
  <2>1. n = Len(raw) + 1
    BY Zenon
  <2> QED
    BY ONLY <2>1, raw \in Seq(Raws), SMT
<1>5. ASSUME NEW m \in DOMAIN Append(raw, r)
      PROVE  /\ m \in DOMAIN deps
             /\ Decode(Append(raw, r)[m], names[Append(raw, r)[m] \div 4]) = deps[m]
  <2>1. CASE m \in DOMAIN raw /\ Append(raw, r)[m] = raw[m]
    BY <2>1, Zenon DEF Encoded
  <2>2. CASE m = n /\ Append(raw, r)[m] = r
    BY <1>3, <2>2, Zenon
  <2> QED
    BY <1>4, <2>1, <2>2, Zenon
<1> QED
  BY <1>2, <1>5, Zenon DEF Encoded

\* getKeyID() takes no name away and changes nothing that the tables say.
LEMMA GetKeyIDKeeps ==
  ASSUME TextsAreKept, Inv, IDsAreDistinct, NEW p \in Procs, conn[p] \in Files,
         NEW k \in Keys, NEW id \in IDs,
         \/ tx' = tx
         \/ tx' = [tx EXCEPT ![conn[p]] = AddName(tx[conn[p]], k, id)] /\ NextID(tx[conn[p]], k, id)
  PROVE  /\ \A i \in IDs : tx[conn[p]].names[i] # NoKey =>
                             tx'[conn[p]].names[i] = tx[conn[p]].names[i]
         /\ tx'[conn[p]].mixed = tx[conn[p]].mixed
         /\ tx[conn[p]].mixed \/ \A j \in Keys : View(tx'[conn[p]], j) = View(tx[conn[p]], j)
         /\ Distinct(tx'[conn[p]])
<1>1. PICK c, d : c = tx[conn[p]] /\ d = tx'[conn[p]]
  BY Zenon
<1>2. /\ c \in Stored /\ WellNamed(c) /\ Distinct(c) /\ (c.mixed \/ OwnRows(c))
  BY <1>1, Zenon DEF Inv, Types, Names, RowsAreOwn, IDsAreDistinct
<1>3. CASE tx' = tx
  BY <1>1, <1>2, <1>3, Zenon
<1>4. CASE d = AddName(c, k, id) /\ NextID(c, k, id)
  <2>1. Added(c, d, k, id)
    BY <1>2, <1>4, AddedName, Zenon
  <2>2. /\ d.mixed = c.mixed /\ Distinct(d)
        /\ \A i \in IDs : c.names[i] # NoKey => d.names[i] = c.names[i]
    BY <2>1, Zenon DEF Added
  <2>3. c.mixed \/ \A j \in Keys : View(d, j) = View(c, j)
    BY <1>2, <1>4, AddedView, Zenon
  <2> QED
    BY <1>1, <2>2, <2>3, Zenon
<1>5. tx' = tx \/ (d = AddName(c, k, id) /\ NextID(c, k, id))
  BY <1>1, Zenon DEF Inv, Types
<1> QED
  BY <1>3, <1>4, <1>5, Zenon

\* The memory while the ids of a result are found.
LEMMA GetKeyIDMemory ==
  ASSUME TextsAreKept, Inv, Domains, IDsAreDistinct, NEW p \in Procs, OfMemory(p),
         NEW id \in IDs, Gets(p, id)
  PROVE  OfMemory(p)'
<1>1. /\ job'[p] = IF job[p].id = NoID THEN [job[p] EXCEPT !.id = id]
                   ELSE [job[p] EXCEPT !.raw = Append(job[p].raw, Encode(id,
                           job[p].result.dependencies[Len(job[p].raw) + 1]))]
      /\ \/ tx' = tx
         \/ /\ tx' = [tx EXCEPT ![conn[p]] = AddName(tx[conn[p]], Wanted(p), id)]
            /\ NextID(tx[conn[p]], Wanted(p), id)
      /\ Wanted(p) \in Keys
      /\ home'[p] # 0 => home'[p] = home[p] /\ tx'[conn[p]].names[id] = Affinity[Wanted(p)]
  BY Zenon DEF Gets, Takes, Inv, Types
<1>2. /\ UNCHANGED <<files, lock, conn, memory, stage, overtaken, broken>>
      /\ job[p] # NoJob
      /\ job[p].id = NoID \/ Len(job[p].raw) < Len(job[p].result.dependencies)
  BY Zenon DEF Gets, Takes, WantsID
<1>3. /\ conn[p] \in Files /\ lock[conn[p]] = p /\ stage[p] = "building"
      /\ home[p] # 0 => home[p] = conn[p]
  BY <1>2, UnderWay, Zenon
<1>4. PICK c, d : c = tx[conn[p]] /\ d = tx'[conn[p]]
  BY Zenon
<1>5. /\ \A i \in IDs : c.names[i] # NoKey => d.names[i] = c.names[i]
      /\ d.mixed = c.mixed /\ (c.mixed \/ \A j \in Keys : View(d, j) = View(c, j))
  BY <1>1, <1>3, <1>4, GetKeyIDKeeps, Zenon
<1>6. home'[p] # 0 => home[p] # 0 /\ Known(p) = c /\ Known(p)' = d
  BY <1>1, <1>2, <1>3, <1>4, Zenon DEF Known
<1>7. PICK raw, deps : raw = job[p].raw /\ deps = job[p].result.dependencies
  BY Zenon
<1>8. raw \in Seq(Raws) /\ deps \in Seq(KeyFlags) /\ job[p] \in Job
  BY <1>2, <1>7, UnderWay, Zenon
<1>9. job'[p].key = job[p].key /\ job'[p].result = job[p].result
  BY <1>1, <1>8, Zenon DEF Job
<1>10. ASSUME home'[p] # 0
       PROVE  Encoded(d.names, job'[p].raw, deps)
  <2>1. Encoded(c.names, raw, deps)
    BY <1>2, <1>6, <1>7, <1>10, Zenon DEF OfMemory, JobIsKept
  <2>2. \A n \in DOMAIN raw : c.names[raw[n] \div 4] # NoKey
    BY <1>2, <1>4, <1>6, <1>7, <1>10, Zenon DEF Inv, Jobs
  <2>3. Encoded(d.names, raw, deps)
    BY <1>5, <1>8, <2>1, <2>2, StaysEncoded, Zenon
  <2>4. CASE job[p].id = NoID
    BY <1>1, <1>7, <1>8, <2>3, <2>4, Zenon DEF Job
  <2>5. CASE job[p].id # NoID
    <3>1. PICK n : n = Len(raw) + 1
      BY Zenon
    <3>2. n \in DOMAIN deps
      <4>1. Len(raw) < Len(deps)
        BY <1>2, <1>7, <2>5, Zenon
      <4> QED
        BY ONLY <1>8, <3>1, <4>1, SMT
    <3>3. Wanted(p) = deps[n].key
      BY <1>7, <2>5, <3>1, Zenon DEF Wanted
    <3>4. IsNext(d.names, raw, deps, id, n)
      BY <1>1, <1>4, <1>10, <3>1, <3>2, <3>3, Zenon DEF IsNext, TextsAreKept
    <3>5. Encoded(d.names, Append(raw, Encode(id, deps[n])), deps)
      BY <1>8, <2>3, <3>4, EncodedOneMore, Zenon
    <3>6. job'[p].raw = Append(raw, Encode(id, deps[n]))
      BY <1>1, <1>7, <1>8, <2>5, <3>1, Zenon DEF Job
    <3> QED
      BY <3>5, <3>6, Zenon
  <2> QED
    BY <2>4, <2>5, Zenon
<1>11. JobIsKept(p)'
  <2>1. memory'[p][job'[p].key] = job'[p].result
    BY <1>2, <1>9, Zenon DEF OfMemory, JobIsKept
  <2>2. home'[p] # 0 => Encoded(Known(p)'.names, job'[p].raw, job'[p].result.dependencies)
    BY <1>2, <1>6, <1>7, <1>9, <1>10, Zenon
  <2> QED
    BY <2>1, <2>2, Zenon DEF JobIsKept
<1>12. Mirrors(p)'
  <2> SUFFICES ASSUME home'[p] # 0, ~overtaken[p], NEW j \in Keys,
                      memory[p][j] # Unknown, j \notin broken[p], j # job[p].key
               PROVE  Known(p)'.mixed \/ memory[p][j] = View(Known(p)', j)
    BY <1>2, <1>9, Zenon DEF Mirrors, Mirrored, View, Find, Decode, Row, Unknown, NoRow, NoResult
  <2>1. Mirrored(p, j)
    BY <1>6, Zenon DEF OfMemory, Mirrors
  <2> QED
    BY <1>5, <1>6, <2>1, Zenon DEF Mirrored
<1> QED
  BY <1>2, <1>3, <1>11, <1>12, Zenon DEF OfMemory

\* A result is filed under the id of its key, with what was encoded.
IsFiled(d, k, id, r, raw) ==
  /\ id # 0 /\ Find(d, k) = id /\ d.rows[id] = Row(r, raw)
  /\ r \in [value : Keys \cup {NoKey}, builtAt : Int, dependencies : Seq(KeyFlags)]
  /\ r.value = k /\ raw \in Seq(Raws) /\ Len(raw) = Len(r.dependencies)
  /\ Encoded(d.names, raw, r.dependencies)

\* Then the tables say what the result was.
LEMMA FiledView ==
  ASSUME NEW d, NEW k \in Keys, NEW id \in IDs, NEW r, NEW raw, IsFiled(d, k, id, r, raw)
  PROVE  View(d, k) = r
<1> USE DEF IsFiled
<1>1. PICK deps : deps = r.dependencies /\ deps \in Seq(KeyFlags)
  BY Zenon
<1>2. PICK row : row = Row(r, raw)
  BY Zenon
<1>3. row.dependencies = raw /\ row.value = k
  BY <1>2, Zenon DEF Row
<1>4. row # NoRow
  <2>1. NoRow.value = NoKey
    BY Zenon DEF NoRow, NoResult
  <2> QED
    BY <1>3, <2>1, NamesAssumption, Zenon
<1>5. id # 0
  BY Zenon
<1>6. View(d, k) = Row(row, [n \in DOMAIN raw |-> Decode(raw[n], d.names[raw[n] \div 4])])
  BY <1>2, <1>3, <1>4, <1>5, Zenon DEF View
<1>7. DOMAIN raw = DOMAIN deps /\ deps = [n \in DOMAIN deps |-> deps[n]]
  <2>1. Len(raw) = Len(deps)
    BY <1>1, Zenon
  <2> QED
    BY <1>1, <2>1, SMT
<1>8. [n \in DOMAIN raw |-> Decode(raw[n], d.names[raw[n] \div 4])] = [n \in DOMAIN deps |-> deps[n]]
  BY <1>1, <1>7, Zenon DEF Encoded
<1>9. View(d, k) = Row(row, deps)
  BY <1>6, <1>7, <1>8, Zenon
<1>10. Row(row, deps) = r
  BY <1>1, <1>2, Zenon DEF Row
<1> QED
  BY <1>9, <1>10, Zenon

\* One row is replaced.
Refiled(c, d, id, row) == d.names = c.names /\ d.rows = [c.rows EXCEPT ![id] = row]

\* This changes nothing for the keys with other ids.
LEMMA OtherView ==
  ASSUME NEW c \in Stored, NEW d, NEW id \in IDs, NEW row, Refiled(c, d, id, row),
         NEW j \in Keys, c.names[id] # Affinity[j]
  PROVE  View(d, j) = View(c, j)
<1> USE DEF Refiled
<1>1. Find(d, j) = Find(c, j)
  BY Zenon DEF Find
<1>2. CASE Find(c, j) = 0
  BY <1>1, <1>2, Zenon DEF View
<1>3. CASE Find(c, j) # 0
  <2>1. \E i \in IDs : c.names[i] = Affinity[j]
    BY <1>3, Zenon DEF Find
  <2>2. Find(c, j) = CHOOSE i \in IDs : c.names[i] = Affinity[j]
    BY <2>1, Zenon DEF Find
  <2>3. PICK i \in IDs : i = Find(c, j) /\ c.names[i] = Affinity[j]
    BY <2>1, <2>2, Zenon
  <2>4. d.rows[i] = c.rows[i]
    BY <2>3, Zenon DEF Stored
  <2> QED
    BY <1>1, <2>3, <2>4, Zenon DEF View
<1> QED
  BY <1>2, <1>3, Zenon

\* The memory once a result is stored.
LEMMA StoreRowMemory ==
  ASSUME TextsAreKept, Inv, Domains, IDsAreDistinct, NEW p \in Procs, OfMemory(p), StoreRow(p)
  PROVE  OfMemory(p)'
<1>1. /\ UNCHANGED <<files, lock, conn, home, memory, stage, overtaken, broken>>
      /\ job[p] # NoJob /\ job[p].id # NoID /\ job' = [job EXCEPT ![p] = NoJob]
      /\ Len(job[p].raw) = Len(job[p].result.dependencies)
  BY Zenon DEF StoreRow, history
<1>2. PICK k, id, r, raw : k = job[p].key /\ id = job[p].id /\ r = job[p].result /\ raw = job[p].raw
  BY Zenon
<1>3. /\ stage[p] = "building" /\ k \in Keys /\ r.value = k /\ conn[p] \in Files
      /\ lock[conn[p]] = p /\ id \in IDs /\ raw \in Seq(Raws)
      /\ r \in [value : Keys \cup {NoKey}, builtAt : Int, dependencies : Seq(KeyFlags)]
      /\ home[p] # 0 => home[p] = conn[p]
  BY <1>1, <1>2, UnderWay, Zenon
<1>4. PICK c, d : c = tx[conn[p]] /\ d = tx'[conn[p]]
  BY Zenon
<1>5. c \in Stored /\ Distinct(c) /\ WellNamed(c)
  BY <1>3, <1>4, Zenon DEF Inv, Types, Names, IDsAreDistinct
<1>6. /\ Refiled(c, d, id, Row(r, raw)) /\ (home[p] # 0 => d.mixed = c.mixed)
  BY <1>2, <1>3, <1>4, <1>5, Zenon DEF StoreRow, Inv, Types, Stored, Refiled
<1>7. job'[p] = NoJob
  BY <1>1, Zenon DEF Inv, Types
<1>8. JobIsKept(p)'
  BY <1>7, Zenon DEF JobIsKept
<1>9. ASSUME home[p] # 0, ~overtaken[p], NEW j \in Keys, memory[p][j] # Unknown, j \notin broken[p]
      PROVE  d.mixed \/ memory[p][j] = View(d, j)
  <2>1. Known(p) = c
    BY <1>3, <1>4, <1>9, Zenon DEF Known
  <2>2. c.names[id] = Affinity[k] /\ Affinity[k] = k /\ Affinity[j] = j /\ k # NoKey
    BY <1>1, <1>2, <1>3, <1>4, <1>9, NamesAssumption, Zenon DEF Inv, Jobs, TextsAreKept
  <2>3. CASE j = k
    <3>1. memory[p][k] = r /\ Encoded(c.names, raw, r.dependencies)
      BY <1>1, <1>2, <1>9, <2>1, Zenon DEF OfMemory, JobIsKept
    <3>2. Find(c, k) = id
      <4>1. c.names[id] = Affinity[k] /\ Affinity[k] # NoKey
        BY <2>2, Zenon
      <4> QED
        BY <1>3, <1>5, <4>1, FindIs, Zenon
    <3>3. d.names = c.names /\ d.rows[id] = Row(r, raw)
      BY <1>3, <1>5, <1>6, Zenon DEF Refiled, Stored
    <3>4. Find(d, k) = id
      BY <3>2, <3>3, Zenon DEF Find
    <3>5. IsFiled(d, k, id, r, raw)
      <4>1. id # 0
        BY <1>5, <2>2, Zenon DEF WellNamed
      <4> QED
        BY <1>1, <1>2, <1>3, <3>1, <3>3, <3>4, <4>1, Zenon DEF IsFiled
    <3>6. View(d, k) = r
      BY <1>3, <3>5, FiledView, Zenon
    <3> QED
      BY <2>3, <3>1, <3>6, Zenon
  <2>4. CASE j # k
    <3>1. Mirrored(p, j)
      BY <1>2, <1>9, <2>4, Zenon DEF OfMemory, Mirrors
    <3>2. c.names[id] # Affinity[j]
      BY <2>2, <2>4, Zenon
    <3>3. View(d, j) = View(c, j)
      BY <1>3, <1>5, <1>6, <3>2, OtherView, Zenon
    <3> QED
      BY <1>6, <1>9, <2>1, <3>1, <3>3, Zenon DEF Mirrored
  <2> QED
    BY <2>3, <2>4, Zenon
<1>10. home[p] # 0 => Known(p)' = d
  BY <1>1, <1>3, <1>4, Zenon DEF Known
<1>11. Mirrors(p)'
  <2> SUFFICES ASSUME home[p] # 0, ~overtaken[p], NEW j \in Keys,
                      memory[p][j] # Unknown, j \notin broken[p]
               PROVE  Known(p)'.mixed \/ memory[p][j] = View(Known(p)', j)
    BY <1>1, Zenon DEF Mirrors, Mirrored, View, Find, Decode, Row, Unknown, NoRow, NoResult
  <2> QED
    BY <1>9, <1>10, Zenon
<1> QED
  BY <1>1, <1>3, <1>8, <1>11, Zenon DEF OfMemory

\* No step gives a second id to a key.
LEMMA StepDistinct ==
  ASSUME TextsAreKept, Inv, IDsAreDistinct, NEW p \in Procs, Step(p)
  PROVE  IDsAreDistinct'
<1>1. /\ DOMAIN files = Files /\ DOMAIN tx = Files
      /\ \A f \in Files : files[f] \in Stored /\ tx[f] \in Stored
      /\ \A f \in Files : Distinct(files[f]) /\ Distinct(tx[f])
  BY Zenon DEF Inv, Types, IDsAreDistinct
<1> SUFFICES ASSUME NEW f \in Files
             PROVE  Distinct(files'[f]) /\ Distinct(tx'[f])
  BY Zenon DEF IDsAreDistinct, Distinct
<1>2. CASE UNCHANGED <<files, lock, tx>> \/ BuildStarted(p)
  BY <1>1, <1>2, Zenon DEF BuildStarted
<1>3. CASE Die(p)
  BY <1>1, <1>3, Zenon DEF Die
<1>4. CASE Recreate(p)
  <2>1. Distinct(Empty(TRUE))
    BY Zenon DEF Distinct, Empty, NoNames
  <2>2. files'[f] \in {files[f], Empty(TRUE)} /\ tx'[f] \in {tx[f], Empty(TRUE)}
    BY <1>1, <1>4, Zenon DEF Recreate
  <2> QED
    BY <1>1, <2>1, <2>2, Zenon
<1>5. CASE GetKeyID(p) \/ FindFails(p)
  <2>0. PICK id \in IDs : Gets(p, id)
    BY <1>5, GetKeyIDGets, Zenon
  <2>1. /\ \/ tx' = tx
           \/ /\ tx' = [tx EXCEPT ![conn[p]] = AddName(tx[conn[p]], Wanted(p), id)]
              /\ NextID(tx[conn[p]], Wanted(p), id)
        /\ Wanted(p) \in Keys
    BY <2>0, Zenon DEF Gets
  <2>2. files' = files /\ job[p] # NoJob
    BY <2>0, Zenon DEF Gets, Takes, WantsID
  <2>3. conn[p] \in Files
    BY <2>2, UnderWay, Zenon
  <2>4. Distinct(tx'[conn[p]])
    BY <2>1, <2>3, GetKeyIDKeeps, Zenon
  <2>5. f # conn[p] => tx'[f] = tx[f]
    BY <1>1, <2>1, Zenon
  <2> QED
    BY <1>1, <2>2, <2>4, <2>5, Zenon
<1>6. CASE StoreRow(p)
  <2>1. files' = files /\ tx'[f].names = tx[f].names
    BY <1>1, <1>6, Zenon DEF StoreRow, Stored
  <2> QED
    BY <1>1, <2>1, Zenon DEF Distinct
<1>7. CASE BuildComplete(p) \/ IterationNotStored(p) \/ CommitFails(p)
  <2>1. PICK content :
          /\ files' = [files EXCEPT ![conn[p]] = content]
          /\ tx' = [tx EXCEPT ![conn[p]] = content]
          /\ Builds(p)
          /\ \/ content = [tx[conn[p]] EXCEPT !.iteration = epoch[p]]
             \/ content = tx[conn[p]] \/ content = files[conn[p]]
    BY <1>7, Zenon DEF BuildComplete, IterationNotStored, CommitFails, Ends, Builds, Sees
  <2>2. conn[p] \in Files
    BY <2>1, ConnFile, Zenon DEF Inv, Locks
  <2>3. PICK old : Distinct(old) /\ content.names = old.names
    <3>1. content.names = tx[conn[p]].names \/ content.names = files[conn[p]].names
      BY <1>1, <2>1, <2>2, Zenon DEF Stored
    <3>2. Distinct(tx[conn[p]]) /\ Distinct(files[conn[p]])
      BY <1>1, <2>2, Zenon
    <3> QED
      BY <3>1, <3>2, Zenon
  <2>4. Distinct(content)
    BY ONLY <2>3, Zenon DEF Distinct
  <2> QED
    BY <1>1, <2>1, <2>4, Zenon
<1> QED
  BY <1>2, <1>3, <1>4, <1>5, <1>6, <1>7, StepDisk, Zenon

\* The memory of every process has a result for every key, before a step and after it.
LEMMA StepDomains ==
  ASSUME Inv, Domains, NEW p \in Procs, Step(p)
  PROVE  Domains'
<1>1. /\ DOMAIN memory = Procs /\ \A q \in Procs : DOMAIN memory[q] = Keys
      /\ DOMAIN overtaken = Procs /\ DOMAIN broken = Procs
  BY Zenon DEF Domains
<1>2. /\ \/ memory' = memory \/ memory' = [memory EXCEPT ![p] = [k \in Keys |-> Unknown]]
         \/ \E k \in Keys : \E v : memory' = [memory EXCEPT ![p][k] = v]
      /\ overtaken' = overtaken \/ overtaken' = [overtaken EXCEPT ![p] = FALSE] \/ Overtake(p)
      /\ broken' = broken \/ \E b : broken' = [broken EXCEPT ![p] = b]
  <2>1. CASE Die(p)
    BY <2>1, Zenon DEF Die
  <2>2. CASE \/ NewProcess(p) \/ Build(p) \/ BuildNotStarted(p) \/ AddRule(p) \/ RuleOpened(p)
             \/ OpenExisting(p) \/ OpenMismatch(p) \/ Recreate(p) \/ BuildStarted(p)
             \/ BuildRefused(p) \/ StoreRow(p)
    BY <2>2, Zenon DEF NewProcess, Build, BuildNotStarted, AddRule, RuleOpened, OpenExisting,
       OpenMismatch, Recreate, BuildStarted, BuildRefused, StoreRow, history
  <2>3. CASE BuildComplete(p) \/ IterationNotStored(p) \/ CommitFails(p)
    BY <2>3, Zenon DEF BuildComplete, IterationNotStored, CommitFails, Ends
  <2>4. CASE (OpenBusy(p) \/ GetCurrentEpoch(p) \/ StoreFails(p)) /\ ~Die(p)
    BY <2>4, Zenon DEF OpenBusy, GetCurrentEpoch, StoreFails
  <2>5. ASSUME NEW k \in Keys,
               LookupFinds(p, k) \/ LookupStops(p, k) \/ LookupFindsNone(p, k) \/ LookupFails(p, k)
        PROVE  /\ \E v : memory' = [memory EXCEPT ![p][k] = v]
               /\ overtaken' = overtaken
               /\ broken' = broken \/ \E b : broken' = [broken EXCEPT ![p] = b]
    BY <2>5, Zenon DEF LookupFinds, LookupStops, LookupFindsNone, LookupFails, Reads, Breaks, history
  <2>6. ASSUME NEW k \in Keys, NEW deps \in Deps[k], SetRuleResult(p, k, deps)
        PROVE  /\ \E v : memory' = [memory EXCEPT ![p][k] = v]
               /\ UNCHANGED <<overtaken, broken>>
    BY <2>6, Zenon DEF SetRuleResult, history
  <2>7. CASE GetKeyID(p) \/ FindFails(p)
    BY <2>7, GetKeyIDGets, Zenon DEF Gets, Takes
  <2> QED
    BY <2>1, <2>2, <2>3, <2>4, <2>5, <2>6, <2>7, Zenon
       DEF Step, Exit, Crash, RecreateMissing, LookupFault, LookupResets, StoreFault, FindResets, NotPrepared
<1>3. DOMAIN memory' = Procs /\ \A q \in Procs : DOMAIN memory'[q] = Keys
  BY <1>1, <1>2, Zenon
<1>4. DOMAIN overtaken' = Procs /\ DOMAIN broken' = Procs
  BY <1>1, <1>2, Zenon DEF Overtake
<1> QED
  BY <1>3, <1>4, Zenon DEF Domains

\* Every step keeps the memory of its process, and by StepSpares those of the others.
LEMMA StepMemory ==
  ASSUME TextsAreKept, Inv, MemoryInv, NEW p \in Procs, Step(p)
  PROVE  MemoryInv'
<1>1. Domains /\ IDsAreDistinct /\ \A q \in Procs : OfMemory(q)
  BY Zenon DEF MemoryInv
<1>2. Domains' /\ IDsAreDistinct'
  BY <1>1, StepDomains, StepDistinct, Zenon
<1>3. ASSUME NEW q \in Procs, q # p
      PROVE  OfMemory(q)'
  BY <1>1, <1>3, StepSpares, SparedMemory, Zenon
<1>4. OfMemory(p)'
  <2>1. CASE Die(p)
    BY <1>1, <2>1, DieMemory, Zenon
  <2>2. CASE \/ NewProcess(p) \/ Build(p) \/ BuildNotStarted(p) \/ AddRule(p) \/ RuleOpened(p)
             \/ OpenExisting(p) \/ OpenMismatch(p) \/ BuildRefused(p)
             \/ (OpenBusy(p) /\ stage[p] = "starting" /\ ~Die(p)) \/ StoreFails(p)
    BY <1>1, <2>2, OwnSteps, SparedMemory, Zenon
  <2>3. CASE \/ Recreate(p) \/ BuildStarted(p)
             \/ BuildComplete(p) \/ IterationNotStored(p) \/ CommitFails(p)
    BY <1>1, <2>3, RecreateSpares, BuildStartedSpares, EndsSpares, SparedMemory, Zenon
  <2>4. CASE OpenBusy(p) /\ stage[p] = "adding" /\ ~Die(p)
    BY <1>1, <2>4, OpenBusyMemory, Zenon
  <2>5. CASE GetCurrentEpoch(p) /\ ~Die(p)
    BY <1>1, <2>5, AttachMemory, Zenon
  <2>6. ASSUME NEW k \in Keys, \/ LookupFinds(p, k) \/ LookupFindsNone(p, k)
                               \/ LookupStops(p, k) \/ LookupFails(p, k)
        PROVE  OfMemory(p)'
    BY <1>1, <2>6, LookupMemory, Zenon
  <2>7. ASSUME NEW k \in Keys, NEW deps \in Deps[k], SetRuleResult(p, k, deps)
        PROVE  OfMemory(p)'
    BY <1>1, <2>7, SetRuleResultMemory, Zenon
  <2>8. CASE GetKeyID(p) \/ FindFails(p) \/ StoreRow(p)
    BY <1>1, <2>8, GetKeyIDGets, GetKeyIDMemory, StoreRowMemory, Zenon
  <2>9. OpenBusy(p) => Die(p) \/ stage[p] = "starting" \/ stage[p] = "adding"
    BY Zenon DEF OpenBusy
  <2> QED
    BY <2>1, <2>2, <2>3, <2>4, <2>5, <2>6, <2>7, <2>8, <2>9, Zenon
       DEF Step, Exit, Crash, RecreateMissing, LookupFault, LookupResets, StoreFault, FindResets, NotPrepared
<1> QED
  BY <1>2, <1>3, <1>4, Zenon DEF MemoryInv

\* So does the database as a whole.
LEMMA NextMemory ==
  ASSUME TextsAreKept, Inv, MemoryInv, [Next]_vars
  PROVE  MemoryInv'
<1>1. CASE DeleteFile \/ UNCHANGED vars
  <2>1. UNCHANGED <<files, lock, tx, memory, broken, overtaken, stage, job, home>>
    BY <1>1, Zenon DEF DeleteFile, vars, disk, history
  <2>2. Domains' /\ IDsAreDistinct'
    BY <2>1, Zenon DEF MemoryInv, Domains, IDsAreDistinct, Distinct
  <2>3. ASSUME NEW q \in Procs
        PROVE  OfMemory(q)'
    <3>1. SameTables(Known(q)', Known(q))
      BY <2>1, SameFiles, Zenon
    <3>2. Spared(q)
      BY <2>1, <3>1, Zenon DEF Spared
    <3> QED
      BY <3>2, SparedMemory, Zenon DEF MemoryInv
  <2> QED
    BY <2>2, <2>3, Zenon DEF MemoryInv
<1>2. ASSUME NEW p \in Procs, Step(p)
      PROVE  MemoryInv'
  BY <1>2, StepMemory, Zenon
<1> QED
  BY <1>1, <1>2, Zenon DEF Next

\* The memory is empty at first.
LEMMA InitMemory == Init => MemoryInv
<1> SUFFICES ASSUME Init PROVE MemoryInv
  BY Zenon
<1>1. Domains
  BY Zenon DEF Init, Domains
<1>2. IDsAreDistinct
  <2>1. \A f \in Files : tx[f] = files[f] /\ \E c \in BOOLEAN : files[f] = Empty(c)
    BY Zenon DEF Init
  <2>2. \A c \in BOOLEAN : Distinct(Empty(c))
    BY Zenon DEF Distinct, Empty, NoNames
  <2> QED
    BY <2>1, <2>2, Zenon DEF IDsAreDistinct
<1>3. ASSUME NEW p \in Procs
      PROVE  OfMemory(p)
  <2>1. home[p] = 0 /\ job[p] = NoJob /\ memory[p] = [k \in Keys |-> Unknown]
    BY Zenon DEF Init
  <2> QED
    BY <2>1, Zenon DEF OfMemory, Fresh, JobIsKept, Mirrors
<1> QED
  BY <1>1, <1>2, <1>3, Zenon DEF MemoryInv

\* Where no key looks like a number, what a building process has in memory is what the
\* database says, however many processes build, crash and replace the file: encoding,
\* cached ids, transactions and lookups before and in builds lose nothing.  Processes
\* and files with spoilt ids are left out, as are a process once another one has built
\* and a rule whose lookup or storing has failed.
THEOREM MemoryMirrorsStore ==
  ASSUME TextsAreKept
  PROVE  Spec => []MemoryIsStore
<1>1. Init => MemoryInv
  BY InitMemory, Zenon
<1>2. Inv /\ MemoryInv /\ [Next]_vars => MemoryInv'
  BY NextMemory, Zenon
<1>3. Inv /\ MemoryInv => MemoryIsStore
  <2> SUFFICES ASSUME Inv, MemoryInv, NEW p \in Procs, stage[p] = "building", conn[p] > 0,
                      home[p] # 0, ~overtaken[p], NEW k \in Keys, memory[p][k] # Unknown,
                      k \notin broken[p], k # job[p].key
               PROVE  tx[conn[p]].mixed \/ memory[p][k] = View(tx[conn[p]], k)
    BY Zenon DEF MemoryIsStore, AtHome
  <2>1. MayRead(p)
    BY Zenon DEF Inv, Locks, Builds, MayRead
  <2>2. Known(p) = tx[conn[p]]
    BY <2>1, Sight, Zenon
  <2>3. Mirrored(p, k)
    BY Zenon DEF MemoryInv, OfMemory, Mirrors
  <2> QED
    BY <2>2, <2>3, Zenon DEF Mirrored
<1> QED
  BY <1>1, <1>2, <1>3, InitInv, NextInv, PTL DEF Spec
==============================================================================
