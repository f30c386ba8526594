------------------------------- MODULE CASLog -------------------------------
(***************************************************************************)
(* The log llbuild3 keeps of a process's output: a stream that collects    *)
(* bytes in a buffer (BufferedStreamCASLogWriter) over a writer that puts  *)
(* every buffer it is given into the content addressed store as a chunk,   *)
(* and publishes directories of chunks (CASLogWriter).                     *)
(*                                                                         *)
(* The store answers asynchronously, in any order, and may fail.  A        *)
(* directory that has reached its size limit is sealed by a "flush"; the   *)
(* next one links to it.  The callbacks of the writer run under its mutex, *)
(* so each of them is one action.                                          *)
(***************************************************************************)
EXTENDS Naturals, Sequences, FiniteSets

CONSTANTS
  EntryLimits,  \* the sizes of directory the writer may be asked for
  BufferSize,   \* the size of the stream's buffer
  WordSize,     \* the number of values of a size_t
  WriteSizes,   \* how many bytes one write() may bring
  Channels,     \* the channels of the stream
  MaxBytes,     \* bound: the bytes written in all
  MaxAppends,   \* bound: the chunks appended in all
  MaxInFlight,  \* bound: the requests the store has not answered
  MaxFaults     \* bound: the requests to the store that fail

ASSUME SizesAssumption ==
  /\ EntryLimits \subseteq Nat /\ WriteSizes \subseteq Nat \ {0}
  /\ BufferSize \in Nat \ {0} /\ WordSize \in Nat /\ WordSize > BufferSize
  /\ MaxBytes \in Nat /\ MaxAppends \in Nat
  /\ MaxInFlight \in Nat /\ MaxFaults \in Nat

VARIABLES
  written,          \* how many bytes the client has written; byte n is the n-th
  currentBuffer, currentChannel,
  payload,          \* the bytes of every append() so far
  answers,          \* how many terminal answers the handler of each append() got
  answerID,         \* the id it was told
  stalled,          \* the appends whose handler was told that the write stalled
  puts,             \* the appends whose chunk the store has not answered
  syncs,            \* the directories the store has not answered
  maxEntries, isOK, writeOpCount, lastWriteOp,
  currentID, prevID, rootID,
  directoryEntries, \* the chunks of the open directory
  linked,           \* whether "root" and "prev" are in front of them
  pendingOps,       \* a set: the queue is in the order of the operations
  flushPending,
  alive,            \* the writer has not been destroyed
  faults

streamVars == <<written, currentBuffer, currentChannel, payload>>
handlerVars == <<answers, answerID, stalled>>
stateVars == <<currentID, prevID, rootID, lastWriteOp>>
bufferVars == <<directoryEntries, linked, flushPending, writeOpCount>>
vars == <<streamVars, handlerVars, stateVars, bufferVars, puts, syncs, maxEntries,
          isOK, pendingOps, alive, faults>>

\* The store is content addressed: the id of a directory is what is in it.  Here it
\* is the directories a reader reaches through the "prev" links, the oldest first.
NoID == << >>
NoAppend == 0   \* the null handler of an internal write operation

Init ==
  /\ written = 0 /\ currentBuffer = << >> /\ currentChannel \in Channels
  /\ payload = << >> /\ answers = << >> /\ answerID = << >> /\ stalled = {}
  /\ puts = {} /\ syncs = {}
  /\ \E max \in EntryLimits : maxEntries = IF max < 3 THEN 3 ELSE max
  /\ isOK = TRUE /\ writeOpCount = 0 /\ lastWriteOp = 0
  /\ currentID = NoID /\ prevID = NoID /\ rootID = NoID
  /\ directoryEntries = << >> /\ linked = FALSE
  /\ pendingOps = {} /\ flushPending = FALSE /\ alive = TRUE /\ faults = 0

-----------------------------------------------------------------------------
(***************************************************************************)
(* The stream                                                              *)
(***************************************************************************)
\* The room left in the buffer, in the arithmetic of size_t.
Room == (WordSize + BufferSize - Len(currentBuffer)) % WordSize

\* Mutant of NewAnswers: append() does not register a handler.
NewAnswers_None(ps) == << >>

NewAnswers(ps) == [i \in DOMAIN ps |-> IF isOK THEN 0 ELSE 1]

\* append() for each of the sequences of bytes ps.  A failed stream answers at
\* once, an intact one puts the chunk into the store.
Append_(ps) ==
  LET n == Len(payload)
  IN  /\ n + Len(ps) <= MaxAppends
      /\ Cardinality(puts) + Cardinality(syncs) + Len(ps) <= MaxInFlight
      /\ payload' = payload \o ps
      /\ answers' = answers \o NewAnswers(ps)
      /\ answerID' = answerID \o [i \in DOMAIN ps |-> NoID]
      /\ puts' = IF isOK THEN puts \cup {n + i : i \in DOMAIN ps} ELSE puts
      /\ UNCHANGED stalled

\* What flush() appends: the buffer, unless it is empty.  The buffer stays as it is.
Flushed == IF currentBuffer = << >> THEN << >> ELSE << currentBuffer >>

\* Mutant of Buffered: the data replaces the buffer.
Buffered_Replaced(data) == data

Buffered(data) == currentBuffer \o data

Write(size, channel) ==
  LET data == [i \in 1 .. size |-> written + i]
      before == IF channel # currentChannel \/ size > Room THEN Flushed ELSE << >>
      buffer == Buffered(data)
  IN  /\ alive /\ written + size <= MaxBytes
      /\ written' = written + size
      /\ IF size >= BufferSize
           THEN /\ Append_(before \o << data >>)
                /\ UNCHANGED <<currentBuffer, currentChannel>>
           ELSE /\ currentChannel' = channel /\ currentBuffer' = buffer
                /\ Append_(before \o (IF Len(buffer) = BufferSize THEN << buffer >>
                                                                   ELSE << >>))
      /\ UNCHANGED <<stateVars, bufferVars, syncs, maxEntries, isOK, pendingOps, alive,
                     faults>>

Flush ==
  /\ alive /\ Flushed # << >> /\ Append_(Flushed)
  /\ UNCHANGED <<written, currentBuffer, currentChannel, stateVars, bufferVars, syncs,
                 maxEntries, isOK, pendingOps, alive, faults>>

\* The last reference to the writer goes.  The callbacks hold weak references: what
\* the store answers from now on reaches nobody.
Destroy ==
  /\ alive /\ alive' = FALSE /\ puts' = {} /\ syncs' = {}
  /\ UNCHANGED <<streamVars, handlerVars, stateVars, bufferVars, maxEntries, isOK,
                 pendingOps, faults>>

-----------------------------------------------------------------------------
(***************************************************************************)
(* The writer                                                              *)
(***************************************************************************)
Fails(ok) == /\ ok \in BOOLEAN /\ (~ok => faults < MaxFaults)
             /\ faults' = IF ok THEN faults ELSE faults + 1

\* The entries of the open directory, with the links to the sealed ones.
EntryCount == Len(directoryEntries) + (IF linked THEN 2 ELSE 0)

\* Mutant of CASTree: the links are forgotten.
CASTree_NoLinks(entries, links, prev) == << entries >>

\* A directory as CASTree makes it.
CASTree(entries, links, prev) == IF links THEN Append(prev, entries) ELSE << entries >>

\* Start to write the directory with these entries as operation op, besides the
\* writes in flight; one that is full is sealed.
StartWrite(inFlight, op, entries, links, prev) ==
  LET isFlush == Len(entries) + (IF links THEN 2 ELSE 0) >= maxEntries
      id == CASTree(entries, links, prev)
  IN  /\ syncs' = inFlight \cup {[op |-> op, isFlush |-> isFlush, id |-> id]}
      /\ flushPending' = (flushPending \/ isFlush)
      /\ directoryEntries' = IF isFlush THEN << >> ELSE entries
      /\ linked' = (links /\ ~isFlush)

\* postChunk, when the chunk was not stored or the log has failed.
PutIgnored(n, ok) ==
  /\ ~ok \/ ~isOK
  /\ answers' = IF ok THEN answers ELSE [answers EXCEPT ![n] = @ + 1]
  /\ UNCHANGED <<answerID, stalled, stateVars, bufferVars, syncs, pendingOps>>

\* Mutant of PostChunk: a write is started although a flush is pending.
PostChunk_NotHeldBack(n, ok) ==
  LET op == writeOpCount + 1
      entries == Append(directoryEntries, [name |-> EntryCount, chunk |-> n])
  IN  /\ ok /\ isOK
      /\ writeOpCount' = op
      /\ pendingOps' = pendingOps \cup {[op |-> op, handler |-> n]}
      /\ StartWrite(syncs, op, entries, linked, prevID)
      /\ UNCHANGED <<stateVars, handlerVars>>

\* postChunk: the chunk joins the open directory, which is written unless a flush
\* is pending.
PostChunk(n, ok) ==
  LET op == writeOpCount + 1
      entries == Append(directoryEntries, [name |-> EntryCount, chunk |-> n])
  IN  /\ ok /\ isOK
      /\ writeOpCount' = op
      /\ pendingOps' = pendingOps \cup {[op |-> op, handler |-> n]}
      /\ IF flushPending
           THEN /\ directoryEntries' = entries
                /\ UNCHANGED <<syncs, flushPending, linked>>
           ELSE StartWrite(syncs, op, entries, linked, prevID)
      /\ UNCHANGED <<stateVars, handlerVars>>

PutAnswered(n, ok) ==
  /\ n \in puts /\ puts' = puts \ {n} /\ Fails(ok)
  /\ PutIgnored(n, ok) \/ PostChunk(n, ok)
  /\ UNCHANGED <<streamVars, maxEntries, isOK, alive>>

\* The appends whose handlers wait for the operations ops.
Handlers(ops) == {o.handler : o \in ops} \ {NoAppend}

\* Give the handlers that wait for ops a terminal answer.
Answer(ops) == [n \in DOMAIN answers |->
  IF n \in Handlers(ops) THEN answers[n] + 1 ELSE answers[n]]

\* Mutant of Superseded: a late answer is taken for a new one.
Superseded_Never(s) == FALSE

\* A later write beat this one.
Superseded(s) == s.op < lastWriteOp

\* postSync, for a directory that is not sealed.
WriteSuperseded(s) ==
  /\ Superseded(s)
  /\ UNCHANGED <<stateVars, handlerVars, pendingOps>>

\* Mutant of WriteStalled: the client is not told.
WriteStalled_Untold(s, ok) ==
  /\ ~Superseded(s) /\ ~ok
  /\ UNCHANGED <<stateVars, handlerVars, pendingOps>>

WriteStalled(s, ok) ==
  /\ ~Superseded(s) /\ ~ok
  /\ stalled' = stalled \cup Handlers({o \in pendingOps : o.op = s.op})
  /\ UNCHANGED <<stateVars, answers, answerID, pendingOps>>

\* Mutant of StillPending: the operation just published stays.
StillPending_OneMore(op) == {o \in pendingOps : o.op >= op}

StillPending(op) == {o \in pendingOps : o.op > op}

WritePublished(s, ok) ==
  LET done == {o \in pendingOps : o.op <= s.op}
  IN  /\ ~Superseded(s) /\ ok
      /\ currentID' = s.id /\ lastWriteOp' = s.op
      /\ answers' = Answer(done)
      /\ answerID' = [n \in DOMAIN answerID |->
                        IF n \in Handlers(done) THEN s.id ELSE answerID[n]]
      /\ pendingOps' = StillPending(s.op)
      /\ UNCHANGED <<prevID, rootID, stalled>>

PostWrite(s, ok) ==
  /\ ~s.isFlush /\ syncs' = syncs \ {s}
  /\ WriteSuperseded(s) \/ WriteStalled(s, ok) \/ WritePublished(s, ok)
  /\ UNCHANGED <<bufferVars, isOK>>

\* postSync, for a sealed directory.
FlushFailed(s, ok) ==
  /\ s.isFlush /\ ~ok /\ syncs' = syncs \ {s}
  /\ isOK' = FALSE
  /\ directoryEntries' = << >> /\ linked' = FALSE
  /\ answers' = Answer(pendingOps)
  /\ pendingOps' = {}
  /\ UNCHANGED <<stateVars, flushPending, writeOpCount, answerID, stalled>>

\* Mutant of Root: every sealed directory becomes the root.
Root_Latest(id) == id

\* The first directory that is sealed is the root of the log.
Root(id) == IF rootID = NoID THEN id ELSE rootID

\* The next directory starts with links to the one just sealed and to the first.
\* Chunks that came in the meantime are written at once, by an operation of the
\* writer's own.
FlushDone(s, ok) ==
  LET op == writeOpCount + 1
      others == syncs \ {s}
  IN  /\ s.isFlush /\ ok
      /\ lastWriteOp' = s.op /\ currentID' = NoID
      /\ rootID' = Root(s.id)
      /\ prevID' = s.id
      /\ IF directoryEntries = << >>
           THEN /\ linked' = TRUE /\ syncs' = others
                /\ UNCHANGED <<directoryEntries, flushPending, writeOpCount, pendingOps>>
           ELSE /\ writeOpCount' = op
                /\ pendingOps' = pendingOps \cup {[op |-> op, handler |-> NoAppend]}
                /\ StartWrite(others, op, directoryEntries, TRUE, s.id)
      /\ UNCHANGED <<handlerVars, isOK>>

SyncAnswered(s, ok) ==
  /\ s \in syncs /\ Fails(ok)
  /\ PostWrite(s, ok) \/ FlushFailed(s, ok) \/ FlushDone(s, ok)
  /\ UNCHANGED <<streamVars, puts, maxEntries, alive>>

StoreAnswers == \E ok \in BOOLEAN :
  (\E n \in puts : PutAnswered(n, ok)) \/ (\E s \in syncs : SyncAnswered(s, ok))

Next ==
  \/ \E size \in WriteSizes, channel \in Channels : Write(size, channel)
  \/ Flush
  \/ Destroy
  \/ StoreAnswers

Spec == Init /\ [][Next]_vars
-----------------------------------------------------------------------------
(***************************************************************************)
(* Properties                                                              *)
(***************************************************************************)
Appends == DOMAIN payload
Entries == Seq([name : Nat, chunk : Appends])

\* The ids the writer knows, has given away or is waiting for.
IDs == {currentID, prevID, rootID} \cup {answerID[n] : n \in Appends}
         \cup {s.id : s \in syncs}

\* The type invariant.
TypeOK ==
  /\ written \in 0 .. MaxBytes /\ currentBuffer \in Seq(1 .. MaxBytes)
  /\ currentChannel \in Channels /\ payload \in Seq(Seq(1 .. MaxBytes))
  /\ answers \in [Appends -> Nat] /\ DOMAIN answerID = Appends
  /\ puts \subseteq Appends /\ stalled \subseteq Appends
  /\ \A s \in syncs : s.op \in 1 .. writeOpCount /\ s.isFlush \in BOOLEAN
  /\ IDs \subseteq Seq(Entries)
  /\ maxEntries \in Nat /\ isOK \in BOOLEAN /\ writeOpCount \in Nat /\ lastWriteOp \in Nat
  /\ directoryEntries \in Entries /\ linked \in BOOLEAN
  /\ pendingOps \subseteq [op : Nat, handler : Appends \cup {NoAppend}]
  /\ flushPending \in BOOLEAN /\ alive \in BOOLEAN /\ faults \in 0 .. MaxFaults

\* The assertion in postSync: a directory that is being sealed is newer than every
\* write the log has published, however the store orders its answers.
FlushPrevails == \A s \in syncs : s.isFlush => s.op > lastWriteOp

IsPrefixOf(s, t) == Len(s) <= Len(t) /\ \A i \in DOMAIN s : s[i] = t[i]

\* What a reader finds behind b continues what it finds behind a: the same directories,
\* the last of a perhaps with more entries, and perhaps further ones.
Continues(a, b) ==
  /\ Len(a) <= Len(b)
  /\ \A d \in DOMAIN a : IF d < Len(a) THEN a[d] = b[d] ELSE IsPrefixOf(a[d], b[d])

\* A reader finds the chunk of append n behind the id, once.
FoundOnce(n, id) ==
  \E d \in DOMAIN id : \E i \in DOMAIN id[d] :
    \A e \in DOMAIN id : \A j \in DOMAIN id[e] : id[e][j].chunk = n <=> e = d /\ j = i

\* An append that is told an id finds its chunk behind that id, once, and any two ids
\* that handlers have been told are states of one log: one continues the other.
PublishedIsOneLog ==
  LET published == {n \in Appends : answerID[n] # NoID}
  IN  /\ \A n \in published : FoundOnce(n, answerID[n])
      /\ \A m, n \in published : \/ Continues(answerID[m], answerID[n])
                                 \/ Continues(answerID[n], answerID[m])

\* The handler of an append gets at most one terminal answer, from append(), from the
\* answer to its chunk or from the answer to some directory.
AnsweredOnce == \A n \in Appends : answers[n] <= 1

\* No two entries of a directory have the same name, although names are positions in
\* a list that is emptied, refilled and prefixed by two links; and of the links,
\* "root" leads to the directory where the chain of "prev" ends.
DirectoriesAreSound ==
  /\ \A id \in IDs : \A d \in DOMAIN id : \A i, j \in DOMAIN id[d] :
       id[d][i].name = id[d][j].name => i = j
  /\ prevID # NoID => rootID = << prevID[1] >>

Newest == CHOOSE o \in pendingOps : \A other \in pendingOps : other.op <= o.op

\* A live writer owes every append without a terminal answer one of: the answer of the
\* store to its chunk, the answer to a directory that holds it, or a retry, in
\* which case the newest append knows of the stall.  The exceptions are an append
\* whose chunk the store accepts after the log has failed, and those held back
\* since the first flush (see FlushIsPending).
AnswerOnItsWay ==
  alive => \A n \in Appends \ puts : answers[n] = 0 =>
    \/ ~isOK
    \/ \E o \in pendingOps :
         /\ o.handler = n
         /\ \/ flushPending
            \/ \E s \in syncs : s.op >= o.op
            \/ Newest.handler \in stalled

Latest == IF currentID # NoID THEN currentID ELSE prevID

\* getLatestID never goes back: what it returns continues what it returned before.
LatestOnlyGrows == [][Continues(Latest, Latest')]_vars

\* Every byte written to the stream is in the buffer or has been appended.
NoByteLost ==
  \A b \in 1 .. written :
    \E s \in {currentBuffer} \cup {payload[n] : n \in Appends} : \E i \in DOMAIN s : s[i] = b

\* "we are waiting on a flush operation": while appends are held back for a flush,
\* the store owes the writer its answer.
FlushIsPending == flushPending /\ alive /\ isOK => \E s \in syncs : s.isFlush

\* "stream failed, error will have already been sent to the handler": once the log has
\* failed, every append the store has answered has its terminal answer.
FailureIsTold == ~isOK /\ alive => \A n \in Appends \ puts : answers[n] = 1
=============================================================================
