---------------------------- MODULE CASLogProofs ----------------------------
(***************************************************************************)
(* The log writer, whatever the store does and whatever the bounds: a      *)
(* directory that is being sealed is newer than all that has been          *)
(* published, no append is answered twice, none is forgotten, and what the *)
(* clients are told are states of one log, which only grows.               *)
(***************************************************************************)
EXTENDS CASLog, SequenceTheorems, TLAPS

\* The types the argument needs.
LogTypes ==
  /\ payload \in Seq(Seq(Nat)) /\ currentBuffer \in Seq(Nat) /\ written \in Nat
  /\ answers \in [1 .. Len(payload) -> 0 .. 1]
  /\ puts \subseteq 1 .. Len(payload)
  /\ writeOpCount \in Nat /\ lastWriteOp \in 0 .. writeOpCount
  /\ \A s \in syncs : s.op \in 1 .. writeOpCount
  /\ \A o \in pendingOps : o.op \in 1 .. writeOpCount /\ o.handler \in 0 .. Len(payload)

\* While a directory is being sealed no other is newer, because appends are held
\* back from the moment its write is started.
FlushIsNewest ==
  \A s \in syncs : s.isFlush =>
    /\ flushPending /\ s.op > lastWriteOp
    /\ \A other \in syncs \ {s} : other.op < s.op

\* An append the store or the writer still owes an answer has had none, and the
\* writer owes it at most one.
OwesOneAnswer ==
  /\ \A n \in puts : answers[n] = 0
  /\ \A o \in pendingOps : o.handler # NoAppend =>
       /\ answers[o.handler] = 0
       /\ o.handler \notin puts
       /\ \A other \in pendingOps : other.handler = o.handler => other = o

LogInv == LogTypes /\ FlushIsNewest /\ OwesOneAnswer

-----------------------------------------------------------------------------
\* A function of the first n positions is a sequence.
LEMMA SequenceOf ==
  ASSUME NEW S, NEW n \in Nat, NEW f \in [1 .. n -> S]
  PROVE  f \in Seq(S) /\ Len(f) = n
  BY SeqDef

\* The sizes the writer is created with are numbers, so the first state is good.
LEMMA InitIsGood == Init => LogInv
<1> SUFFICES ASSUME Init PROVE LogInv
  BY Zenon
<1>1. payload = << >> /\ answers = << >> /\ currentBuffer = << >> /\ Len(payload) = 0
  BY Zenon DEF Init
<1>2. payload \in Seq(Seq(Nat)) /\ currentBuffer \in Seq(Nat)
  BY <1>1
<1>3. answers \in [1 .. Len(payload) -> 0 .. 1]
  BY <1>1
<1>4. LogTypes
  BY <1>1, <1>2, <1>3 DEF Init, LogTypes
<1>5. FlushIsNewest /\ OwesOneAnswer
  BY Zenon DEF Init, FlushIsNewest, OwesOneAnswer
<1> QED
  BY <1>4, <1>5, Zenon DEF LogInv

\* What the concatenation of two sequences holds.
LEMMA Concatenated ==
  ASSUME NEW S, NEW f \in Seq(S), NEW g \in Seq(S)
  PROVE  /\ f \o g \in Seq(S) /\ Len(f \o g) = Len(f) + Len(g)
         /\ \A k \in 1 .. Len(f) : (f \o g)[k] = f[k]
         /\ \A i \in 1 .. Len(g) : (f \o g)[Len(f) + i] = g[i]
<1> DEFINE n == Len(f)
           m == Len(g)
<1>1. n \in Nat /\ m \in Nat
  BY LenProperties, Zenon
<1>2. /\ f \o g \in Seq(S) /\ Len(f \o g) = n + m
      /\ \A k \in 1 .. n + m : (f \o g)[k] = IF k <= n THEN f[k] ELSE g[k - n]
  BY ConcatProperties, Zenon
<1> HIDE DEF n, m
<1>3. \A k \in 1 .. n : k \in 1 .. n + m /\ k <= n
  BY ONLY <1>1, SMT
<1>4. \A i \in 1 .. m : n + i \in 1 .. n + m /\ ~(n + i <= n) /\ (n + i) - n = i
  BY ONLY <1>1, SMT
<1>5. \A k \in 1 .. n : (f \o g)[k] = f[k]
  BY ONLY <1>2, <1>3, Zenon
<1>6. ASSUME NEW i \in 1 .. m PROVE (f \o g)[n + i] = g[i]
  <2>1. (f \o g)[n + i] = IF n + i <= n THEN f[n + i] ELSE g[(n + i) - n]
    BY ONLY <1>2, <1>4, i \in 1 .. m, Zenon
  <2> QED
    BY ONLY <2>1, <1>4, i \in 1 .. m, Zenon
<1> QED
  BY <1>2, <1>5, <1>6, Zenon DEF n, m

\* append(): the earlier appends keep what they have; an intact log owes the new ones the
\* store's answers.
LEMMA Appended ==
  ASSUME LogTypes, NEW ps \in Seq(Seq(Nat)), Append_(ps)
  PROVE  /\ payload' \in Seq(Seq(Nat)) /\ Len(payload) \in Nat /\ Len(payload') \in Nat
         /\ Len(payload) <= Len(payload')
         /\ answers' \in [1 .. Len(payload') -> 0 .. 1]
         /\ \A k \in 1 .. Len(payload) : answers'[k] = answers[k]
         /\ puts \subseteq puts' /\ puts' \subseteq 1 .. Len(payload')
         /\ \A k \in puts' : k \in puts \/ (isOK /\ k \notin 1 .. Len(payload) /\ answers'[k] = 0)
         /\ isOK => \A k \in 1 .. Len(payload') : k \in 1 .. Len(payload) \/ k \in puts'
<1> DEFINE n == Len(payload)
           m == Len(ps)
<1>1. /\ payload' = payload \o ps /\ answers' = answers \o NewAnswers(ps)
      /\ puts' = IF isOK THEN puts \cup {n + i : i \in DOMAIN ps} ELSE puts
  BY Zenon DEF Append_
<1>2. /\ payload' \in Seq(Seq(Nat)) /\ Len(payload') = n + m
      /\ n \in Nat /\ m \in Nat /\ DOMAIN ps = 1 .. m
  BY <1>1, ConcatProperties, LenProperties, Zenon DEF LogTypes
<1>3. /\ NewAnswers(ps) \in [1 .. m -> 0 .. 1]
      /\ isOK => \A i \in 1 .. m : NewAnswers(ps)[i] = 0
  BY <1>2 DEF NewAnswers
<1>4. answers \in [1 .. n -> 0 .. 1] /\ puts \subseteq 1 .. n
  BY Zenon DEF LogTypes
<1> HIDE DEF n, m
<1>5. /\ answers' \in [1 .. n + m -> 0 .. 1]
      /\ \A k \in 1 .. n : answers'[k] = answers[k]
      /\ \A i \in 1 .. m : answers'[n + i] = NewAnswers(ps)[i]
  <2>1. /\ answers \in Seq(0 .. 1) /\ Len(answers) = n
        /\ NewAnswers(ps) \in Seq(0 .. 1) /\ Len(NewAnswers(ps)) = m
    BY ONLY <1>2, <1>3, <1>4, SequenceOf, Zenon
  <2>2. /\ answers' \in Seq(0 .. 1) /\ Len(answers') = n + m
        /\ \A k \in 1 .. n : answers'[k] = answers[k]
        /\ \A i \in 1 .. m : answers'[n + i] = NewAnswers(ps)[i]
    <3> DEFINE b == NewAnswers(ps)
    <3> HIDE DEF b
    <3>1. answers \in Seq(0 .. 1) /\ b \in Seq(0 .. 1)
      BY ONLY <2>1, Zenon DEF b
    <3>2. /\ answers \o b \in Seq(0 .. 1) /\ Len(answers \o b) = Len(answers) + Len(b)
          /\ \A k \in 1 .. Len(answers) : (answers \o b)[k] = answers[k]
          /\ \A i \in 1 .. Len(b) : (answers \o b)[Len(answers) + i] = b[i]
      BY ONLY <3>1, Concatenated, SMT
    <3>3. Len(answers) = n /\ Len(b) = m
      BY ONLY <2>1, Zenon DEF b
    <3> QED
      BY ONLY <1>1, <3>2, <3>3, Zenon DEF b
  <2> QED
    BY ONLY <2>2, LenProperties, Zenon
<1>6. /\ \A k \in 1 .. n + m : k \in 1 .. n \/ \E i \in 1 .. m : k = n + i
      /\ \A i \in 1 .. m : n + i \in 1 .. n + m /\ n + i \notin 1 .. n
      /\ \A k \in 1 .. n : k \in 1 .. n + m
      /\ n <= n + m /\ n + m \in Nat
  <2>1. \A k \in 1 .. n + m : k \in 1 .. n \/ (k - n \in 1 .. m /\ k = n + (k - n))
    BY ONLY <1>2, SMT
  <2>2. \A i \in 1 .. m : n + i \in 1 .. n + m /\ n + i \notin 1 .. n
    BY ONLY <1>2, SMT
  <2>3. /\ \A k \in 1 .. n : k \in 1 .. n + m
        /\ n <= n + m /\ n + m \in Nat
    BY ONLY <1>2, SMT
  <2> QED
    BY <2>1, <2>2, <2>3, Zenon
<1>7. \A k \in puts' : k \in puts \/ (isOK /\ \E i \in 1 .. m : k = n + i)
  BY <1>1, <1>2, Zenon
<1>8. puts \subseteq puts' /\ (isOK => \A i \in 1 .. m : n + i \in puts')
  BY <1>1, <1>2, Zenon
<1>9. puts' \subseteq 1 .. n + m
  BY ONLY <1>4, <1>6, <1>7, Zenon
<1>10. \A k \in puts' : k \in puts \/ (isOK /\ k \notin 1 .. n /\ answers'[k] = 0)
  BY ONLY <1>3, <1>5, <1>6, <1>7, Zenon
<1>11. isOK => \A k \in 1 .. n + m : k \in 1 .. n \/ k \in puts'
  BY ONLY <1>6, <1>8, Zenon
<1> QED
  BY <1>2, <1>5, <1>6, <1>8, <1>9, <1>10, <1>11, Zenon DEF n

\* append() gives new handlers, which are owed nothing or one answer of the store.
LEMMA AppendIsGood ==
  ASSUME LogInv, NEW ps \in Seq(Seq(Nat)), Append_(ps),
         currentBuffer' \in Seq(Nat), written' \in Nat,
         UNCHANGED <<stateVars, bufferVars, syncs, isOK, pendingOps>>
  PROVE  LogInv'
<1> DEFINE n == Len(payload)
<1>1. /\ payload' \in Seq(Seq(Nat)) /\ n \in Nat /\ Len(payload') \in Nat /\ n <= Len(payload')
      /\ answers' \in [1 .. Len(payload') -> 0 .. 1]
      /\ \A k \in 1 .. n : answers'[k] = answers[k]
      /\ puts' \subseteq 1 .. Len(payload')
      /\ \A k \in puts' : k \in puts \/ (k \notin 1 .. n /\ answers'[k] = 0)
  BY Appended, Zenon DEF LogInv
<1>2. UNCHANGED <<writeOpCount, lastWriteOp, flushPending, syncs, pendingOps>>
  BY Zenon DEF stateVars, bufferVars
<1>3. \A o \in pendingOps : o.handler \in 0 .. n
  BY Zenon DEF LogInv, LogTypes
<1>4. \A h \in 0 .. n : h \in 0 .. Len(payload') /\ (h # NoAppend => h \in 1 .. n)
  BY ONLY <1>1, SMT DEF NoAppend
<1> HIDE DEF n
<1>5. LogTypes'
  BY <1>1, <1>2, <1>3, <1>4, Zenon DEF LogInv, LogTypes
<1>6. FlushIsNewest'
  BY <1>2, Zenon DEF LogInv, FlushIsNewest
<1>7. OwesOneAnswer'
  <2>1. \A k \in puts : k \in 1 .. n /\ answers[k] = 0
    BY Zenon DEF LogInv, LogTypes, OwesOneAnswer, n
  <2>2. \A k \in puts' : answers'[k] = 0
    BY ONLY <1>1, <2>1, Zenon
  <2>3. \A o \in pendingOps : o.handler # NoAppend =>
          answers'[o.handler] = answers[o.handler] /\ (o.handler \in puts' => o.handler \in puts)
    BY ONLY <1>1, <1>3, <1>4, Zenon
  <2> QED
    BY <1>2, <2>2, <2>3, Zenon DEF LogInv, OwesOneAnswer
<1> QED
  BY <1>5, <1>6, <1>7, Zenon DEF LogInv

\* What write() appends, and what the buffer holds afterwards.
LEMMA WriteAppends ==
  ASSUME LogInv, NEW size \in WriteSizes, NEW channel \in Channels, Write(size, channel)
  PROVE  /\ \E ps \in Seq(Seq(Nat)) : Append_(ps)
         /\ currentBuffer' \in Seq(Nat) /\ written' \in Nat
<1> DEFINE data == [i \in 1 .. size |-> written + i]
           before == IF channel # currentChannel \/ size > Room THEN Flushed ELSE << >>
           buffer == Buffered(data)
           rest == IF Len(buffer) = BufferSize THEN << buffer >> ELSE << >>
<1>1. /\ \/ Append_(before \o << data >>) /\ currentBuffer' = currentBuffer
         \/ Append_(before \o rest) /\ currentBuffer' = buffer
      /\ written' = written + size
  BY Zenon DEF Write
<1>2. size \in Nat /\ written \in Nat /\ currentBuffer \in Seq(Nat)
  BY SizesAssumption, Zenon DEF LogInv, LogTypes
<1>3. data \in Seq(Nat) /\ written + size \in Nat
  BY ONLY <1>2, SMT
<1> HIDE DEF data
<1>4. buffer \in Seq(Nat)
  BY ONLY <1>2, <1>3, SMT DEF Buffered
<1>5. before \in Seq(Seq(Nat))
  BY ONLY <1>2, SMT DEF Flushed
<1> HIDE DEF before, buffer
<1>6. before \o << data >> \in Seq(Seq(Nat)) /\ before \o rest \in Seq(Seq(Nat))
  BY ONLY <1>3, <1>4, <1>5, SMT
<1> QED
  BY <1>1, <1>2, <1>3, <1>4, <1>6, Zenon

\* write() appends what the buffer and the caller hold.
LEMMA StreamIsGood ==
  ASSUME LogInv, NEW size \in WriteSizes, NEW channel \in Channels, Write(size, channel)
  PROVE  LogInv'
<1>1. UNCHANGED <<stateVars, bufferVars, syncs, isOK, pendingOps>>
  BY Zenon DEF Write
<1> QED
  BY <1>1, WriteAppends, AppendIsGood, Zenon

\* flush() appends the buffer.
LEMMA FlushIsGood == LogInv /\ Flush => LogInv'
<1> SUFFICES ASSUME LogInv, Flush PROVE LogInv'
  BY Zenon
<1>1. Flushed \in Seq(Seq(Nat)) /\ currentBuffer' \in Seq(Nat) /\ written' \in Nat
  BY DEF Flush, Flushed, LogInv, LogTypes
<1> QED
  BY <1>1, AppendIsGood, Zenon DEF Flush

\* When the writer goes, nobody owes anything to the store.
LEMMA DestroyIsGood == LogInv /\ Destroy => LogInv'
  BY Zenon DEF LogInv, LogTypes, FlushIsNewest, OwesOneAnswer, Destroy, streamVars,
         handlerVars, stateVars, bufferVars

-----------------------------------------------------------------------------
\* A write that is started with the newest operation while no flush is in flight
\* keeps a flush the newest of the writes.
LEMMA StartWriteIsGood ==
  ASSUME NEW inFlight, NEW op \in Nat, NEW entries, NEW links, NEW prev,
         \A s \in inFlight : ~s.isFlush /\ s.op \in 1 .. op /\ s.op < op,
         op > 0, lastWriteOp' \in Nat, op > lastWriteOp',
         StartWrite(inFlight, op, entries, links, prev)
  PROVE  FlushIsNewest' /\ \A s \in syncs' : s.op \in 1 .. op
<1> DEFINE isFlush == Len(entries) + (IF links THEN 2 ELSE 0) >= maxEntries
           id == CASTree(entries, links, prev)
           new == [op |-> op, isFlush |-> isFlush, id |-> id]
<1>1. syncs' = inFlight \cup {new} /\ (isFlush => flushPending')
  BY Zenon DEF StartWrite
<1>2. new.op = op /\ (new.isFlush => flushPending')
  <2>1. new.op = op /\ new.isFlush = isFlush
    BY Zenon
  <2> QED
    BY <1>1, <2>1, Zenon
<1>3. \A s \in syncs' : s = new \/ s \in inFlight
  BY <1>1, Zenon
<1> HIDE DEF new
<1>4. \A s \in syncs' : s.op \in 1 .. op
  BY <1>2, <1>3
<1>5. \A s \in syncs' : s.isFlush =>
        /\ s = new /\ flushPending' /\ s.op > lastWriteOp'
        /\ \A other \in syncs' \ {s} : other.op < s.op
  BY <1>2, <1>3, Zenon
<1> QED
  BY <1>4, <1>5, Zenon DEF FlushIsNewest

\* postChunk, when nothing is added to the log.
LEMMA PutIgnoredIsGood ==
  ASSUME LogInv, NEW n \in puts, NEW ok, PutIgnored(n, ok), puts' = puts \ {n},
         UNCHANGED streamVars
  PROVE  LogInv'
<1>1. n \in 1 .. Len(payload) /\ answers[n] = 0
  BY Zenon DEF LogInv, LogTypes, OwesOneAnswer
<1>2. /\ answers' \in [1 .. Len(payload) -> 0 .. 1]
      /\ \A m \in 1 .. Len(payload) : m # n => answers'[m] = answers[m]
  BY <1>1 DEF PutIgnored, LogInv, LogTypes
<1>3. LogTypes' /\ FlushIsNewest'
  BY <1>2, Zenon DEF PutIgnored, LogInv, LogTypes, FlushIsNewest, stateVars, bufferVars,
              streamVars
<1>4. OwesOneAnswer'
  BY <1>2 DEF PutIgnored, LogInv, LogTypes, OwesOneAnswer, NoAppend
<1> QED
  BY <1>3, <1>4, Zenon DEF LogInv

\* postChunk: the append moves from the store's debts to the writer's.
LEMMA PostChunkIsGood ==
  ASSUME LogInv, NEW n \in puts, NEW ok, PostChunk(n, ok), puts' = puts \ {n},
         UNCHANGED streamVars
  PROVE  LogInv'
<1> DEFINE op == writeOpCount + 1
           entries == Append(directoryEntries, [name |-> EntryCount, chunk |-> n])
           new == [op |-> op, handler |-> n]
<1>1. op \in Nat /\ op > writeOpCount /\ op > 0 /\ n \in 1 .. Len(payload)
      /\ op > lastWriteOp /\ lastWriteOp \in Nat
  BY DEF LogInv, LogTypes
<1>2. /\ writeOpCount' = op /\ pendingOps' = pendingOps \cup {new}
      /\ answers' = answers /\ lastWriteOp' = lastWriteOp
      /\ payload' = payload /\ currentBuffer' = currentBuffer /\ written' = written
  BY Zenon DEF PostChunk, stateVars, handlerVars, streamVars
<1>3. \/ UNCHANGED <<syncs, flushPending>>
      \/ ~flushPending /\ StartWrite(syncs, op, entries, linked, prevID)
  BY Zenon DEF PostChunk
<1>4. FlushIsNewest' /\ \A s \in syncs' : s.op \in 1 .. op
  <2>1. CASE UNCHANGED <<syncs, flushPending>>
    BY <2>1, <1>1, <1>2 DEF LogInv, LogTypes, FlushIsNewest
  <2>2. CASE ~flushPending /\ StartWrite(syncs, op, entries, linked, prevID)
    <3>1. \A s \in syncs : ~s.isFlush /\ s.op \in 1 .. op /\ s.op < op
      BY <2>2, <1>1 DEF LogInv, LogTypes, FlushIsNewest
    <3> HIDE DEF op, entries
    <3> QED
      BY <2>2, <3>1, <1>1, <1>2, StartWriteIsGood, Zenon
  <2> QED
    BY <1>3, <2>1, <2>2, Zenon
<1>5. \A o \in pendingOps' : o.op \in 1 .. op /\ o.handler \in 0 .. Len(payload)
  BY <1>1, <1>2 DEF LogInv, LogTypes
<1>6. LogTypes'
  BY <1>1, <1>2, <1>4, <1>5 DEF LogInv, LogTypes
<1>7. OwesOneAnswer'
  BY <1>1, <1>2 DEF LogInv, LogTypes, OwesOneAnswer, NoAppend
<1> QED
  BY <1>4, <1>6, <1>7, Zenon DEF LogInv

-----------------------------------------------------------------------------
\* Answering handlers of pending operations, which have had no answer, gives each
\* of them one and leaves the others alone.
LEMMA AnswerIsGood ==
  ASSUME LogInv, NEW ops \in SUBSET pendingOps, answers' = Answer(ops)
  PROVE  /\ answers' \in [1 .. Len(payload) -> 0 .. 1]
         /\ \A n \in 1 .. Len(payload) :
              (\A o \in ops : o.handler # n) => answers'[n] = answers[n]
<1>1. \A n \in 1 .. Len(payload) : n \in Handlers(ops) => answers[n] = 0
  BY Zenon DEF Handlers, LogInv, OwesOneAnswer
<1>2. answers' = [n \in 1 .. Len(payload) |->
                    IF n \in Handlers(ops) THEN answers[n] + 1 ELSE answers[n]]
  BY Zenon DEF Answer, LogInv, LogTypes
<1>3. \A n \in 1 .. Len(payload) : (\A o \in ops : o.handler # n) => n \notin Handlers(ops)
  BY Zenon DEF Handlers
<1> QED
  BY <1>1, <1>2, <1>3 DEF LogInv, LogTypes

\* postSync of a directory that is not sealed, in its three outcomes.
LEMMA PostWriteIsGood ==
  ASSUME LogInv, NEW s \in syncs, NEW ok, PostWrite(s, ok), UNCHANGED <<streamVars, puts>>
  PROVE  LogInv'
<1>1. /\ ~s.isFlush /\ syncs' = syncs \ {s} /\ s.op \in 1 .. writeOpCount
      /\ UNCHANGED <<payload, currentBuffer, written, puts, flushPending, writeOpCount>>
  BY Zenon DEF PostWrite, streamVars, bufferVars, LogInv, LogTypes
<1>2. CASE WriteSuperseded(s) \/ WriteStalled(s, ok)
  BY <1>1, <1>2, Zenon DEF WriteSuperseded, WriteStalled, LogInv, LogTypes, FlushIsNewest,
                    OwesOneAnswer, stateVars, handlerVars
<1>3. CASE WritePublished(s, ok)
  <2> DEFINE done == {o \in pendingOps : o.op <= s.op}
  <2>1. /\ answers' = Answer(done) /\ lastWriteOp' = s.op
        /\ pendingOps' = {o \in pendingOps : o.op > s.op}
    BY <1>3, Zenon DEF WritePublished, StillPending
  <2>2. done \in SUBSET pendingOps /\ \A o \in pendingOps' : o \in pendingOps \ done
    BY <1>1, <2>1 DEF LogInv, LogTypes
  <2>3. FlushIsNewest'
    BY <1>1, <2>1, Zenon DEF LogInv, LogTypes, FlushIsNewest
  <2> HIDE DEF done
  <2>4. /\ answers' \in [1 .. Len(payload) -> 0 .. 1]
        /\ \A n \in 1 .. Len(payload) :
             (\A o \in done : o.handler # n) => answers'[n] = answers[n]
    BY <2>1, <2>2, AnswerIsGood, Zenon
  <2>5. LogTypes'
    BY <1>1, <2>1, <2>2, <2>4 DEF LogInv, LogTypes
  <2>6. \A n \in puts : answers'[n] = answers[n]
    <3> SUFFICES ASSUME NEW n \in puts PROVE answers'[n] = answers[n]
      BY Zenon
    <3>1. n \in 1 .. Len(payload) /\ n # NoAppend
      BY DEF LogInv, LogTypes, NoAppend
    <3>2. \A o \in done : o.handler # n
      BY <3>1, <2>2, Zenon DEF LogInv, OwesOneAnswer
    <3> QED
      BY <2>4, <3>1, <3>2, Zenon
  <2>7. \A o \in pendingOps' : o.handler # NoAppend => answers'[o.handler] = answers[o.handler]
    <3> SUFFICES ASSUME NEW o \in pendingOps', o.handler # NoAppend
                 PROVE  answers'[o.handler] = answers[o.handler]
      BY Zenon
    <3>1. o \in pendingOps /\ o \notin done /\ o.handler \in 1 .. Len(payload)
      BY <2>2 DEF LogInv, LogTypes, NoAppend
    <3>2. \A other \in done : other.handler # o.handler
      BY <3>1, <2>2, Zenon DEF LogInv, OwesOneAnswer
    <3> QED
      BY <2>4, <3>1, <3>2, Zenon
  <2>8. OwesOneAnswer'
    BY <1>1, <2>2, <2>6, <2>7, Zenon DEF LogInv, OwesOneAnswer
  <2> QED
    BY <2>3, <2>5, <2>8, Zenon DEF LogInv
<1> QED
  BY <1>2, <1>3, Zenon DEF PostWrite

\* postSync of a sealed directory that could not be stored: everyone is answered.
LEMMA FlushFailedIsGood ==
  ASSUME LogInv, NEW s \in syncs, NEW ok, FlushFailed(s, ok), UNCHANGED <<streamVars, puts>>
  PROVE  LogInv'
<1>1. /\ syncs' = syncs \ {s} /\ answers' = Answer(pendingOps) /\ pendingOps' = {}
      /\ UNCHANGED <<payload, currentBuffer, written, puts, flushPending, writeOpCount,
                     lastWriteOp>>
  BY Zenon DEF FlushFailed, streamVars, stateVars
<1>2. /\ answers' \in [1 .. Len(payload) -> 0 .. 1]
      /\ \A n \in 1 .. Len(payload) :
           (\A o \in pendingOps : o.handler # n) => answers'[n] = answers[n]
  BY <1>1, AnswerIsGood, Zenon
<1>3. LogTypes' /\ FlushIsNewest'
  BY <1>1, <1>2, Zenon DEF LogInv, LogTypes, FlushIsNewest
<1>4. \A n \in puts : n \in 1 .. Len(payload) /\ \A o \in pendingOps : o.handler # n
  BY DEF LogInv, LogTypes, OwesOneAnswer, NoAppend
<1>5. OwesOneAnswer'
  BY <1>1, <1>2, <1>4, Zenon DEF LogInv, OwesOneAnswer
<1> QED
  BY <1>3, <1>5, Zenon DEF LogInv

\* postSync of a sealed directory: it is published, and the next one may be started.
LEMMA FlushDoneIsGood ==
  ASSUME LogInv, NEW s \in syncs, NEW ok, FlushDone(s, ok), UNCHANGED <<streamVars, puts>>
  PROVE  LogInv'
<1> DEFINE op == writeOpCount + 1
           others == syncs \ {s}
           new == [op |-> op, handler |-> NoAppend]
<1>1. /\ s.isFlush /\ lastWriteOp' = s.op /\ answers' = answers
      /\ UNCHANGED <<payload, currentBuffer, written, puts>>
  BY Zenon DEF FlushDone, streamVars, handlerVars
<1>2. \/ /\ syncs' = others /\ UNCHANGED <<flushPending, writeOpCount, pendingOps>>
      \/ /\ writeOpCount' = op /\ pendingOps' = pendingOps \cup {new}
         /\ StartWrite(others, op, directoryEntries, TRUE, s.id)
  BY Zenon DEF FlushDone
<1>3. /\ s.op \in 1 .. writeOpCount /\ op \in Nat /\ op > 0 /\ op > s.op /\ s.op \in Nat
      /\ \A other \in others : ~other.isFlush /\ other.op \in 1 .. op /\ other.op < op
  BY <1>1 DEF LogInv, LogTypes, FlushIsNewest
<1>4. CASE /\ syncs' = others /\ UNCHANGED <<flushPending, writeOpCount, pendingOps>>
  BY <1>1, <1>3, <1>4 DEF LogInv, LogTypes, FlushIsNewest, OwesOneAnswer
<1>5. CASE /\ writeOpCount' = op /\ pendingOps' = pendingOps \cup {new}
           /\ StartWrite(others, op, directoryEntries, TRUE, s.id)
  <2>1. FlushIsNewest' /\ \A t \in syncs' : t.op \in 1 .. op
    <3> HIDE DEF op, others
    <3> QED
      BY <1>1, <1>3, <1>5, StartWriteIsGood, Zenon
  <2>2. \A o \in pendingOps' : /\ o.op \in 1 .. op /\ o.handler \in 0 .. Len(payload)
                               /\ o.handler # NoAppend => o \in pendingOps
    BY <1>3, <1>5 DEF LogInv, LogTypes, NoAppend
  <2>3. LogTypes'
    BY <1>1, <1>3, <1>5, <2>1, <2>2 DEF LogInv, LogTypes
  <2>4. OwesOneAnswer'
    BY <1>1, <2>2, Zenon DEF LogInv, OwesOneAnswer
  <2> QED
    BY <2>1, <2>3, <2>4, Zenon DEF LogInv
<1> QED
  BY <1>2, <1>4, <1>5, Zenon

-----------------------------------------------------------------------------
\* Every step keeps the invariant.
LEMMA NextIsGood == LogInv /\ [Next]_vars => LogInv'
<1> SUFFICES ASSUME LogInv, [Next]_vars PROVE LogInv'
  BY Zenon
<1>1. CASE \E size \in WriteSizes, channel \in Channels : Write(size, channel)
  BY <1>1, StreamIsGood, Zenon
<1>2. CASE Flush
  BY <1>2, FlushIsGood, Zenon
<1>3. CASE Destroy
  BY <1>3, DestroyIsGood, Zenon
<1>4. ASSUME NEW ok \in BOOLEAN, NEW n \in puts, PutAnswered(n, ok) PROVE LogInv'
  BY <1>4, PutIgnoredIsGood, PostChunkIsGood, Zenon DEF PutAnswered
<1>5. ASSUME NEW ok \in BOOLEAN, NEW s \in syncs, SyncAnswered(s, ok) PROVE LogInv'
  BY <1>5, PostWriteIsGood, FlushFailedIsGood, FlushDoneIsGood, Zenon DEF SyncAnswered
<1>6. CASE UNCHANGED vars
  BY <1>6, Zenon DEF LogInv, LogTypes, FlushIsNewest, OwesOneAnswer, vars, streamVars,
              handlerVars, stateVars, bufferVars
<1> QED
  BY <1>1, <1>2, <1>3, <1>4, <1>5, <1>6, Zenon DEF Next, StoreAnswers

\* The invariant holds in every state.
LEMMA SpecIsGood == Spec => []LogInv
  BY InitIsGood, NextIsGood, PTL DEF Spec

\* The assertion in postSync cannot fail: when the answer to a sealed directory
\* arrives, every write that has been published is older.
THEOREM SealedIsNewest == Spec => []FlushPrevails
<1>1. LogInv => FlushPrevails
  BY Zenon DEF LogInv, FlushIsNewest, FlushPrevails
<1> QED
  BY <1>1, SpecIsGood, PTL

\* No handler of append() gets two terminal answers.
THEOREM NoSecondAnswer == Spec => []AnsweredOnce
<1>1. LogInv => AnsweredOnce
  <2> SUFFICES ASSUME LogInv, NEW n \in Appends PROVE answers[n] <= 1
    BY Zenon DEF AnsweredOnce
  <2>1. n \in 1 .. Len(payload)
    BY LenProperties, Zenon DEF Appends, LogInv, LogTypes
  <2>2. answers[n] \in 0 .. 1
    BY <2>1, Zenon DEF LogInv, LogTypes
  <2> QED
    BY <2>2
<1> QED
  BY <1>1, SpecIsGood, PTL
-----------------------------------------------------------------------------
(***************************************************************************)
(* Who owes an append its answer                                           *)
(***************************************************************************)
\* Until the first flush every operation starts a write of its own, and waits for its
\* answer unless its handler knows of the stall.
OwnWrite ==
  ~flushPending => \A o \in pendingOps :
    /\ o.op > lastWriteOp /\ o.handler # NoAppend
    /\ (\E s \in syncs : s.op = o.op) \/ o.handler \in stalled

\* One operation is the newest.
HasNewest == pendingOps # {} => \E o \in pendingOps : \A other \in pendingOps : other.op <= o.op

\* The writer remembers whom it owes an answer.
Remembers ==
  isOK => \A n \in 1 .. Len(payload) : n \in puts \/ answers[n] # 0
                                         \/ \E o \in pendingOps : o.handler = n

DebtInv == alive => OwnWrite /\ HasNewest /\ Remembers

\* append() leaves the operations alone, and the store owes the new handlers an answer.
LEMMA AppendKeepsDebts ==
  ASSUME LogInv, DebtInv, alive, NEW ps \in Seq(Seq(Nat)), Append_(ps),
         UNCHANGED <<stateVars, bufferVars, syncs, isOK, pendingOps, stalled>>
  PROVE  DebtInv'
<1>1. UNCHANGED <<lastWriteOp, flushPending, syncs, pendingOps, isOK, stalled>>
  BY Zenon DEF stateVars, bufferVars
<1>2. OwnWrite' /\ HasNewest'
  BY <1>1, Zenon DEF DebtInv, OwnWrite, HasNewest
<1>a. isOK' => isOK
  <2>1. isOK' = isOK
    BY <1>1, Zenon
  <2> QED
    BY ONLY <2>1, Zenon
<1>3. Remembers'
  <2> SUFFICES ASSUME isOK, NEW n \in 1 .. Len(payload')
               PROVE  n \in puts' \/ answers'[n] # 0 \/ \E o \in pendingOps : o.handler = n
    BY <1>1, <1>a, Zenon DEF Remembers
  <2>1. /\ n \in 1 .. Len(payload) \/ n \in puts'
        /\ puts \subseteq puts'
        /\ \A k \in 1 .. Len(payload) : answers'[k] = answers[k]
    BY Appended, Zenon DEF LogInv
  <2> QED
    BY <2>1, Zenon DEF DebtInv, Remembers
<1> QED
  BY <1>2, <1>3, Zenon DEF DebtInv

\* postChunk: the operation of the chunk is the newest, and has its own write unless a
\* flush is pending.
LEMMA PostChunkKeepsDebts ==
  ASSUME LogInv, DebtInv, alive, NEW n \in puts, NEW ok, PostChunk(n, ok), puts' = puts \ {n},
         UNCHANGED <<streamVars, isOK>>
  PROVE  DebtInv'
<1> DEFINE op == writeOpCount + 1
           new == [op |-> op, handler |-> n]
<1>1. /\ pendingOps' = pendingOps \cup {new} /\ UNCHANGED <<payload, answers, stalled, lastWriteOp>>
      /\ \/ flushPending /\ flushPending' /\ syncs' = syncs
         \/ ~flushPending /\ syncs \subseteq syncs' /\ \E s \in syncs' : s.op = op
  <2>1. /\ pendingOps' = pendingOps \cup {new} /\ UNCHANGED <<payload, answers, stalled, lastWriteOp>>
        /\ \/ flushPending /\ flushPending' = flushPending /\ syncs' = syncs
           \/ ~flushPending /\ \E entries : StartWrite(syncs, op, entries, linked, prevID)
    BY Zenon DEF PostChunk, streamVars, stateVars, handlerVars
  <2>2. ASSUME NEW entries, StartWrite(syncs, op, entries, linked, prevID)
        PROVE  syncs \subseteq syncs' /\ \E s \in syncs' : s.op = op
    <3> DEFINE s == [op |-> op,
                     isFlush |-> Len(entries) + (IF linked THEN 2 ELSE 0) >= maxEntries,
                     id |-> CASTree(entries, linked, prevID)]
    <3>1. syncs' = syncs \cup {s}
      BY <2>2, Zenon DEF StartWrite
    <3>2. s.op = op
      BY Zenon
    <3> HIDE DEF s
    <3> QED
      BY <3>1, <3>2, Zenon
  <2>3. flushPending' = flushPending /\ flushPending => flushPending'
    BY Zenon
  <2> QED
    BY <2>1, <2>2, <2>3, Zenon
<1>2. new.op = op /\ new.handler = n
  BY Zenon
<1>3. op > lastWriteOp /\ n # NoAppend /\ \A o \in pendingOps : o.op <= op
  BY SMT DEF LogInv, LogTypes, NoAppend
<1>4. op <= op
  BY SMT DEF LogInv, LogTypes
<1> HIDE DEF new, op
<1>5. OwnWrite'
  BY <1>1, <1>2, <1>3, Zenon DEF DebtInv, OwnWrite
<1>6. HasNewest'
  BY <1>1, <1>2, <1>3, <1>4, Zenon DEF HasNewest
<1>7. Remembers'
  BY <1>1, <1>2, Zenon DEF DebtInv, Remembers
<1> QED
  BY <1>5, <1>6, <1>7, Zenon DEF DebtInv

\* postChunk, when nothing is added to the log.
LEMMA PutIgnoredKeepsDebts ==
  ASSUME LogInv, DebtInv, alive, NEW n \in puts, NEW ok, PutIgnored(n, ok), puts' = puts \ {n},
         UNCHANGED <<streamVars, isOK>>
  PROVE  DebtInv'
<1>1. /\ UNCHANGED <<payload, pendingOps, stalled, lastWriteOp, flushPending, syncs, isOK>>
      /\ answers' = IF ok THEN answers ELSE [answers EXCEPT ![n] = @ + 1]
      /\ ~ok \/ ~isOK
  BY Zenon DEF PutIgnored, streamVars, stateVars, bufferVars
<1>2. OwnWrite' /\ HasNewest'
  BY <1>1, Zenon DEF DebtInv, OwnWrite, HasNewest
<1>3. Remembers'
  <2>1. answers[n] = 0 /\ answers \in [1 .. Len(payload) -> 0 .. 1]
    BY Zenon DEF LogInv, LogTypes, OwesOneAnswer
  <2>2. ~ok => \A k \in 1 .. Len(payload) : answers'[k] # 0 \/ (k # n /\ answers'[k] = answers[k])
    BY ONLY <1>1, <2>1, SMT
  <2>3. isOK' => isOK
    <3>1. isOK' = isOK
      BY <1>1, Zenon
    <3> QED
      BY ONLY <3>1, Zenon
  <2> QED
    BY <1>1, <2>2, <2>3, Zenon DEF DebtInv, Remembers
<1> QED
  BY <1>2, <1>3, Zenon DEF DebtInv

\* postSync of a directory that is not sealed: a late answer is no pending operation's, a
\* failed one makes its handler know, and a published one answers all up to its own.
LEMMA PostWriteKeepsDebts ==
  ASSUME LogInv, DebtInv, alive, NEW s \in syncs, NEW ok, PostWrite(s, ok),
         UNCHANGED <<streamVars, puts>>
  PROVE  DebtInv'
<1>1. /\ syncs' = syncs \ {s} /\ UNCHANGED <<payload, puts, flushPending, isOK>>
  BY Zenon DEF PostWrite, streamVars, bufferVars
<1>2. CASE WriteSuperseded(s)
  <2>1. s.op < lastWriteOp /\ UNCHANGED <<pendingOps, stalled, lastWriteOp, answers>>
    BY <1>2, Zenon DEF WriteSuperseded, Superseded, stateVars, handlerVars
  <2>2. \A o \in pendingOps : o.op > lastWriteOp => o.op # s.op
    BY <2>1, SMT DEF LogInv, LogTypes
  <2> QED
    BY <1>1, <2>1, <2>2, Zenon DEF DebtInv, OwnWrite, HasNewest, Remembers
<1>3. CASE WriteStalled(s, ok)
  <2>1. /\ UNCHANGED <<pendingOps, lastWriteOp, answers>> /\ stalled \subseteq stalled'
        /\ \A o \in pendingOps : o.op = s.op /\ o.handler # NoAppend => o.handler \in stalled'
    BY <1>3, Zenon DEF WriteStalled, Handlers, stateVars
  <2> QED
    BY <1>1, <2>1, Zenon DEF DebtInv, OwnWrite, HasNewest, Remembers
<1>4. CASE WritePublished(s, ok)
  <2> DEFINE done == {o \in pendingOps : o.op <= s.op}
  <2>1. /\ answers' = Answer(done) /\ lastWriteOp' = s.op /\ stalled' = stalled
        /\ pendingOps' = {o \in pendingOps : o.op > s.op}
    BY <1>4, Zenon DEF WritePublished, StillPending
  <2>2. /\ s.op \in Nat /\ \A o \in pendingOps : o.op \in Nat
        /\ \A o \in pendingOps : o \in done \/ (o.op > s.op /\ o.op # s.op)
    BY SMT DEF LogInv, LogTypes
  <2>3. OwnWrite'
    <3>1. \A o \in pendingOps' : /\ o \in pendingOps /\ o.op > s.op /\ o.op # s.op
                                /\ \A t \in syncs : t.op = o.op => t \in syncs'
      BY ONLY <1>1, <2>1, <2>2, SMT
    <3>2. lastWriteOp' = s.op /\ stalled' = stalled /\ flushPending' = flushPending
      BY <1>1, <2>1, Zenon
    <3>3. OwnWrite
      BY Zenon DEF DebtInv
    <3> QED
      BY ONLY <3>1, <3>2, <3>3, Zenon DEF OwnWrite
  <2>4. HasNewest'
    <3> SUFFICES ASSUME NEW p \in pendingOps'
                 PROVE  \E o \in pendingOps' : \A other \in pendingOps' : other.op <= o.op
      BY Zenon DEF HasNewest
    <3>1. PICK o \in pendingOps : \A other \in pendingOps : other.op <= o.op
      BY <2>1, Zenon DEF DebtInv, HasNewest
    <3>2. p \in pendingOps /\ p.op > s.op /\ p.op <= o.op
      BY <2>1, <3>1, Zenon
    <3>3. o.op > s.op
      BY ONLY <2>2, <3>1, <3>2, SMT
    <3> QED
      BY <2>1, <3>1, <3>3, Zenon
  <2>5. Remembers'
    <3> SUFFICES ASSUME isOK, NEW n \in 1 .. Len(payload)
                 PROVE  n \in puts \/ answers'[n] # 0 \/ \E o \in pendingOps' : o.handler = n
      BY <1>1, Zenon DEF Remembers
    <3>a. Len(payload) \in Nat
      BY LenProperties, Zenon DEF LogInv, LogTypes
    <3>b. n # NoAppend
      BY ONLY <3>a, n \in 1 .. Len(payload), SMT DEF NoAppend
    <3>1. n # NoAppend /\ answers[n] \in 0 .. 1 /\ answers \in [1 .. Len(payload) -> 0 .. 1]
      BY <3>b, Zenon DEF LogInv, LogTypes
    <3>2. CASE n \in puts
      BY <3>2, Zenon
    <3>3. CASE \E o \in pendingOps : o.handler = n
      <4>1. PICK o \in pendingOps : o.handler = n
        BY <3>3, Zenon
      <4>2. CASE o \in done
        <5>1. n \in Handlers(done)
          BY <3>1, <4>1, <4>2, Zenon DEF Handlers
        <5>2. answers'[n] = answers[n] + 1
          BY <2>1, <3>1, <5>1, Zenon DEF Answer
        <5> QED
          BY ONLY <3>1, <5>2, SMT
      <4>3. CASE o.op > s.op
        BY <2>1, <4>1, <4>3, Zenon
      <4> QED
        BY <2>2, <4>2, <4>3, Zenon
    <3>4. CASE answers[n] # 0
      <4>1. answers'[n] \in {answers[n], answers[n] + 1}
        BY <2>1, <3>1, Zenon DEF Answer
      <4> QED
        BY ONLY <3>1, <3>4, <4>1, SMT
    <3> QED
      BY <3>2, <3>3, <3>4, Zenon DEF DebtInv, Remembers
  <2> QED
    BY <2>3, <2>4, <2>5, Zenon DEF DebtInv
<1> QED
  BY <1>2, <1>3, <1>4, Zenon DEF PostWrite

\* postSync of a sealed directory: after a failure nobody is owed anything, and otherwise
\* the operations stay pending, with one more that is the newest.
LEMMA FlushKeepsDebts ==
  ASSUME LogInv, DebtInv, alive, NEW s \in syncs, NEW ok, FlushFailed(s, ok) \/ FlushDone(s, ok),
         UNCHANGED <<streamVars, puts>>
  PROVE  DebtInv'
<1>1. flushPending
  <2>1. s.isFlush
    BY Zenon DEF FlushFailed, FlushDone
  <2> QED
    BY <2>1, Zenon DEF LogInv, FlushIsNewest
<1>2. OwnWrite'
  <2>1. flushPending' = flushPending \/ \E isFlush : flushPending' = (flushPending \/ isFlush)
    BY Zenon DEF FlushFailed, FlushDone, StartWrite
  <2>2. flushPending'
    BY <1>1, <2>1, Zenon
  <2> QED
    BY <2>2, Zenon DEF OwnWrite
<1>3. CASE FlushFailed(s, ok)
  BY <1>2, <1>3, Zenon DEF FlushFailed, DebtInv, HasNewest, Remembers
<1>4. CASE FlushDone(s, ok)
  <2> DEFINE new == [op |-> writeOpCount + 1, handler |-> NoAppend]
  <2>1. /\ UNCHANGED <<payload, puts, answers, isOK>>
        /\ pendingOps' = pendingOps \/ pendingOps' = pendingOps \cup {new}
    BY <1>4, Zenon DEF FlushDone, streamVars, handlerVars
  <2>2. new.op = writeOpCount + 1
    BY Zenon
  <2>3. new.op <= new.op /\ \A o \in pendingOps : o.op <= new.op
    BY <2>2, SMT DEF LogInv, LogTypes
  <2> HIDE DEF new
  <2>4. HasNewest'
    BY <2>1, <2>3, Zenon DEF DebtInv, HasNewest
  <2>5. isOK' => isOK
    <3>1. isOK' = isOK
      BY <2>1, Zenon
    <3> QED
      BY ONLY <3>1, Zenon
  <2>6. Remembers'
    BY <2>1, <2>5, Zenon DEF DebtInv, Remembers
  <2> QED
    BY <1>2, <2>4, <2>6, Zenon DEF DebtInv
<1> QED
  BY <1>3, <1>4, Zenon

\* Every step of a live writer keeps its debts.
LEMMA NextKeepsDebts == LogInv /\ DebtInv /\ [Next]_vars => DebtInv'
<1> SUFFICES ASSUME LogInv, DebtInv, [Next]_vars PROVE DebtInv'
  BY Zenon
<1>0. CASE ~alive
  <2>1. ~alive'
    <3>1. alive' = alive \/ alive' = FALSE
      BY Zenon DEF Next, StoreAnswers, Write, Flush, Destroy, PutAnswered, SyncAnswered, vars
    <3> QED
      BY <1>0, <3>1, Zenon
  <2> QED
    BY <2>1, Zenon DEF DebtInv
<1>1. ASSUME alive, NEW size \in WriteSizes, NEW channel \in Channels, Write(size, channel)
      PROVE DebtInv'
  <2>1. PICK ps \in Seq(Seq(Nat)) : Append_(ps)
    BY <1>1, WriteAppends, Zenon
  <2>2. UNCHANGED <<stateVars, bufferVars, syncs, isOK, pendingOps, stalled>>
    BY <1>1, <2>1, Zenon DEF Write, Append_
  <2> QED
    BY <1>1, <2>1, <2>2, AppendKeepsDebts, Zenon
<1>2. ASSUME alive, Flush PROVE DebtInv'
  <2>1. Flushed \in Seq(Seq(Nat)) /\ Append_(Flushed)
    BY <1>2 DEF Flush, Flushed, LogInv, LogTypes
  <2>2. UNCHANGED <<stateVars, bufferVars, syncs, isOK, pendingOps, stalled>>
    BY <1>2, Zenon DEF Flush, Append_
  <2> QED
    BY <1>2, <2>1, <2>2, AppendKeepsDebts, Zenon
<1>3. CASE Destroy
  BY <1>3, Zenon DEF Destroy, DebtInv
<1>4. ASSUME alive, NEW ok \in BOOLEAN, NEW n \in puts, PutAnswered(n, ok) PROVE DebtInv'
  BY <1>4, PutIgnoredKeepsDebts, PostChunkKeepsDebts, Zenon DEF PutAnswered
<1>5. ASSUME alive, NEW ok \in BOOLEAN, NEW s \in syncs, SyncAnswered(s, ok) PROVE DebtInv'
  BY <1>5, PostWriteKeepsDebts, FlushKeepsDebts, Zenon DEF SyncAnswered
<1>6. CASE UNCHANGED vars
  BY <1>6, Zenon DEF DebtInv, OwnWrite, HasNewest, Remembers, vars, streamVars, handlerVars,
                     stateVars, bufferVars
<1> QED
  BY <1>0, <1>1, <1>2, <1>3, <1>4, <1>5, <1>6, Zenon DEF Next, StoreAnswers

\* A live, intact writer never forgets an append: the store owes it the answer to its chunk
\* or to a directory that holds it, or its client has been told to retry, or the append is
\* held back for a flush.
THEOREM NoAppendIsForgotten == Spec => []AnswerOnItsWay
<1>1. Init => DebtInv
  <2> SUFFICES ASSUME Init PROVE DebtInv
    BY Zenon
  <2>1. pendingOps = {} /\ payload = << >>
    BY Zenon DEF Init
  <2>2. 1 .. Len(payload) = {}
    BY <2>1, SMT
  <2> QED
    BY <2>1, <2>2, Zenon DEF DebtInv, OwnWrite, HasNewest, Remembers
<1>2. LogInv /\ DebtInv => AnswerOnItsWay
  <2> SUFFICES ASSUME LogInv, DebtInv, alive, isOK, NEW n \in Appends \ puts, answers[n] = 0
               PROVE  \E o \in pendingOps : /\ o.handler = n
                                            /\ \/ flushPending
                                               \/ \E s \in syncs : s.op >= o.op
                                               \/ Newest.handler \in stalled
    BY Zenon DEF AnswerOnItsWay
  <2>1. n \in 1 .. Len(payload)
    BY LenProperties, Zenon DEF Appends, LogInv, LogTypes
  <2>2. PICK o \in pendingOps : o.handler = n
    BY <2>1, Zenon DEF DebtInv, Remembers
  <2>3. Newest \in pendingOps /\ o.op <= Newest.op
    <3>1. \E p \in pendingOps : \A other \in pendingOps : other.op <= p.op
      BY <2>2, Zenon DEF DebtInv, HasNewest
    <3>2. Newest \in pendingOps /\ \A other \in pendingOps : other.op <= Newest.op
      BY <3>1, Zenon DEF Newest
    <3> QED
      BY <2>2, <3>2, Zenon
  <2>4. CASE ~flushPending
    <3>1. (\E s \in syncs : s.op = Newest.op) \/ Newest.handler \in stalled
      BY <2>3, <2>4, Zenon DEF DebtInv, OwnWrite
    <3>2. ASSUME NEW s \in syncs, s.op = Newest.op PROVE s.op >= o.op
      <4>1. s.op \in Nat /\ o.op \in Nat
        BY <2>2, SMT DEF LogInv, LogTypes
      <4> QED
        BY ONLY <2>3, <3>2, <4>1, SMT
    <3> QED
      BY <2>2, <3>1, <3>2, Zenon
  <2> QED
    BY <2>2, <2>4, Zenon
<1> QED
  BY <1>1, <1>2, SpecIsGood, NextKeepsDebts, PTL DEF Spec
-----------------------------------------------------------------------------
(***************************************************************************)
(* One log: what an id leads to                                            *)
(***************************************************************************)
Entry == [name : Nat, chunk : Nat]

ID == Seq(Seq(Entry))

\* A reader finds the chunk of append n behind the id.
Has(id, n) == \E d \in DOMAIN id : \E i \in DOMAIN id[d] : id[d][i].chunk = n

\* No chunk is found twice.
Once(id) ==
  \A d, e \in DOMAIN id : \A i \in DOMAIN id[d], j \in DOMAIN id[e] :
    id[d][i].chunk = id[e][j].chunk => d = e /\ i = j

\* v is w with one more entry, for chunk n.
Adds(w, v, n) ==
  /\ Continues(w, v)
  /\ \E d \in DOMAIN v : \E i \in DOMAIN v[d] :
       /\ v[d][i].chunk = n
       /\ \A e \in DOMAIN v : \A j \in DOMAIN v[e] :
            \/ e = d /\ j = i
            \/ e \in DOMAIN w /\ j \in DOMAIN w[e] /\ v[e][j] = w[e][j]

\* An id is a sequence of directories.
LEMMA IDIs ==
  ASSUME NEW a \in ID
  PROVE  /\ Len(a) \in Nat /\ DOMAIN a = 1 .. Len(a)
         /\ \A d \in DOMAIN a : a[d] \in Seq(Entry) /\ Len(a[d]) \in Nat /\ DOMAIN a[d] = 1 .. Len(a[d])
<1>1. Len(a) \in Nat /\ DOMAIN a = 1 .. Len(a) /\ \A d \in DOMAIN a : a[d] \in Seq(Entry)
  BY LenProperties, ElementOfSeq, Zenon DEF ID
<1> QED
  BY <1>1, LenProperties, Zenon

\* A prefix of a prefix is a prefix, and a sequence is a prefix of itself.
LEMMA Prefixes ==
  /\ \A s \in Seq(Entry) : IsPrefixOf(s, s)
  /\ \A s, t, u \in Seq(Entry) : IsPrefixOf(s, t) /\ IsPrefixOf(t, u) => IsPrefixOf(s, u)
  /\ \A s, t, u \in Seq(Entry) :
       IsPrefixOf(s, u) /\ IsPrefixOf(t, u) => IsPrefixOf(s, t) \/ IsPrefixOf(t, s)
<1>0. \A s \in Seq(Entry) : Len(s) \in Nat /\ DOMAIN s = 1 .. Len(s)
  BY LenProperties, Zenon
<1>1. ASSUME NEW s \in Seq(Entry) PROVE IsPrefixOf(s, s)
  <2>1. Len(s) <= Len(s)
    BY ONLY <1>0, s \in Seq(Entry), SMT
  <2> QED
    BY <2>1, Zenon DEF IsPrefixOf
<1>2. ASSUME NEW s \in Seq(Entry), NEW t \in Seq(Entry), NEW u \in Seq(Entry),
             IsPrefixOf(s, t), IsPrefixOf(t, u)
      PROVE  IsPrefixOf(s, u)
  <2>1. Len(s) \in Nat /\ Len(t) \in Nat /\ Len(u) \in Nat /\ DOMAIN s = 1 .. Len(s)
        /\ DOMAIN t = 1 .. Len(t)
    BY <1>0, Zenon
  <2>2. Len(s) <= Len(t) /\ Len(t) <= Len(u)
    BY <1>2, Zenon DEF IsPrefixOf
  <2>3. Len(s) <= Len(u) /\ \A i \in DOMAIN s : i \in DOMAIN t
    BY ONLY <2>1, <2>2, SMT
  <2> QED
    BY <1>2, <2>3, Zenon DEF IsPrefixOf
<1>3. ASSUME NEW s \in Seq(Entry), NEW t \in Seq(Entry), NEW u \in Seq(Entry),
             IsPrefixOf(s, u), IsPrefixOf(t, u)
      PROVE  IsPrefixOf(s, t) \/ IsPrefixOf(t, s)
  <2>1. Len(s) \in Nat /\ Len(t) \in Nat /\ DOMAIN s = 1 .. Len(s) /\ DOMAIN t = 1 .. Len(t)
    BY <1>0, Zenon
  <2>2. \/ Len(s) <= Len(t) /\ \A i \in DOMAIN s : i \in DOMAIN t
        \/ Len(t) <= Len(s) /\ \A i \in DOMAIN t : i \in DOMAIN s
    BY ONLY <2>1, SMT
  <2>3. (\A i \in DOMAIN s : s[i] = u[i]) /\ (\A i \in DOMAIN t : t[i] = u[i])
    BY <1>3, Zenon DEF IsPrefixOf
  <2> QED
    BY <2>2, <2>3, Zenon DEF IsPrefixOf
<1> QED
  BY <1>1, <1>2, <1>3, Zenon

\* Every id continues itself and the empty one.
LEMMA ContinuesSelf ==
  ASSUME NEW a \in ID
  PROVE  Continues(a, a) /\ Continues(NoID, a)
<1>1. Len(a) \in Nat /\ DOMAIN a = 1 .. Len(a) /\ \A d \in DOMAIN a : a[d] \in Seq(Entry)
  BY IDIs, Zenon
<1>2. Len(a) <= Len(a)
  BY ONLY <1>1, SMT
<1>3. Continues(a, a)
  BY <1>1, <1>2, Prefixes, Zenon DEF Continues
<1>4. Len(NoID) = 0 /\ DOMAIN NoID = {}
  BY SMT DEF NoID
<1>5. Len(NoID) <= Len(a)
  BY ONLY <1>1, <1>4, SMT
<1>6. Continues(NoID, a)
  BY <1>4, <1>5, Zenon DEF Continues
<1> QED
  BY <1>3, <1>6, Zenon

\* Continuing is transitive.
LEMMA ContinuesOn ==
  ASSUME NEW a \in ID, NEW b \in ID, NEW c \in ID, Continues(a, b), Continues(b, c)
  PROVE  Continues(a, c)
<1>1. /\ Len(a) \in Nat /\ Len(b) \in Nat /\ Len(c) \in Nat
      /\ DOMAIN a = 1 .. Len(a) /\ DOMAIN b = 1 .. Len(b) /\ DOMAIN c = 1 .. Len(c)
      /\ \A d \in DOMAIN a : a[d] \in Seq(Entry)
      /\ \A d \in DOMAIN b : b[d] \in Seq(Entry)
      /\ \A d \in DOMAIN c : c[d] \in Seq(Entry)
  BY IDIs, Zenon
<1>2. Len(a) <= Len(b) /\ Len(b) <= Len(c)
  BY Zenon DEF Continues
<1>3. /\ Len(a) <= Len(c)
      /\ \A d \in DOMAIN a : d \in DOMAIN b /\ d \in DOMAIN c
      /\ \A d \in DOMAIN a : d < Len(a) => d < Len(b)
  BY ONLY <1>1, <1>2, SMT
<1>4. ASSUME NEW d \in DOMAIN a
      PROVE  IF d < Len(a) THEN a[d] = c[d] ELSE IsPrefixOf(a[d], c[d])
  <2>1. CASE d < Len(a)
    BY <1>3, <2>1, Zenon DEF Continues
  <2>2. CASE ~(d < Len(a))
    <3>1. /\ IsPrefixOf(a[d], b[d])
          /\ b[d] = c[d] \/ IsPrefixOf(b[d], c[d])
      BY <1>3, <2>2, Zenon DEF Continues
    <3>2. IsPrefixOf(a[d], c[d])
      BY <1>1, <1>3, <3>1, Prefixes, Zenon
    <3> QED
      BY <2>2, <3>2, Zenon
  <2> QED
    BY <2>1, <2>2, Zenon
<1> QED
  BY <1>3, <1>4, Zenon DEF Continues

\* Of two ids that a third continues, one continues the other.
LEMMA Comparable ==
  ASSUME NEW a \in ID, NEW b \in ID, NEW w \in ID, Continues(a, w), Continues(b, w)
  PROVE  Continues(a, b) \/ Continues(b, a)
<1>1. ASSUME NEW x \in ID, NEW y \in ID, Continues(x, w), Continues(y, w), Len(x) < Len(y)
      PROVE  Continues(x, y)
  <2>1. /\ Len(x) \in Nat /\ Len(y) \in Nat /\ DOMAIN x = 1 .. Len(x) /\ DOMAIN y = 1 .. Len(y)
    BY IDIs, Zenon
  <2>2. Len(x) <= Len(y) /\ \A d \in DOMAIN x : d \in DOMAIN y /\ d < Len(y)
    BY ONLY <1>1, <2>1, SMT
  <2>3. \A d \in DOMAIN x : y[d] = w[d]
    BY <1>1, <2>2, Zenon DEF Continues
  <2> QED
    BY <1>1, <2>2, <2>3, Zenon DEF Continues
<1>2. CASE Len(a) = Len(b)
  <2>1. /\ Len(a) \in Nat /\ DOMAIN a = 1 .. Len(a) /\ DOMAIN b = DOMAIN a
        /\ Len(a) <= Len(b) /\ Len(b) <= Len(a)
    <3>1. Len(a) \in Nat /\ DOMAIN a = 1 .. Len(a) /\ DOMAIN b = 1 .. Len(b)
      BY IDIs, Zenon
    <3> QED
      BY ONLY <1>2, <3>1, SMT
  <2>2. \A d \in DOMAIN a : d < Len(a) => a[d] = b[d]
    BY <1>2, <2>1, Zenon DEF Continues
  <2>3. CASE DOMAIN a = {}
    BY <2>1, <2>3, Zenon DEF Continues
  <2>4. CASE DOMAIN a # {}
    <3> DEFINE k == Len(a)
    <3>1. k \in DOMAIN a /\ ~(k < k) /\ \A d \in DOMAIN a : d < k \/ d = k
      BY ONLY <2>1, <2>4, SMT
    <3>2. a[k] \in Seq(Entry) /\ b[k] \in Seq(Entry) /\ w[k] \in Seq(Entry)
      <4>1. k \in DOMAIN w
        <5>1. Len(a) <= Len(w) /\ Len(w) \in Nat /\ DOMAIN w = 1 .. Len(w)
          BY IDIs, Zenon DEF Continues
        <5> QED
          BY ONLY <2>1, <3>1, <5>1, SMT
      <4> QED
        BY <2>1, <3>1, <4>1, IDIs, Zenon
    <3>3. IsPrefixOf(a[k], w[k]) /\ IsPrefixOf(b[k], w[k])
      BY <1>2, <2>1, <3>1, Zenon DEF Continues
    <3>4. IsPrefixOf(a[k], b[k]) \/ IsPrefixOf(b[k], a[k])
      BY ONLY <3>2, <3>3, Prefixes, Zenon
    <3> QED
      BY <1>2, <2>1, <2>2, <3>1, <3>4, Zenon DEF Continues
  <2> QED
    BY <2>3, <2>4, Zenon
<1>3. CASE Len(a) < Len(b)
  BY <1>1, <1>3, Zenon
<1>4. CASE Len(b) < Len(a)
  BY <1>1, <1>4, Zenon
<1>5. Len(a) = Len(b) \/ Len(a) < Len(b) \/ Len(b) < Len(a)
  <2>1. Len(a) \in Nat /\ Len(b) \in Nat
    BY IDIs, Zenon
  <2> QED
    BY ONLY <2>1, SMT
<1> QED
  BY <1>2, <1>3, <1>4, <1>5, Zenon

\* A further directory.
LEMMA NewDirectory ==
  ASSUME NEW p \in ID, NEW es \in Seq(Entry)
  PROVE  /\ Append(p, es) \in ID /\ Append(p, es) # NoID /\ Continues(p, Append(p, es))
         /\ Len(Append(p, es)) = Len(p) + 1 /\ DOMAIN Append(p, es) = 1 .. Len(p) + 1
         /\ \A d \in DOMAIN p : Append(p, es)[d] = p[d]
         /\ Append(p, es)[Len(p) + 1] = es
<1> DEFINE q == Append(p, es)
<1>1. /\ q \in ID /\ Len(q) = Len(p) + 1
      /\ \A d \in 1 .. Len(p) : q[d] = p[d]
      /\ q[Len(p) + 1] = es
  <2>1. p \in Seq(Seq(Entry))
    BY Zenon DEF ID
  <2>2. /\ q \in Seq(Seq(Entry)) /\ Len(q) = Len(p) + 1
        /\ \A d \in 1 .. Len(p) : q[d] = p[d]
        /\ q[Len(p) + 1] = es
    BY ONLY <2>1, es \in Seq(Entry), AppendProperties, SMT
  <2> QED
    BY <2>2, Zenon DEF ID
<1>2. /\ Len(p) \in Nat /\ DOMAIN p = 1 .. Len(p) /\ DOMAIN q = 1 .. Len(p) + 1
      /\ \A d \in DOMAIN p : p[d] \in Seq(Entry)
  BY <1>1, IDIs, Zenon
<1> HIDE DEF q
<1>3. Len(p) <= Len(q)
  BY ONLY <1>1, <1>2, SMT
<1>4. \A d \in DOMAIN p : q[d] = p[d]
  BY <1>1, <1>2, Zenon
<1>5. Continues(p, q)
  BY <1>2, <1>3, <1>4, Prefixes, Zenon DEF Continues
<1>6. q # NoID
  <2>1. Len(NoID) = 0
    BY SMT DEF NoID
  <2>2. Len(q) # 0
    BY ONLY <1>1, <1>2, SMT
  <2> QED
    BY ONLY <2>1, <2>2, Zenon
<1> QED
  BY <1>1, <1>2, <1>4, <1>5, <1>6, Zenon DEF q

\* What is found behind an id is found behind one that continues it.
LEMMA ContinuesHas ==
  ASSUME NEW a \in ID, NEW b \in ID, Continues(a, b)
  PROVE  /\ \A d \in DOMAIN a : d \in DOMAIN b
         /\ \A d \in DOMAIN a : \A i \in DOMAIN a[d] : i \in DOMAIN b[d] /\ b[d][i] = a[d][i]
         /\ \A n : Has(a, n) => Has(b, n)
<1>1. Len(a) \in Nat /\ DOMAIN a = 1 .. Len(a) /\ Len(b) \in Nat /\ DOMAIN b = 1 .. Len(b)
  BY IDIs, Zenon
<1>2. Len(a) <= Len(b)
  BY Zenon DEF Continues
<1>3. \A d \in DOMAIN a : d \in DOMAIN b
  BY ONLY <1>1, <1>2, SMT
<1>4. ASSUME NEW d \in DOMAIN a, NEW i \in DOMAIN a[d]
      PROVE  i \in DOMAIN b[d] /\ b[d][i] = a[d][i]
  <2>1. a[d] = b[d] \/ IsPrefixOf(a[d], b[d])
    BY Zenon DEF Continues
  <2>2. CASE a[d] = b[d]
    BY <2>2, Zenon
  <2>3. CASE IsPrefixOf(a[d], b[d])
    <3>1. /\ Len(a[d]) \in Nat /\ DOMAIN a[d] = 1 .. Len(a[d])
          /\ Len(b[d]) \in Nat /\ DOMAIN b[d] = 1 .. Len(b[d])
      BY <1>3, IDIs, Zenon
    <3>2. Len(a[d]) <= Len(b[d]) /\ a[d][i] = b[d][i]
      BY <2>3, Zenon DEF IsPrefixOf
    <3>3. i \in DOMAIN b[d]
      BY ONLY <3>1, <3>2, i \in DOMAIN a[d], SMT
    <3> QED
      BY <3>2, <3>3, Zenon
  <2> QED
    BY <2>1, <2>2, <2>3, Zenon
<1>5. ASSUME NEW n, Has(a, n) PROVE Has(b, n)
  <2>1. PICK d \in DOMAIN a : \E i \in DOMAIN a[d] : a[d][i].chunk = n
    BY <1>5, Zenon DEF Has
  <2>2. PICK i \in DOMAIN a[d] : a[d][i].chunk = n
    BY <2>1, Zenon
  <2>3. d \in DOMAIN b /\ i \in DOMAIN b[d] /\ b[d][i].chunk = n
    BY <1>3, <1>4, <2>2, Zenon
  <2> QED
    BY <2>3, Zenon DEF Has
<1> QED
  BY <1>3, <1>4, <1>5, Zenon

\* One more entry, for a chunk that is not found yet.
LEMMA AddsOne ==
  ASSUME NEW w \in ID, NEW v \in ID, NEW n, Adds(w, v, n), Once(w), ~Has(w, n)
  PROVE  Once(v) /\ Has(v, n) /\ \A k : Has(v, k) => k = n \/ Has(w, k)
<1>1. PICK d \in DOMAIN v : \E i \in DOMAIN v[d] :
        /\ v[d][i].chunk = n
        /\ \A e \in DOMAIN v : \A j \in DOMAIN v[e] :
             \/ e = d /\ j = i
             \/ e \in DOMAIN w /\ j \in DOMAIN w[e] /\ v[e][j] = w[e][j]
  BY Zenon DEF Adds
<1>2. PICK i \in DOMAIN v[d] :
        /\ v[d][i].chunk = n
        /\ \A e \in DOMAIN v : \A j \in DOMAIN v[e] :
             \/ e = d /\ j = i
             \/ e \in DOMAIN w /\ j \in DOMAIN w[e] /\ v[e][j] = w[e][j]
  BY <1>1, Zenon
<1>3. Has(v, n)
  BY <1>2, Zenon DEF Has
<1>4. ASSUME NEW k, Has(v, k) PROVE k = n \/ Has(w, k)
  <2>1. PICK e \in DOMAIN v : \E j \in DOMAIN v[e] : v[e][j].chunk = k
    BY <1>4, Zenon DEF Has
  <2>2. PICK j \in DOMAIN v[e] : v[e][j].chunk = k
    BY <2>1, Zenon
  <2>3. CASE e = d /\ j = i
    BY <1>2, <2>2, <2>3, Zenon
  <2>4. CASE e \in DOMAIN w /\ j \in DOMAIN w[e] /\ v[e][j] = w[e][j]
    BY <2>2, <2>4, Zenon DEF Has
  <2> QED
    BY <1>2, <2>3, <2>4, Zenon
<1>5. ASSUME NEW e \in DOMAIN v, NEW f \in DOMAIN v, NEW j \in DOMAIN v[e], NEW k \in DOMAIN v[f],
             v[e][j].chunk = v[f][k].chunk
      PROVE  e = f /\ j = k
  <2>1. \A x \in DOMAIN w : \A y \in DOMAIN w[x] : w[x][y].chunk # n
    BY Zenon DEF Has
  <2>2. CASE e = d /\ j = i
    <3>1. v[f][k].chunk = n
      BY <1>2, <1>5, <2>2, Zenon
    <3>2. ~(f \in DOMAIN w /\ k \in DOMAIN w[f] /\ v[f][k] = w[f][k])
      BY <2>1, <3>1, Zenon
    <3> QED
      BY <1>2, <2>2, <3>2, Zenon
  <2>3. CASE f = d /\ k = i
    <3>1. v[e][j].chunk = n
      BY <1>2, <1>5, <2>3, Zenon
    <3>2. ~(e \in DOMAIN w /\ j \in DOMAIN w[e] /\ v[e][j] = w[e][j])
      BY <2>1, <3>1, Zenon
    <3> QED
      BY <1>2, <2>3, <3>2, Zenon
  <2>4. CASE /\ e \in DOMAIN w /\ j \in DOMAIN w[e] /\ v[e][j] = w[e][j]
             /\ f \in DOMAIN w /\ k \in DOMAIN w[f] /\ v[f][k] = w[f][k]
    <3>1. w[e][j].chunk = w[f][k].chunk
      BY ONLY <1>5, <2>4, Zenon
    <3>2. Once(w)
      OBVIOUS
    <3> QED
      BY ONLY <2>4, <3>1, <3>2, SMT DEF Once
  <2> QED
    BY <1>2, <2>2, <2>3, <2>4, Zenon
<1> QED
  BY <1>3, <1>4, <1>5, Zenon DEF Once

\* An empty directory holds nothing.
LEMMA EmptyDirectory ==
  ASSUME NEW w \in ID, Once(w)
  PROVE  Once(Append(w, << >>)) /\ \A k : Has(Append(w, << >>), k) => Has(w, k)
<1> DEFINE v == Append(w, << >>)
<1>0. << >> \in Seq(Entry) /\ DOMAIN << >> = {}
  BY SMT
<1>1. /\ DOMAIN v = 1 .. Len(w) + 1 /\ v[Len(w) + 1] = << >>
      /\ \A d \in DOMAIN w : v[d] = w[d]
  BY <1>0, NewDirectory, Zenon
<1>2. Len(w) \in Nat /\ DOMAIN w = 1 .. Len(w)
  BY IDIs, Zenon
<1> HIDE DEF v
<1>3. \A d \in DOMAIN v : d \in DOMAIN w \/ d = Len(w) + 1
  BY ONLY <1>1, <1>2, SMT
<1>4. \A d \in DOMAIN v : \A i \in DOMAIN v[d] : d \in DOMAIN w /\ v[d] = w[d]
  BY <1>0, <1>1, <1>3, Zenon
<1>5. \A k : Has(v, k) => Has(w, k)
  BY <1>4, Zenon DEF Has
<1>6. Once(v)
  <2> SUFFICES ASSUME NEW d \in DOMAIN v, NEW e \in DOMAIN v, NEW i \in DOMAIN v[d],
                      NEW j \in DOMAIN v[e], v[d][i].chunk = v[e][j].chunk
               PROVE  d = e /\ i = j
    BY Zenon DEF Once
  <2>1. d \in DOMAIN w /\ v[d] = w[d] /\ e \in DOMAIN w /\ v[e] = w[e]
    BY <1>4, Zenon
  <2>2. i \in DOMAIN w[d] /\ j \in DOMAIN w[e] /\ w[d][i].chunk = w[e][j].chunk
    BY <2>1, Zenon
  <2>3. Once(w)
    OBVIOUS
  <2> QED
    BY ONLY <2>1, <2>2, <2>3, SMT DEF Once
<1> QED
  BY <1>5, <1>6, Zenon DEF v

\* A further entry of the last directory.
LEMMA EntryAdds ==
  ASSUME NEW p \in ID, NEW es \in Seq(Entry), NEW x \in Entry
  PROVE  /\ Append(es, x) \in Seq(Entry)
         /\ Adds(Append(p, es), Append(p, Append(es, x)), x.chunk)
<1> DEFINE fs == Append(es, x)
           w == Append(p, es)
           v == Append(p, fs)
           d == Len(p) + 1
           i == Len(es) + 1
<1>1. /\ fs \in Seq(Entry) /\ Len(fs) = i /\ fs[i] = x /\ \A j \in 1 .. Len(es) : fs[j] = es[j]
      /\ Len(es) \in Nat /\ DOMAIN es = 1 .. Len(es) /\ DOMAIN fs = 1 .. i
  BY ONLY es \in Seq(Entry), x \in Entry, AppendProperties, LenProperties, SMT
<1> HIDE DEF fs
<1>2. /\ w \in ID /\ Len(w) = d /\ DOMAIN w = 1 .. d /\ w[d] = es
      /\ v \in ID /\ Len(v) = d /\ DOMAIN v = 1 .. d /\ v[d] = fs
      /\ \A e \in DOMAIN p : w[e] = p[e] /\ v[e] = p[e]
  BY <1>1, NewDirectory, Zenon
<1>3. Len(p) \in Nat /\ DOMAIN p = 1 .. Len(p)
  BY IDIs, Zenon
<1> HIDE DEF w, v
<1>4. /\ d \in DOMAIN v /\ d \in DOMAIN w /\ ~(d < d) /\ d <= d
      /\ \A e \in 1 .. d : e = d \/ (e \in DOMAIN p /\ e < d)
  BY ONLY <1>2, <1>3, SMT
<1>5. /\ i \in DOMAIN fs /\ Len(es) <= Len(fs)
      /\ \A j \in DOMAIN fs : j = i \/ j \in DOMAIN es
      /\ \A j \in DOMAIN es : j \in DOMAIN fs
  BY ONLY <1>1, SMT
<1> HIDE DEF d, i
<1>6. IsPrefixOf(es, fs)
  BY <1>1, <1>5, Zenon DEF IsPrefixOf
<1>7. Continues(w, v)
  <2>1. Len(w) <= Len(v)
    BY <1>2, <1>4, Zenon
  <2>2. ASSUME NEW e \in DOMAIN w PROVE IF e < Len(w) THEN w[e] = v[e] ELSE IsPrefixOf(w[e], v[e])
    <3>1. CASE e = d
      BY <1>2, <1>4, <1>6, <3>1, Zenon
    <3>2. CASE e # d
      BY <1>2, <1>4, <3>2, Zenon
    <3> QED
      BY <3>1, <3>2, Zenon
  <2> QED
    BY <2>1, <2>2, Zenon DEF Continues
<1>8. /\ d \in DOMAIN v /\ i \in DOMAIN v[d] /\ v[d][i].chunk = x.chunk
  BY <1>1, <1>2, <1>4, <1>5, Zenon
<1>9. ASSUME NEW e \in DOMAIN v, NEW j \in DOMAIN v[e]
      PROVE  \/ e = d /\ j = i
             \/ e \in DOMAIN w /\ j \in DOMAIN w[e] /\ v[e][j] = w[e][j]
  <2>1. CASE e = d
    BY <1>1, <1>2, <1>4, <1>5, <2>1, Zenon
  <2>2. CASE e # d
    BY <1>2, <1>4, <2>2, Zenon
  <2> QED
    BY <2>1, <2>2, Zenon
<1>10. Adds(w, v, x.chunk)
  BY <1>7, <1>8, <1>9, Zenon DEF Adds
<1> QED
  BY <1>1, <1>10, Zenon DEF fs, w, v

-----------------------------------------------------------------------------
(***************************************************************************)
(* One log: the invariant                                                  *)
(***************************************************************************)
Sealing == {s \in syncs : s.isFlush}

\* What the open directory continues, and all the log there is.
Base == IF Sealing # {} THEN (CHOOSE s \in Sealing : TRUE).id ELSE IF linked THEN prevID ELSE NoID
Whole == Append(Base, directoryEntries)

Shapes ==
  /\ directoryEntries \in Seq(Entry) /\ prevID \in ID /\ currentID \in ID
  /\ answerID \in [1 .. Len(payload) -> ID]
  /\ \A s \in syncs : s.id \in ID /\ s.id # NoID

IsKnown(a) ==
  \/ a = prevID \/ a = currentID
  \/ \E n \in 1 .. Len(payload) : a = answerID[n]
  \/ \E s \in syncs : a = s.id

\* All the log there is holds each chunk once, and continues every id.
WholeInv ==
  /\ Once(Whole)
  /\ \A a : IsKnown(a) => Continues(a, Whole)
  /\ \A n : Has(Whole, n) => n \in 1 .. Len(payload) /\ n \notin puts
  /\ \A o \in pendingOps : o.handler # NoAppend => Has(Whole, o.handler)

\* Nobody waits for the store when the writer has gone, nor for a sealed directory when
\* the log has failed.
Gone == (~alive => puts = {} /\ syncs = {}) /\ (~isOK => Sealing = {})

\* There is an id that continues all the others, whatever the state of the writer.
Bounded == \E w \in ID : \A a : IsKnown(a) => Continues(a, w)

\* A write in flight holds the chunks of the operations it answers.
SyncInv ==
  \A s \in syncs :
    /\ Once(s.id)
    /\ \A o \in pendingOps : o.handler # NoAppend /\ o.op <= s.op => Has(s.id, o.handler)

\* Newer writes continue older ones and, unless they are superseded, what is published.
OrderInv ==
  /\ \A s, t \in syncs : s.op <= t.op => Continues(s.id, t.id)
  /\ \A s \in syncs : s.op >= lastWriteOp => Continues(Latest, s.id)

Published == \A n \in 1 .. Len(payload) : answerID[n] # NoID => FoundOnce(n, answerID[n])

OneLogInv ==
  /\ Shapes /\ Gone /\ (alive /\ isOK => WholeInv) /\ Bounded /\ SyncInv /\ OrderInv /\ Published

\* One directory is being sealed at most.
LEMMA OneSealed ==
  ASSUME LogInv, NEW s \in syncs, s.isFlush
  PROVE  Sealing = {s} /\ Base = s.id /\ \A t \in syncs \ {s} : ~t.isFlush
<1>1. \A t \in syncs \ {s} : ~t.isFlush
  <2> SUFFICES ASSUME NEW t \in syncs \ {s}, t.isFlush PROVE FALSE
    BY Zenon
  <2>1. t.op < s.op /\ s.op < t.op
    BY Zenon DEF LogInv, FlushIsNewest
  <2>2. s.op \in Nat /\ t.op \in Nat
    BY SMT DEF LogInv, LogTypes
  <2> QED
    BY ONLY <2>1, <2>2, SMT
<1>2. Sealing = {s}
  BY <1>1, Zenon DEF Sealing
<1>3. Base = s.id
  BY <1>2, Zenon DEF Base
<1> QED
  BY <1>1, <1>2, <1>3, Zenon

\* All the log there is is an id, and continues what it is based on.
LEMMA WholeIs ==
  ASSUME Shapes
  PROVE  Base \in ID /\ Whole \in ID /\ Whole # NoID
<1>1. NoID \in ID
  BY SMT DEF NoID, ID
<1>2. Base \in ID
  <2>1. CASE Sealing = {}
    BY <1>1, <2>1, Zenon DEF Base, Shapes
  <2>2. CASE Sealing # {}
    <3>1. (CHOOSE s \in Sealing : TRUE) \in Sealing
      BY <2>2, Zenon
    <3>2. \A s \in Sealing : s.id \in ID
      BY Zenon DEF Shapes, Sealing
    <3> QED
      BY <2>2, <3>1, <3>2, Zenon DEF Base
  <2> QED
    BY <2>1, <2>2, Zenon
<1> QED
  BY <1>2, NewDirectory, Zenon DEF Whole, Shapes

\* t is the write of a directory with the entries given, after base; the directory stays
\* open or an empty one follows it.
IsWrite(t, op, base, entries) ==
  /\ t.op = op /\ t.id = Append(base, entries)
  /\ Whole' = t.id \/ Whole' = Append(t.id, << >>)

\* A write is started: it is of the directory with all its entries, which stays open
\* unless it is sealed, when an empty one takes its place.
LEMMA WriteStarted ==
  ASSUME NEW inFlight, NEW op, NEW entries \in Seq(Entry), NEW links, NEW base,
         \A s \in inFlight : ~s.isFlush, links => base = prevID', ~links => base = NoID,
         StartWrite(inFlight, op, entries, links, prevID')
  PROVE  /\ directoryEntries' \in Seq(Entry)
         /\ \E t : IsWrite(t, op, base, entries) /\ syncs' = inFlight \cup {t}
<1> DEFINE isFlush == Len(entries) + (IF links THEN 2 ELSE 0) >= maxEntries
           t == [op |-> op, isFlush |-> isFlush, id |-> CASTree(entries, links, prevID')]
<1>1. /\ syncs' = inFlight \cup {t}
      /\ directoryEntries' = IF isFlush THEN << >> ELSE entries
      /\ linked' = (links /\ ~isFlush)
  BY Zenon DEF StartWrite
<1>2. t.op = op /\ t.id = CASTree(entries, links, prevID') /\ t.isFlush = isFlush
  BY Zenon
<1>3. CASTree(entries, links, prevID') = Append(base, entries)
  <2>1. << entries >> = Append(NoID, entries)
    BY SMT DEF NoID
  <2> QED
    BY <2>1, Zenon DEF CASTree
<1>4. << >> \in Seq(Entry)
  BY SMT
<1> HIDE DEF t, isFlush
<1>5. CASE isFlush
  <2>1. Sealing' = {t}
    <3>1. t.isFlush
      BY <1>2, <1>5, Zenon
    <3> QED
      BY <1>1, <3>1, Zenon DEF Sealing
  <2>2. Base' = t.id
    BY <2>1, Zenon DEF Base
  <2>3. directoryEntries' = << >>
    BY <1>1, <1>5, Zenon
  <2>4. Whole' = Append(t.id, << >>)
    BY <2>2, <2>3, Zenon DEF Whole
  <2> QED
    BY <1>1, <1>2, <1>3, <1>4, <2>3, <2>4, Zenon DEF IsWrite
<1>6. CASE ~isFlush
  <2>1. Sealing' = {}
    <3>1. ~t.isFlush
      BY <1>2, <1>6, Zenon
    <3> QED
      BY <1>1, <3>1, Zenon DEF Sealing
  <2>2. Base' = base
    <3>1. linked' <=> links
      BY <1>1, <1>6, Zenon
    <3> QED
      BY <2>1, <3>1, Zenon DEF Base
  <2>3. directoryEntries' = entries
    BY <1>1, <1>6, Zenon
  <2>4. Whole' = t.id
    BY <1>2, <1>3, <2>2, <2>3, Zenon DEF Whole
  <2> QED
    BY <1>1, <1>2, <1>3, <2>3, <2>4, Zenon DEF IsWrite
<1> QED
  BY <1>5, <1>6, Zenon

\* A new write holds all the log there is, perhaps with one more chunk, and is newer than
\* the others: what held of the log holds of the new one.
LEMMA NewWrite ==
  ASSUME LogInv, OneLogInv, WholeInv, NEW others \in SUBSET syncs, NEW t, NEW new,
         t.op = writeOpCount + 1, syncs' = others \cup {t},
         t.id \in ID, Continues(Whole, t.id), Once(t.id),
         \A n : Has(t.id, n) => n \in 1 .. Len(payload) /\ n \notin puts',
         \A o \in pendingOps' : o.handler # NoAppend => Has(t.id, o.handler),
         Whole' = t.id \/ Whole' = Append(t.id, << >>),
         UNCHANGED <<payload, answerID>>,
         prevID' = prevID \/ \E s \in syncs : prevID' = s.id,
         currentID' = currentID \/ currentID' = NoID,
         pendingOps' = pendingOps \cup {new}, new.op = writeOpCount + 1,
         \A s \in others : s.op >= lastWriteOp' => Continues(Latest', s.id)
  PROVE  WholeInv' /\ Bounded' /\ SyncInv' /\ OrderInv'
<1> DEFINE id == t.id
<1>0. Whole \in ID /\ << >> \in Seq(Entry) /\ Shapes
  <2>1. << >> \in Seq(Entry)
    BY SMT
  <2> QED
    BY <2>1, WholeIs, Zenon DEF OneLogInv
<1>1. \A a : IsKnown(a) => a \in ID /\ Continues(a, id)
  <2> SUFFICES ASSUME NEW a, IsKnown(a) PROVE a \in ID /\ Continues(a, id)
    BY Zenon
  <2>1. a \in ID
    BY <1>0, Zenon DEF IsKnown, Shapes
  <2>2. Continues(a, Whole)
    BY Zenon DEF WholeInv
  <2> QED
    BY <1>0, <2>1, <2>2, ContinuesOn, Zenon
<1>2. IsKnown(prevID) /\ IsKnown(currentID) /\ IsKnown(Latest) /\ \A s \in syncs : IsKnown(s.id)
  BY Zenon DEF IsKnown, Latest
<1>3. NoID \in ID /\ Continues(NoID, id) /\ Continues(id, id)
  <2>1. NoID \in ID
    BY SMT DEF NoID, ID
  <2> QED
    BY <2>1, ContinuesSelf, Zenon
<1>4. \A a : IsKnown(a)' => a \in ID /\ Continues(a, id)
  <2> SUFFICES ASSUME NEW a, IsKnown(a)' PROVE a \in ID /\ Continues(a, id)
    BY Zenon
  <2>1. a = prevID' \/ a = currentID' \/ (\E n \in 1 .. Len(payload) : a = answerID[n])
          \/ \E s \in others \cup {t} : a = s.id
    BY Zenon DEF IsKnown
  <2>2. IsKnown(a) \/ a = NoID \/ a = id
    BY <2>1, Zenon DEF IsKnown
  <2> QED
    BY <1>1, <1>3, <2>2, Zenon
<1>5. Bounded'
  BY <1>4, Zenon DEF Bounded
<1>6. WholeInv'
  <2>1. CASE Whole' = id
    BY <1>4, <2>1, Zenon DEF WholeInv
  <2>2. CASE Whole' = Append(id, << >>)
    <3> DEFINE v == Append(id, << >>)
    <3>1. v \in ID /\ Continues(id, v) /\ Once(v) /\ \A k : Has(v, k) => Has(id, k)
      BY <1>0, NewDirectory, EmptyDirectory, Zenon
    <3>2. \A k : Has(id, k) => Has(v, k)
      BY <3>1, ContinuesHas, Zenon
    <3>3. \A a : IsKnown(a)' => Continues(a, v)
      BY <1>4, <3>1, ContinuesOn, Zenon
    <3> HIDE DEF v
    <3>4. Whole' = v
      BY <2>2, Zenon DEF v
    <3> QED
      BY <3>1, <3>2, <3>3, <3>4, Zenon DEF WholeInv
  <2> QED
    BY <2>1, <2>2, Zenon
<1>7. \A s \in others : s.op \in Nat /\ s.op < t.op /\ ~(t.op <= s.op) /\ ~(new.op <= s.op)
  BY SMT DEF LogInv, LogTypes
<1>8. SyncInv'
  <2>1. ASSUME NEW s \in others
        PROVE  /\ Once(s.id)
               /\ \A o \in pendingOps' : o.handler # NoAppend /\ o.op <= s.op => Has(s.id, o.handler)
    BY <1>7, <2>1, Zenon DEF OneLogInv, SyncInv
  <2> QED
    BY <2>1, Zenon DEF SyncInv
<1>9. OrderInv'
  <2>1. ASSUME NEW s \in others \cup {t}, NEW u \in others \cup {t}, s.op <= u.op
        PROVE  Continues(s.id, u.id)
    <3>1. CASE u = t
      <4>1. s = t \/ IsKnown(s.id)
        BY <1>2, Zenon
      <4> QED
        BY <1>1, <1>3, <3>1, <4>1, Zenon
    <3>2. CASE u # t
      <4>1. s \in others /\ u \in others
        BY <1>7, <2>1, <3>2, Zenon
      <4> QED
        BY <2>1, <4>1, Zenon DEF OneLogInv, OrderInv
    <3> QED
      BY <3>1, <3>2, Zenon
  <2>2. Continues(Latest', id)
    <3>1. Latest' = currentID' \/ Latest' = prevID'
      BY Zenon DEF Latest
    <3>2. \A a : a = currentID' \/ a = prevID' => Continues(a, id)
      BY <1>4, Zenon DEF IsKnown
    <3> QED
      BY <3>1, <3>2, Zenon
  <2> QED
    BY <2>1, <2>2, Zenon DEF OrderInv
<1> QED
  BY <1>5, <1>6, <1>8, <1>9, Zenon

\* A step that makes no new id.
LEMMA NothingNew ==
  ASSUME OneLogInv, Shapes', Gone', Published', syncs' \subseteq syncs,
         pendingOps' \subseteq pendingOps,
         \A a : IsKnown(a)' => IsKnown(a) \/ a = NoID,
         alive' /\ isOK' => /\ alive /\ isOK /\ Whole' = Whole
                            /\ \A n \in 1 .. Len(payload) : n \notin puts =>
                                 n \in 1 .. Len(payload') /\ n \notin puts',
         \A s \in syncs' : s.op >= lastWriteOp' => Continues(Latest', s.id)
  PROVE  OneLogInv'
<1>1. \A w \in ID : Continues(NoID, w)
  BY ContinuesSelf, Zenon
<1>2. Bounded'
  BY <1>1, Zenon DEF OneLogInv, Bounded
<1>3. ASSUME alive', isOK' PROVE WholeInv'
  <2>1. WholeInv /\ Whole' = Whole /\ Whole \in ID
    BY <1>3, WholeIs, Zenon DEF OneLogInv
  <2> QED
    BY <1>1, <1>3, <2>1, Zenon DEF WholeInv
<1>4. SyncInv' /\ OrderInv'
  BY Zenon DEF OneLogInv, SyncInv, OrderInv
<1> QED
  BY <1>2, <1>3, <1>4, Zenon DEF OneLogInv

\* What the log is depends on four variables.
LEMMA SameWhole ==
  ASSUME UNCHANGED <<syncs, linked, prevID, directoryEntries>>
  PROVE  Sealing' = Sealing /\ Whole' = Whole
<1>1. Sealing' = Sealing
  BY Zenon DEF Sealing
<1>2. (CHOOSE s \in Sealing' : TRUE) = (CHOOSE s \in Sealing : TRUE)
  BY <1>1
<1>3. Base' = Base
  BY <1>1, <1>2, Zenon DEF Base
<1> QED
  BY <1>1, <1>3, Zenon DEF Whole

\* append() tells nobody an id.
LEMMA AppendKeepsOneLog ==
  ASSUME LogInv, OneLogInv, alive, NEW ps \in Seq(Seq(Nat)), Append_(ps),
         UNCHANGED <<stateVars, bufferVars, syncs, isOK, pendingOps, alive>>
  PROVE  OneLogInv'
<1>1. UNCHANGED <<currentID, prevID, lastWriteOp, directoryEntries, linked, syncs, isOK,
                  pendingOps, alive>>
  BY Zenon DEF stateVars, bufferVars
<1>2. /\ Len(payload) \in Nat /\ Len(payload') \in Nat /\ Len(payload) <= Len(payload')
      /\ puts' \subseteq 1 .. Len(payload')
      /\ \A k \in puts' : k \in puts \/ k \notin 1 .. Len(payload)
  BY Appended, Zenon DEF LogInv
<1>3. \A k \in 1 .. Len(payload) : k \in 1 .. Len(payload')
  BY ONLY <1>2, SMT
<1>4. /\ answerID' \in [1 .. Len(payload') -> ID]
      /\ \A k \in 1 .. Len(payload) : answerID'[k] = answerID[k]
      /\ \A k \in 1 .. Len(payload') : k \in 1 .. Len(payload) \/ answerID'[k] = NoID
  <2> DEFINE none == [i \in DOMAIN ps |-> NoID]
             n == Len(payload)
             m == Len(ps)
  <2>1. answerID' = answerID \o none /\ payload' = payload \o ps
    BY Zenon DEF Append_
  <2>2. NoID \in ID /\ DOMAIN ps = 1 .. m /\ m \in Nat /\ Len(payload') = n + m
    <3>1. NoID \in ID
      BY SMT DEF NoID, ID
    <3> QED
      BY <2>1, <3>1, LenProperties, ConcatProperties, Zenon DEF LogInv, LogTypes
  <2>3. none \in [1 .. m -> ID] /\ \A i \in 1 .. m : none[i] = NoID
    BY <2>2, Zenon
  <2> HIDE DEF none, n, m
  <2>4. answerID \in [1 .. n -> ID] /\ n \in Nat
    BY <1>2, Zenon DEF OneLogInv, Shapes, n
  <2>5. answerID \in Seq(ID) /\ Len(answerID) = n /\ none \in Seq(ID) /\ Len(none) = m
    BY ONLY <2>2, <2>3, <2>4, SequenceOf, Zenon
  <2>6. /\ answerID \o none \in Seq(ID) /\ Len(answerID \o none) = Len(answerID) + Len(none)
        /\ \A k \in 1 .. Len(answerID) : (answerID \o none)[k] = answerID[k]
        /\ \A i \in 1 .. Len(none) : (answerID \o none)[Len(answerID) + i] = none[i]
    <3>1. answerID \in Seq(ID) /\ none \in Seq(ID)
      BY ONLY <2>5, Zenon
    <3> QED
      BY ONLY <3>1, Concatenated, SMT
  <2>7. /\ answerID' \in Seq(ID) /\ Len(answerID') = n + m
        /\ \A k \in 1 .. n : answerID'[k] = answerID[k]
        /\ \A i \in 1 .. m : answerID'[n + i] = NoID
    BY ONLY <2>1, <2>3, <2>5, <2>6, Zenon
  <2>8. \A k \in 1 .. n + m : k \in 1 .. n \/ \E i \in 1 .. m : k = n + i
    BY ONLY <2>2, <2>4, SMT
  <2>9. answerID' \in [1 .. n + m -> ID]
    <3>1. answerID' \in [1 .. Len(answerID') -> ID]
      BY ONLY <2>7, LenProperties, Zenon
    <3> QED
      BY ONLY <2>7, <3>1, Zenon
  <2>10. \A k \in 1 .. n + m : k \in 1 .. n \/ answerID'[k] = NoID
    BY ONLY <2>7, <2>8, Zenon
  <2> QED
    BY <2>2, <2>7, <2>9, <2>10, Zenon DEF n
<1>5. Shapes' /\ Gone'
  <2>1. Shapes'
    BY <1>1, <1>4, Zenon DEF OneLogInv, Shapes
  <2>2. Sealing' = Sealing /\ alive' = alive /\ isOK' = isOK
    BY <1>1, Zenon DEF Sealing
  <2>3. alive' /\ (~isOK' => ~isOK)
    BY ONLY alive, <2>2, Zenon
  <2> QED
    BY <2>1, <2>2, <2>3, Zenon DEF OneLogInv, Gone
<1>6. Published'
  BY <1>4, Zenon DEF OneLogInv, Published
<1>7. \A a : IsKnown(a)' => IsKnown(a) \/ a = NoID
  BY <1>1, <1>4, Zenon DEF IsKnown
<1>8. Whole' = Whole /\ Latest' = Latest
  BY <1>1, SameWhole, Zenon DEF Latest
<1>9. alive' /\ isOK' => alive /\ isOK
  <2>1. alive' = alive /\ isOK' = isOK
    BY <1>1, Zenon
  <2> QED
    BY ONLY <2>1, Zenon
<1> QED
  BY <1>1, <1>2, <1>3, <1>5, <1>6, <1>7, <1>8, <1>9, NothingNew, Zenon DEF OneLogInv, OrderInv

\* postChunk, when nothing is added to the log; and the end of the writer.
LEMMA IgnoredKeepsOneLog ==
  ASSUME LogInv, OneLogInv,
         \/ Destroy
         \/ \E n \in puts, ok \in BOOLEAN : PutIgnored(n, ok) /\ puts' = puts \ {n}
                                              /\ UNCHANGED <<streamVars, isOK, alive>>
         \/ UNCHANGED vars
  PROVE  OneLogInv'
<1>1. /\ UNCHANGED <<currentID, prevID, lastWriteOp, directoryEntries, linked, isOK, pendingOps,
                     payload, answerID>>
      /\ syncs' \subseteq syncs /\ puts' \subseteq puts
      /\ (alive' = FALSE /\ puts' = {} /\ syncs' = {}) \/ (alive' = alive /\ syncs' = syncs)
  BY Zenon DEF Destroy, PutIgnored, vars, streamVars, handlerVars, stateVars, bufferVars
<1>2. alive' => alive /\ syncs' = syncs
  BY <1>1, Zenon
<1>3. isOK' => isOK
  <2>1. isOK' = isOK
    BY <1>1, Zenon
  <2> QED
    BY ONLY <2>1, Zenon
<1>4. Shapes'
  BY <1>1, Zenon DEF OneLogInv, Shapes
<1>5. Gone'
  <2>1. ~isOK' => ~isOK
    <3>1. isOK' = isOK
      BY <1>1, Zenon
    <3> QED
      BY ONLY <3>1, Zenon
  <2>2. ~alive' => puts' = {} /\ syncs' = {}
    <3>1. CASE alive' = FALSE /\ puts' = {} /\ syncs' = {}
      BY <3>1, Zenon
    <3>2. CASE alive' = alive /\ syncs' = syncs
      <4>1. ~alive' => ~alive
        BY ONLY <3>2, Zenon
      <4>2. ~alive => puts = {} /\ syncs = {}
        BY Zenon DEF OneLogInv, Gone
      <4> QED
        BY <1>1, <3>2, <4>1, <4>2, Zenon
    <3> QED
      BY <1>1, <3>1, <3>2, Zenon
  <2>3. ~isOK => Sealing' = {}
    BY <1>1, Zenon DEF OneLogInv, Gone, Sealing
  <2> QED
    BY <2>1, <2>2, <2>3, Zenon DEF Gone
<1>6. Published'
  BY <1>1, Zenon DEF OneLogInv, Published
<1>7. \A a : IsKnown(a)' => IsKnown(a)
  BY <1>1, Zenon DEF IsKnown
<1>8. alive' => Whole' = Whole
  BY <1>1, <1>2, SameWhole, Zenon
<1>9. \A s \in syncs' : s.op >= lastWriteOp' => Continues(Latest', s.id)
  BY <1>1, Zenon DEF OneLogInv, OrderInv, Latest
<1> QED
  BY <1>1, <1>2, <1>3, <1>4, <1>5, <1>6, <1>7, <1>8, <1>9, NothingNew, Zenon

\* What is found, and nothing is found twice, is found once.
LEMMA OnceFound ==
  ASSUME NEW id, Once(id), NEW n, Has(id, n)
  PROVE  FoundOnce(n, id)
<1>0. PICK d \in DOMAIN id : \E i \in DOMAIN id[d] : id[d][i].chunk = n
  BY Zenon DEF Has
<1>1. PICK i \in DOMAIN id[d] : id[d][i].chunk = n
  BY <1>0, Zenon
<1>2. ASSUME NEW e \in DOMAIN id, NEW j \in DOMAIN id[e], id[e][j].chunk = n
      PROVE  e = d /\ j = i
  <2>1. id[e][j].chunk = id[d][i].chunk
    BY <1>1, <1>2, Zenon
  <2> QED
    BY ONLY <2>1, Once(id), SMT DEF Once
<1>3. \A e \in DOMAIN id : \A j \in DOMAIN id[e] : id[e][j].chunk = n <=> e = d /\ j = i
  BY <1>1, <1>2, Zenon
<1> QED
  BY <1>3, Zenon DEF FoundOnce

\* The answer to a write that seals nothing: what is published is its directory.
LEMMA PostWriteKeepsOneLog ==
  ASSUME LogInv, OneLogInv, NEW s \in syncs, NEW ok, PostWrite(s, ok),
         UNCHANGED <<streamVars, puts, alive>>
  PROVE  OneLogInv' /\ Continues(Latest, Latest')
<1>1. /\ UNCHANGED <<prevID, directoryEntries, linked, isOK, alive, payload, puts>>
      /\ syncs' = syncs \ {s} /\ ~s.isFlush
  BY Zenon DEF PostWrite, WriteSuperseded, WriteStalled, WritePublished, stateVars, bufferVars,
               streamVars
<1>2. (isOK' => isOK) /\ (~isOK' => ~isOK) /\ alive' /\ alive
  <2>1. isOK' = isOK /\ alive' = alive
    BY <1>1, Zenon
  <2>2. alive
    BY Zenon DEF OneLogInv, Gone
  <2> QED
    BY ONLY <2>1, <2>2, Zenon
<1>3. Sealing' = Sealing /\ Whole' = Whole
  <2>1. Sealing' = Sealing
    BY <1>1, Zenon DEF Sealing
  <2>2. (CHOOSE t \in Sealing' : TRUE) = (CHOOSE t \in Sealing : TRUE)
    BY ONLY <2>1
  <2>3. Base' = Base
    BY <1>1, <2>1, <2>2, Zenon DEF Base
  <2> QED
    BY <1>1, <2>1, <2>3, Zenon DEF Whole
<1>4. Gone'
  BY <1>2, <1>3, Zenon DEF OneLogInv, Gone
<1>5. s.id \in ID /\ s.id # NoID /\ Once(s.id)
  BY Zenon DEF OneLogInv, Shapes, SyncInv
<1>6. Latest \in ID
  BY Zenon DEF OneLogInv, Shapes, Latest
<1>7. ASSUME UNCHANGED <<stateVars, answerID, pendingOps>>
      PROVE  OneLogInv' /\ Continues(Latest, Latest')
  <2>1. UNCHANGED <<currentID, lastWriteOp, answerID, pendingOps>>
    BY <1>7, Zenon DEF stateVars
  <2>2. Shapes' /\ Published'
    BY <1>1, <2>1, Zenon DEF OneLogInv, Shapes, Published
  <2>3. \A a : IsKnown(a)' => IsKnown(a)
    BY <1>1, <2>1, Zenon DEF IsKnown
  <2>4. Latest' = Latest
    BY <1>1, <2>1, Zenon DEF Latest
  <2>5. \A t \in syncs' : t.op >= lastWriteOp' => Continues(Latest', t.id)
    BY <1>1, <2>1, <2>4, Zenon DEF OneLogInv, OrderInv
  <2>6. OneLogInv'
    BY <1>1, <1>2, <1>3, <1>4, <2>1, <2>2, <2>3, <2>5, NothingNew, Zenon
  <2> QED
    BY <1>6, <2>4, <2>6, ContinuesSelf, Zenon
<1>8. CASE WritePublished(s, ok)
  <2> DEFINE done == {o \in pendingOps : o.op <= s.op}
  <2>1. /\ ~Superseded(s) /\ currentID' = s.id /\ lastWriteOp' = s.op
        /\ answerID' = [n \in DOMAIN answerID |->
                          IF n \in Handlers(done) THEN s.id ELSE answerID[n]]
        /\ pendingOps' \subseteq pendingOps
    BY <1>8, Zenon DEF WritePublished, StillPending
  <2>2. \A n \in Handlers(done) : Has(s.id, n)
    BY Zenon DEF Handlers, OneLogInv, SyncInv
  <2> HIDE DEF done
  <2>3. answerID \in [1 .. Len(payload) -> ID] /\ DOMAIN answerID = 1 .. Len(payload)
    BY Zenon DEF OneLogInv, Shapes
  <2>4. \A n \in 1 .. Len(payload) :
          \/ answerID'[n] = answerID[n]
          \/ answerID'[n] = s.id /\ Has(s.id, n)
    BY <2>1, <2>2, <2>3, Zenon
  <2>5. answerID' \in [1 .. Len(payload') -> ID]
    <3>1. \A n \in 1 .. Len(payload) : answerID'[n] \in ID
      BY <1>5, <2>3, <2>4, Zenon
    <3> QED
      BY <1>1, <2>1, <2>3, <3>1, Zenon
  <2>6. Shapes'
    BY <1>1, <1>5, <2>1, <2>5, Zenon DEF OneLogInv, Shapes
  <2>7. \A n : Has(s.id, n) => FoundOnce(n, s.id)
    BY <1>5, OnceFound, Zenon
  <2>8. Published'
    BY <1>1, <2>4, <2>7, Zenon DEF OneLogInv, Published
  <2>9. \A a : IsKnown(a)' => IsKnown(a)
    BY <1>1, <2>1, <2>4, Zenon DEF IsKnown
  <2>10. Latest' = s.id
    BY <1>5, <2>1, Zenon DEF Latest
  <2>11. s.op >= lastWriteOp
    <3>1. s.op \in Nat /\ lastWriteOp \in Nat
      BY SMT DEF LogInv, LogTypes
    <3> QED
      BY ONLY <2>1, <3>1, SMT DEF Superseded
  <2>12. \A t \in syncs' : t.op >= lastWriteOp' => Continues(Latest', t.id)
    <3>1. \A t \in syncs : t.op >= s.op => s.op <= t.op
      BY SMT DEF LogInv, LogTypes
    <3> QED
      BY <1>1, <2>1, <2>10, <3>1, Zenon DEF OneLogInv, OrderInv
  <2>13. OneLogInv'
    BY <1>1, <1>2, <1>3, <1>4, <2>1, <2>6, <2>8, <2>9, <2>12, NothingNew, Zenon
  <2> QED
    BY <2>10, <2>11, <2>13, Zenon DEF OneLogInv, OrderInv
<1>9. CASE WriteSuperseded(s) \/ WriteStalled(s, ok)
  <2>1. UNCHANGED <<stateVars, answerID, pendingOps>>
    BY <1>9, Zenon DEF WriteSuperseded, WriteStalled, handlerVars
  <2> QED
    BY <1>7, <2>1, Zenon
<1> QED
  BY <1>8, <1>9, Zenon DEF PostWrite

\* A directory could not be sealed: the log has failed.
LEMMA FlushFailedKeepsOneLog ==
  ASSUME LogInv, OneLogInv, NEW s \in syncs, NEW ok, FlushFailed(s, ok),
         UNCHANGED <<streamVars, puts, alive>>
  PROVE  OneLogInv' /\ Continues(Latest, Latest')
<1>1. /\ UNCHANGED <<prevID, currentID, lastWriteOp, alive, payload, answerID, puts>>
      /\ syncs' = syncs \ {s} /\ s.isFlush /\ ~isOK' /\ directoryEntries' = << >>
      /\ pendingOps' = {}
  BY Zenon DEF FlushFailed, stateVars, streamVars
<1>2. alive'
  <2>1. alive' = alive /\ alive
    BY <1>1, Zenon DEF OneLogInv, Gone
  <2> QED
    BY ONLY <2>1, Zenon
<1>3. Sealing' = {}
  BY <1>1, OneSealed, Zenon DEF Sealing
<1>4. Gone'
  BY <1>2, <1>3, Zenon DEF Gone
<1>5. << >> \in Seq(Entry)
  BY SMT
<1>6. Shapes' /\ Published'
  BY <1>1, <1>5, Zenon DEF OneLogInv, Shapes, Published
<1>7. \A a : IsKnown(a)' => IsKnown(a)
  BY <1>1, Zenon DEF IsKnown
<1>8. Latest' = Latest /\ Latest \in ID
  BY <1>1, Zenon DEF Latest, OneLogInv, Shapes
<1>9. \A t \in syncs' : t.op >= lastWriteOp' => Continues(Latest', t.id)
  BY <1>1, <1>8, Zenon DEF OneLogInv, OrderInv
<1>10. OneLogInv'
  BY <1>1, <1>4, <1>6, <1>7, <1>9, NothingNew, Zenon
<1> QED
  BY <1>8, <1>10, ContinuesSelf, Zenon

\* A directory is sealed: the next one is empty, or holds what came in the meantime and
\* is written at once.
LEMMA FlushDoneKeepsOneLog ==
  ASSUME LogInv, OneLogInv, NEW s \in syncs, NEW ok, FlushDone(s, ok),
         UNCHANGED <<streamVars, puts, alive>>
  PROVE  OneLogInv' /\ Continues(Latest, Latest')
<1> DEFINE others == syncs \ {s}
<1>1. /\ UNCHANGED <<isOK, alive, payload, answerID, puts>>
      /\ s.isFlush /\ lastWriteOp' = s.op /\ currentID' = NoID /\ prevID' = s.id
  BY Zenon DEF FlushDone, streamVars, handlerVars
<1>2. /\ s.id \in ID /\ s.id # NoID /\ NoID \in ID
      /\ directoryEntries \in Seq(Entry)
  <2>1. NoID \in ID
    BY SMT DEF NoID, ID
  <2> QED
    BY <2>1, Zenon DEF OneLogInv, Shapes
<1>3. Sealing = {s} /\ Whole = Append(s.id, directoryEntries) /\ \A t \in others : ~t.isFlush
  BY <1>1, OneSealed, Zenon DEF Whole
<1>4. alive /\ isOK /\ alive' /\ isOK' /\ WholeInv
  <2>1. alive /\ isOK /\ alive' = alive /\ isOK' = isOK
    BY <1>1, <1>3, Zenon DEF OneLogInv, Gone
  <2>2. alive /\ isOK /\ alive' /\ isOK'
    BY ONLY <2>1, Zenon
  <2> QED
    BY <2>2, Zenon DEF OneLogInv
<1>5. Latest' = s.id
  BY <1>1, Zenon DEF Latest
<1>6. Continues(Latest, Latest')
  <2>1. s.op >= lastWriteOp
    BY <1>1, SMT DEF LogInv, LogTypes, FlushIsNewest
  <2> QED
    BY <1>5, <2>1, Zenon DEF OneLogInv, OrderInv
<1>7. \A t \in others : ~(t.op >= lastWriteOp')
  <2>1. \A t \in others : t.op < s.op /\ t.op \in Nat /\ s.op \in Nat
    BY <1>1, SMT DEF LogInv, LogTypes, FlushIsNewest
  <2> QED
    BY ONLY <1>1, <2>1, SMT
<1>8. Published'
  BY <1>1, Zenon DEF OneLogInv, Published
<1>9. CASE directoryEntries = << >>
  <2>1. syncs' = others /\ linked' = TRUE /\ UNCHANGED <<directoryEntries, pendingOps>>
    BY <1>9, Zenon DEF FlushDone
  <2>2. Shapes'
    BY <1>1, <1>2, <2>1, Zenon DEF OneLogInv, Shapes
  <2>3. Sealing' = {}
    BY <1>3, <2>1, Zenon DEF Sealing
  <2>4. Whole' = Whole
    BY <1>1, <1>3, <2>1, <2>3, Zenon DEF Whole, Base
  <2>5. Gone'
    BY <1>4, Zenon DEF Gone
  <2>6. \A a : IsKnown(a)' => IsKnown(a) \/ a = NoID
    BY <1>1, <2>1, Zenon DEF IsKnown
  <2>7. OneLogInv'
    BY <1>1, <1>4, <1>7, <1>8, <2>1, <2>2, <2>4, <2>5, <2>6, NothingNew, Zenon
  <2> QED
    BY <1>6, <2>7, Zenon
<1>10. CASE directoryEntries # << >>
  <2> DEFINE new == [op |-> writeOpCount + 1, handler |-> NoAppend]
  <2>1. /\ pendingOps' = pendingOps \cup {new}
        /\ StartWrite(others, writeOpCount + 1, directoryEntries, TRUE, prevID')
    BY <1>1, <1>10, Zenon DEF FlushDone
  <2>2. new.op = writeOpCount + 1 /\ new.handler = NoAppend
    BY Zenon
  <2> HIDE DEF new
  <2>3. /\ directoryEntries' \in Seq(Entry)
        /\ \E t : /\ IsWrite(t, writeOpCount + 1, s.id, directoryEntries)
                  /\ syncs' = others \cup {t}
    BY <1>1, <1>2, <1>3, <2>1, WriteStarted, Zenon
  <2>4. PICK t : /\ t.op = writeOpCount + 1 /\ t.id = Append(s.id, directoryEntries)
                 /\ syncs' = others \cup {t}
                 /\ Whole' = t.id \/ Whole' = Append(t.id, << >>)
    BY <2>3, Zenon DEF IsWrite
  <2>5. t.id = Whole /\ t.id \in ID /\ t.id # NoID /\ Continues(Whole, t.id) /\ Once(t.id)
    BY <1>3, <1>4, <2>4, WholeIs, ContinuesSelf, Zenon DEF OneLogInv, WholeInv
  <2>6. /\ \A n : Has(t.id, n) => n \in 1 .. Len(payload) /\ n \notin puts'
        /\ \A o \in pendingOps' : o.handler # NoAppend => Has(t.id, o.handler)
    BY <1>1, <1>4, <2>1, <2>2, <2>5, Zenon DEF WholeInv
  <2>7. WholeInv' /\ Bounded' /\ SyncInv' /\ OrderInv'
    <3>1. others \in SUBSET syncs /\ prevID' = s.id /\ currentID' = NoID
      BY <1>1, Zenon
    <3> QED
      BY <1>1, <1>4, <1>7, <2>1, <2>2, <2>4, <2>5, <2>6, <3>1, NewWrite, Zenon
  <2>8. Shapes'
    BY <1>1, <1>2, <2>3, <2>4, <2>5, Zenon DEF OneLogInv, Shapes
  <2>9. Gone'
    BY <1>4, Zenon DEF Gone
  <2> QED
    BY <1>6, <1>8, <2>7, <2>8, <2>9, Zenon DEF OneLogInv
<1> QED
  BY <1>9, <1>10, Zenon

\* A chunk is stored: it joins the log, which is written now or later.
LEMMA PostChunkKeepsOneLog ==
  ASSUME LogInv, OneLogInv, NEW n \in puts, NEW ok, PostChunk(n, ok), puts' = puts \ {n},
         UNCHANGED <<streamVars, isOK, alive>>
  PROVE  OneLogInv'
<1> DEFINE new == [op |-> writeOpCount + 1, handler |-> n]
           x == [name |-> EntryCount, chunk |-> n]
           entries == Append(directoryEntries, x)
           v == Append(Base, entries)
<1>1. /\ UNCHANGED <<isOK, alive, payload, answerID, prevID, currentID, lastWriteOp>>
      /\ isOK /\ pendingOps' = pendingOps \cup {new}
      /\ IF flushPending
           THEN /\ directoryEntries' = entries
                /\ UNCHANGED <<syncs, linked>>
           ELSE StartWrite(syncs, writeOpCount + 1, entries, linked, prevID)
  BY Zenon DEF PostChunk, streamVars, handlerVars, stateVars
<1>2. new.op = writeOpCount + 1 /\ new.handler = n /\ x.chunk = n
  BY Zenon
<1>3. n \in 1 .. Len(payload) /\ Len(payload) \in Nat /\ n \in Nat
  <2>1. n \in 1 .. Len(payload) /\ Len(payload) \in Nat
    BY LenProperties, Zenon DEF LogInv, LogTypes
  <2> QED
    BY ONLY <2>1, SMT
<1>4. x \in Entry
  <2>1. EntryCount \in Nat
    <3>1. Len(directoryEntries) \in Nat
      BY LenProperties, Zenon DEF OneLogInv, Shapes
    <3> QED
      BY ONLY <3>1, SMT DEF EntryCount
  <2> QED
    BY <1>3, <2>1, Zenon DEF Entry
<1> HIDE DEF new, x
<1>5. alive /\ isOK /\ alive' /\ isOK' /\ WholeInv
  <2>1. alive /\ isOK /\ alive' = alive /\ isOK' = isOK
    BY <1>1, Zenon DEF OneLogInv, Gone
  <2>2. alive /\ isOK /\ alive' /\ isOK'
    BY ONLY <2>1, Zenon
  <2> QED
    BY <2>2, Zenon DEF OneLogInv
<1>6. Base \in ID /\ Whole \in ID /\ directoryEntries \in Seq(Entry) /\ Whole = Append(Base, directoryEntries)
  BY WholeIs, Zenon DEF OneLogInv, Shapes, Whole
<1>7. entries \in Seq(Entry) /\ Adds(Whole, v, n)
  BY <1>2, <1>4, <1>6, EntryAdds, Zenon
<1>8. v \in ID /\ v # NoID
  BY <1>6, <1>7, NewDirectory, Zenon
<1> HIDE DEF v, entries
<1>9. Continues(Whole, v)
  BY <1>7, Zenon DEF Adds
<1>10. Once(v) /\ Has(v, n) /\ \A k : Has(v, k) => k = n \/ Has(Whole, k)
  BY <1>5, <1>6, <1>7, <1>8, AddsOne, Zenon DEF WholeInv
<1>11. \A k : Has(v, k) => k \in 1 .. Len(payload) /\ k \notin puts'
  BY <1>3, <1>5, <1>10, Zenon DEF WholeInv
<1>12. \A o \in pendingOps' : o.handler # NoAppend => Has(v, o.handler)
  BY <1>1, <1>2, <1>5, <1>6, <1>8, <1>9, <1>10, ContinuesHas, Zenon DEF WholeInv
<1>13. Published' /\ Gone' 
  BY <1>1, <1>5, Zenon DEF OneLogInv, Published, Gone
<1>14. CASE flushPending
  <2>1. directoryEntries' = entries /\ UNCHANGED <<syncs, linked>>
    BY <1>1, <1>14, Zenon
  <2>2. Whole' = v
    <3>1. Sealing' = Sealing
      BY <2>1, Zenon DEF Sealing
    <3>2. (CHOOSE s \in Sealing' : TRUE) = (CHOOSE s \in Sealing : TRUE)
      BY ONLY <3>1
    <3>3. Base' = Base
      BY <1>1, <2>1, <3>1, <3>2, Zenon DEF Base
    <3> QED
      BY <2>1, <3>3, Zenon DEF Whole, v
  <2>3. \A a : IsKnown(a)' <=> IsKnown(a)
    BY <1>1, <2>1, Zenon DEF IsKnown
  <2>4. \A a : IsKnown(a) => a \in ID
    BY Zenon DEF IsKnown, OneLogInv, Shapes
  <2>5. WholeInv'
    <3>1. \A a : IsKnown(a) => Continues(a, v)
      BY <1>5, <1>6, <1>8, <1>9, <2>4, ContinuesOn, Zenon DEF WholeInv
    <3> QED
      BY <1>1, <1>10, <1>11, <1>12, <2>2, <2>3, <3>1, Zenon DEF WholeInv
  <2>6. Shapes' /\ Bounded'
    BY <1>1, <1>7, <2>1, <2>3, Zenon DEF OneLogInv, Shapes, Bounded
  <2>7. SyncInv'
    <3>1. \A s \in syncs : ~(writeOpCount + 1 <= s.op)
      BY SMT DEF LogInv, LogTypes
    <3> QED
      BY <1>1, <1>2, <2>1, <3>1, Zenon DEF OneLogInv, SyncInv
  <2>8. OrderInv'
    BY <1>1, <2>1, Zenon DEF OneLogInv, OrderInv, Latest
  <2> QED
    BY <1>13, <2>5, <2>6, <2>7, <2>8, Zenon DEF OneLogInv
<1>15. CASE ~flushPending
  <2>1. StartWrite(syncs, writeOpCount + 1, entries, linked, prevID')
    BY <1>1, <1>15, Zenon
  <2>2. \A s \in syncs : ~s.isFlush
    BY <1>15, Zenon DEF LogInv, FlushIsNewest
  <2>3. (linked => Base = prevID') /\ (~linked => Base = NoID)
    BY <1>1, <2>2, Zenon DEF Base, Sealing
  <2>4. /\ directoryEntries' \in Seq(Entry)
        /\ \E t : /\ IsWrite(t, writeOpCount + 1, Base, entries)
                  /\ syncs' = syncs \cup {t}
    BY <1>7, <2>1, <2>2, <2>3, WriteStarted, Zenon
  <2>5. PICK t : /\ t.op = writeOpCount + 1 /\ t.id = Append(Base, entries)
                 /\ syncs' = syncs \cup {t}
                 /\ Whole' = t.id \/ Whole' = Append(t.id, << >>)
    BY <2>4, Zenon DEF IsWrite
  <2>6. t.id = v
    BY <2>5, Zenon DEF v
  <2>7. \A s \in syncs : s.op >= lastWriteOp' => Continues(Latest', s.id)
    BY <1>1, Zenon DEF OneLogInv, OrderInv, Latest
  <2>8. WholeInv' /\ Bounded' /\ SyncInv' /\ OrderInv'
    <3>1. syncs \in SUBSET syncs
      BY Zenon
    <3> QED
      BY <1>1, <1>2, <1>5, <1>8, <1>9, <1>10, <1>11, <1>12, <2>5, <2>6, <2>7, <3>1, NewWrite, Zenon
  <2>9. Shapes'
    BY <1>1, <1>8, <2>4, <2>5, <2>6, Zenon DEF OneLogInv, Shapes
  <2> QED
    BY <1>13, <2>8, <2>9, Zenon DEF OneLogInv
<1> QED
  BY <1>14, <1>15, Zenon

\* Before anything is written there is one empty directory.
LEMMA InitIsOneLog == Init => OneLogInv
<1> SUFFICES ASSUME Init PROVE OneLogInv
  BY Zenon
<1>1. /\ payload = << >> /\ answerID = << >> /\ puts = {} /\ syncs = {} /\ pendingOps = {}
      /\ currentID = NoID /\ prevID = NoID /\ directoryEntries = << >> /\ alive = TRUE
  BY Zenon DEF Init
<1>2. << >> \in Seq(Entry) /\ NoID \in ID /\ 1 .. Len(payload) = {}
  <2>1. << >> \in Seq(Entry) /\ NoID \in ID
    BY SMT DEF NoID, ID
  <2>2. 1 .. Len(payload) = {}
    BY ONLY <1>1, SMT
  <2> QED
    BY <2>1, <2>2, Zenon
<1>3. answerID \in [1 .. Len(payload) -> ID]
  BY ONLY <1>1, SMT
<1>4. Shapes
  BY <1>1, <1>2, <1>3, Zenon DEF Shapes
<1>5. Gone
  BY <1>1, Zenon DEF Gone, Sealing
<1>6. \A a : IsKnown(a) => a = NoID
  BY <1>1, <1>2, Zenon DEF IsKnown
<1>7. Whole = Append(NoID, << >>)
  BY <1>1, Zenon DEF Whole, Base, Sealing
<1>8. /\ Whole \in ID /\ Once(Whole) /\ (\A n : ~Has(Whole, n)) /\ Continues(NoID, Whole)
      /\ Continues(NoID, NoID)
  <2>1. DOMAIN NoID = {}
    BY SMT DEF NoID
  <2>2. Once(NoID) /\ \A n : ~Has(NoID, n)
    BY <2>1, Zenon DEF Once, Has
  <2>3. Whole \in ID
    BY <1>4, WholeIs, Zenon
  <2> QED
    BY <1>2, <1>7, <2>2, <2>3, EmptyDirectory, ContinuesSelf, Zenon
<1>9. WholeInv
  BY <1>1, <1>6, <1>8, Zenon DEF WholeInv
<1>10. Bounded
  BY <1>2, <1>6, <1>8, Zenon DEF Bounded
<1>11. SyncInv /\ OrderInv /\ Published
  BY <1>1, <1>2, Zenon DEF SyncInv, OrderInv, Published
<1> QED
  BY <1>4, <1>5, <1>9, <1>10, <1>11, Zenon DEF OneLogInv

\* Every step keeps the log one, and what getLatestID returns goes on from what it was.
LEMMA NextKeepsOneLog ==
  LogInv /\ OneLogInv /\ [Next]_vars => OneLogInv' /\ Continues(Latest, Latest')
<1> SUFFICES ASSUME LogInv, OneLogInv, [Next]_vars PROVE OneLogInv' /\ Continues(Latest, Latest')
  BY Zenon
<1>1. ASSUME UNCHANGED <<currentID, prevID>> PROVE Continues(Latest, Latest')
  <2>1. Latest' = Latest /\ Latest \in ID
    BY <1>1, Zenon DEF Latest, OneLogInv, Shapes
  <2> QED
    BY <2>1, ContinuesSelf, Zenon
<1>2. ASSUME NEW size \in WriteSizes, NEW channel \in Channels, Write(size, channel)
      PROVE OneLogInv' /\ Continues(Latest, Latest')
  <2>1. PICK ps \in Seq(Seq(Nat)) : Append_(ps)
    BY <1>2, WriteAppends, Zenon
  <2>2. alive /\ UNCHANGED <<stateVars, bufferVars, syncs, isOK, pendingOps, alive>>
    BY <1>2, Zenon DEF Write
  <2> QED
    BY <1>1, <2>1, <2>2, AppendKeepsOneLog, Zenon DEF stateVars
<1>3. ASSUME Flush PROVE OneLogInv' /\ Continues(Latest, Latest')
  <2>1. Flushed \in Seq(Seq(Nat)) /\ Append_(Flushed)
    BY <1>3 DEF Flush, Flushed, LogInv, LogTypes
  <2>2. alive /\ UNCHANGED <<stateVars, bufferVars, syncs, isOK, pendingOps, alive>>
    BY <1>3, Zenon DEF Flush
  <2> QED
    BY <1>1, <2>1, <2>2, AppendKeepsOneLog, Zenon DEF stateVars
<1>4. CASE Destroy
  BY <1>1, <1>4, IgnoredKeepsOneLog, Zenon DEF Destroy, stateVars
<1>5. ASSUME NEW ok \in BOOLEAN, NEW n \in puts, PutAnswered(n, ok)
      PROVE OneLogInv' /\ Continues(Latest, Latest')
  <2>1. puts' = puts \ {n} /\ UNCHANGED <<streamVars, isOK, alive, currentID, prevID>>
    BY <1>5, Zenon DEF PutAnswered, PutIgnored, PostChunk, stateVars
  <2>2. CASE PutIgnored(n, ok)
    BY <1>1, <2>1, <2>2, IgnoredKeepsOneLog, Zenon
  <2>3. CASE PostChunk(n, ok)
    BY <1>1, <2>1, <2>3, PostChunkKeepsOneLog, Zenon
  <2> QED
    BY <1>5, <2>2, <2>3, Zenon DEF PutAnswered
<1>6. ASSUME NEW ok \in BOOLEAN, NEW s \in syncs, SyncAnswered(s, ok)
      PROVE OneLogInv' /\ Continues(Latest, Latest')
  BY <1>6, PostWriteKeepsOneLog, FlushFailedKeepsOneLog, FlushDoneKeepsOneLog, Zenon
  DEF SyncAnswered
<1>7. CASE UNCHANGED vars
  BY <1>1, <1>7, IgnoredKeepsOneLog, Zenon DEF vars, stateVars
<1> QED
  BY <1>2, <1>3, <1>4, <1>5, <1>6, <1>7, Zenon DEF Next, StoreAnswers

\* The invariant holds in every state.
LEMMA SpecIsOneLog == Spec => []OneLogInv
<1>1. OneLogInv /\ LogInv /\ [Next]_vars => OneLogInv'
  BY NextKeepsOneLog, Zenon
<1> QED
  BY <1>1, InitIsOneLog, SpecIsGood, PTL DEF Spec

\* The ids that handlers are told are states of one log: an append finds its chunk once
\* behind the id it is told, and of any two ids told one continues the other, whatever the
\* order in which the store answers, wherever a directory is sealed and whatever fails.
THEOREM ToldIsOneLog == Spec => []PublishedIsOneLog
<1>1. LogInv /\ OneLogInv => PublishedIsOneLog
  <2> SUFFICES ASSUME LogInv, OneLogInv PROVE PublishedIsOneLog
    BY Zenon
  <2>1. Appends = 1 .. Len(payload)
    BY LenProperties, Zenon DEF Appends, LogInv, LogTypes
  <2>2. \A n \in Appends : answerID[n] # NoID => FoundOnce(n, answerID[n])
    BY <2>1, Zenon DEF OneLogInv, Published
  <2>3. \A n \in Appends : answerID[n] \in ID /\ IsKnown(answerID[n])
    BY <2>1, Zenon DEF OneLogInv, Shapes, IsKnown
  <2>4. \A m, n \in Appends : \/ Continues(answerID[m], answerID[n])
                              \/ Continues(answerID[n], answerID[m])
    <3>1. PICK w \in ID : \A a : IsKnown(a) => Continues(a, w)
      BY Zenon DEF OneLogInv, Bounded
    <3> QED
      BY <2>3, <3>1, Comparable, Zenon
  <2> QED
    BY <2>2, <2>4, Zenon DEF PublishedIsOneLog
<1> QED
  BY <1>1, SpecIsGood, SpecIsOneLog, PTL

\* getLatestID never goes back, although answers to older writes come after newer ones and
\* the id of the open directory is dropped when a directory is sealed.
THEOREM LatestNeverGoesBack == Spec => LatestOnlyGrows
<1>1. LogInv /\ OneLogInv /\ [Next]_vars => [Continues(Latest, Latest')]_vars
  BY NextKeepsOneLog, Zenon
<1> QED
  BY <1>1, SpecIsGood, SpecIsOneLog, PTL DEF Spec, LatestOnlyGrows
=============================================================================
