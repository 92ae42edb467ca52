------------------------ MODULE FileAggregatorProofs ------------------------
(***************************************************************************)
(* The safety of FileAggregator, for any streams that share any files, any *)
(* size of a part, any number of parts and any faults of the file system.  *)
(***************************************************************************)
EXTENDS FileAggregator, SequenceTheorems, TLAPS

\* A loop that delivers has an event of the round left to deliver.
RoundGoesOn == loop = "delivering" => round > 0

\* The inductive invariant.
FileInv == TypeOK /\ RoundGoesOn /\ NothingElseLost /\ WriteIsAhead

-----------------------------------------------------------------------------
(* Sequences *)

LEMMA BytesOfPart ==
  ASSUME NEW e \in Part
  PROVE  /\ bytes(e) \in Seq(Byte) /\ Len(bytes(e)) = PartSize
         /\ \A i \in 1..PartSize : bytes(e)[i] = [from |-> e.from, seq |-> e.seq, pos |-> i]
  BY FileBoundsAssumption DEF bytes, Part, Byte

\* A part appended to a sequence of bytes: what it had, and then the part's bytes.
LEMMA PartAppended ==
  ASSUME NEW t \in Seq(Byte), NEW e \in Part, NEW u, u = t \o bytes(e)
  PROVE  /\ u \in Seq(Byte) /\ Len(t) \in Nat /\ Len(u) = Len(t) + PartSize
         /\ DOMAIN t = 1..Len(t) /\ DOMAIN u = 1..(Len(t) + PartSize)
         /\ \A i \in DOMAIN u : i \in Nat
         /\ \A i \in DOMAIN u : i <= Len(t) => i \in DOMAIN t /\ u[i] = t[i]
         /\ \A i \in DOMAIN u :
              i > Len(t) => i - Len(t) \in 1..PartSize /\ u[i] = bytes(e)[i - Len(t)]
  <1>1. bytes(e) \in Seq(Byte) /\ Len(bytes(e)) = PartSize /\ PartSize \in Nat
    BY BytesOfPart, FileBoundsAssumption
  <1>2. Len(t) \in Nat /\ DOMAIN t = 1..Len(t)
    BY LenProperties
  <1>3. /\ u \in Seq(Byte) /\ Len(u) = Len(t) + PartSize
        /\ \A i \in 1..(Len(t) + PartSize) :
             u[i] = IF i <= Len(t) THEN t[i] ELSE bytes(e)[i - Len(t)]
    <2>1. /\ t \o bytes(e) \in Seq(Byte)
          /\ Len(t \o bytes(e)) = Len(t) + Len(bytes(e))
          /\ \A i \in 1..(Len(t) + Len(bytes(e))) :
               (t \o bytes(e))[i] = IF i <= Len(t) THEN t[i] ELSE bytes(e)[i - Len(t)]
      BY <1>1, ConcatProperties, Zenon
    <2>2. QED
      BY <1>1, <2>1
  <1>4. DOMAIN u = 1..(Len(t) + PartSize)
    BY <1>3, LenProperties
  <1>5. ASSUME NEW i \in 1..(Len(t) + PartSize), i <= Len(t)
        PROVE  i \in 1..Len(t) /\ u[i] = t[i]
    BY <1>1, <1>2, <1>3, <1>5
  <1>6. ASSUME NEW i \in 1..(Len(t) + PartSize), i > Len(t)
        PROVE  i - Len(t) \in 1..PartSize /\ u[i] = bytes(e)[i - Len(t)]
    <2>1. i - Len(t) \in 1..PartSize /\ ~(i <= Len(t))
      BY <1>1, <1>2, <1>6
    <2>2. QED
      BY <1>3, <2>1
  <1>7. QED
    BY <1>1, <1>2, <1>3, <1>4, <1>5, <1>6

LEMMA AppendedTwice ==
  ASSUME NEW a \in Seq(Byte), NEW b \in Seq(Byte), NEW c \in Seq(Byte)
  PROVE  (a \o b) \o c = a \o (b \o c)
  BY ConcatAssociative

LEMMA EventTypes ==
  /\ NextWrite \notin Part
  /\ NextWrite.from \notin Streams
  BY StreamsAssumption DEF NextWrite, Part

\* What a file has and what waits for it are sequences of bytes.
LEMMA TakenType ==
  ASSUME TypeOK, NEW f \in Files
  PROVE  /\ taken(f) \in Seq(Byte)
         /\ Len(taken(f)) = Len(written[f]) + Len(streams[f])
         /\ DOMAIN taken(f) = 1..Len(taken(f))
         /\ \A i \in DOMAIN taken(f) : taken(f)[i] \in Byte
  <1>1. /\ taken(f) \in Seq(Byte)
        /\ Len(taken(f)) = Len(written[f]) + Len(streams[f])
    BY ConcatProperties DEF TypeOK, taken
  <1>2. QED
    BY <1>1, LenProperties, ElementOfSeq

\* In a round the queue is not empty; a handler takes its first event.
LEMMA QueueHead ==
  ASSUME TypeOK, RoundGoesOn, EndOfEvent
  PROVE  /\ queue # <<>> /\ Len(queue) \in Nat /\ Len(queue) >= 1
         /\ Head(queue) = queue[1] /\ Head(queue) \in Part \cup {NextWrite}
         /\ Tail(queue) \in Seq(Part \cup {NextWrite})
         /\ Len(Tail(queue)) = Len(queue) - 1
         /\ \A i \in 1..(Len(queue) - 1) : Tail(queue)[i] = queue[i + 1]
         /\ round' \in 0..(Len(queue) - 1)
         /\ loop' \in {"looking", "delivering"}
         /\ RoundGoesOn'
  <1>1. queue \in Seq(Part \cup {NextWrite}) /\ round \in 1..Len(queue)
    BY DEF TypeOK, RoundGoesOn, EndOfEvent
  <1>2. Len(queue) \in Nat /\ Len(queue) >= 1 /\ queue # <<>>
    BY <1>1
  <1>3. round' \in 0..(Len(queue) - 1) /\ RoundGoesOn' /\ loop' \in {"looking", "delivering"}
    BY <1>1, <1>2 DEF EndOfEvent, RoundGoesOn
  <1>4. QED
    BY <1>1, <1>2, <1>3, HeadTailProperties

-----------------------------------------------------------------------------
(* The main thread *)

LEMMA EmitStep ==
  ASSUME FileInv, NEW s \in Streams, Emit(s)
  PROVE  FileInv'
  <1>0. emitted \in [Streams -> 0..MaxParts] /\ emitted[s] \in Nat
    BY FileBoundsAssumption DEF FileInv, TypeOK
  <1>e. PICK e \in Part : e = [from |-> s, seq |-> emitted[s] + 1]
    <2>1. [from |-> s, seq |-> emitted[s] + 1] \in Part
      BY <1>0 DEF Part
    <2>2. QED
      BY <2>1
  <1>1. /\ emitted \in [Streams -> 0..MaxParts] /\ emitted[s] \in Nat
        /\ emitted' = [emitted EXCEPT ![s] = @ + 1]
        /\ emitted' \in [Streams -> 0..MaxParts]
        /\ queue' = Append(queue, e)
        /\ UNCHANGED <<round, loop, streams, written, unflushed, dropped, quitting>>
    BY <1>0, <1>e, FileBoundsAssumption DEF Emit, FileInv, TypeOK
  <1>2. e \in Part /\ e # NextWrite /\ e.from = s /\ e.seq \in Nat
    BY <1>0, <1>e, EventTypes DEF Part
  <1>3. /\ queue \in Seq(Part \cup {NextWrite}) /\ Len(queue) \in Nat
        /\ queue' \in Seq(Part \cup {NextWrite})
        /\ DOMAIN queue = 1..Len(queue) /\ DOMAIN queue' = 1..(Len(queue) + 1)
        /\ \A i \in 1..Len(queue) : queue'[i] = queue[i]
        /\ queue'[Len(queue) + 1] = e
    BY <1>1, <1>2, AppendProperties, LenProperties DEF FileInv, TypeOK
  <1>4. TypeOK' /\ RoundGoesOn'
    BY <1>1, <1>3 DEF FileInv, TypeOK, RoundGoesOn
  <1>5. \A f : taken(f)' = taken(f)
    BY <1>1 DEF taken
  <1>6. /\ \A x \in Streams : sent(x) \subseteq sent(x)'
        /\ e \in sent(s)'
        /\ \A x \in Streams : \A y \in sent(x)' : y \in sent(x) \/ (x = s /\ y = e)
        /\ \A y \in sent(s) : y.seq \in Nat /\ y.seq < e.seq
    BY <1>0, <1>1, <1>e DEF sent
  <1>7. e \notin dropped
    <2>1. e \in dropped => e \in sent(s)
      BY <1>2 DEF FileInv, NothingElseLost, NothingMadeUp, DroppedWasSent
    <2>2. QED
      BY <1>2, <1>6, <2>1
  <1>8. TakenInOrder'
    BY <1>5 DEF FileInv, NothingElseLost, TakenInOrder
  <1>9. NothingMadeUp'
    <2>1. ASSUME NEW i \in 1..(Len(queue) + 1), queue'[i] # NextWrite
          PROVE  \E x \in Streams : x = queue'[i].from /\ queue'[i] \in sent(x)' \ dropped
      <3>1. CASE i <= Len(queue)
        <4>1. queue[i] # NextWrite /\ queue'[i] = queue[i]
          BY <1>3, <2>1, <3>1
        <4>2. queue[i] \in sent(queue[i].from) \ dropped /\ queue[i].from \in Streams
          BY <1>3, <3>1, <4>1 DEF FileInv, NothingElseLost, NothingMadeUp, QueuedWasSent, Part
        <4>3. QED
          BY <1>6, <4>1, <4>2
      <3>2. CASE i = Len(queue) + 1
        BY <1>2, <1>3, <1>6, <1>7, <3>2
      <3>3. QED
        BY <1>3, <3>1, <3>2
    <2>2. ASSUME NEW y \in dropped
          PROVE  \E x \in Streams : x = y.from /\ y \in sent(x)'
      BY <1>6 DEF FileInv, NothingElseLost, NothingMadeUp, DroppedWasSent, TypeOK, Part
    <2>3. ASSUME NEW f \in Files, NEW i \in DOMAIN taken(f)
          PROVE  /\ \E x \in Streams : /\ x = taken(f)[i].from
                                      /\ [from |-> x, seq |-> taken(f)[i].seq] \in sent(x)' \ dropped
                 /\ FileOf[taken(f)[i].from] = f
      <3>1. taken(f)[i].from \in Streams
        BY TakenType DEF FileInv, Byte
      <3>2. /\ [from |-> taken(f)[i].from, seq |-> taken(f)[i].seq]
                 \in sent(taken(f)[i].from) \ dropped
            /\ FileOf[taken(f)[i].from] = f
        BY DEF FileInv, NothingElseLost, NothingMadeUp, TakenWasSent
      <3>3. QED
        BY <1>6, <3>1, <3>2
    <2>4. QueuedWasSent'
      BY <1>1, <1>3, <2>1 DEF QueuedWasSent
    <2>5. DroppedWasSent'
      BY <1>1, <2>2 DEF DroppedWasSent
    <2>6. TakenWasSent'
      <3> SUFFICES ASSUME NEW f \in Files, NEW i \in DOMAIN taken(f)'
                   PROVE  /\ [from |-> (taken(f)[i].from)', seq |-> (taken(f)[i].seq)']
                               \in sent(taken(f)[i].from)' \ dropped'
                          /\ FileOf[(taken(f)[i].from)'] = f
        BY DEF TakenWasSent
      <3>1. taken(f)' = taken(f) /\ dropped' = dropped
        BY <1>1, <1>5
      <3>2. PICK x \in Streams : /\ x = taken(f)[i].from
                                 /\ [from |-> x, seq |-> taken(f)[i].seq] \in sent(x)' \ dropped
                                 /\ FileOf[x] = f
        <4>1. i \in DOMAIN taken(f)
          BY <3>1
        <4>2. /\ \E x \in Streams : /\ x = taken(f)[i].from
                                    /\ [from |-> x, seq |-> taken(f)[i].seq] \in sent(x)' \ dropped
              /\ FileOf[taken(f)[i].from] = f
          BY <2>3, <4>1
        <4>3. QED
          BY <4>2
      <3>3. (taken(f)[i].from)' = x /\ (taken(f)[i].seq)' = taken(f)[i].seq
        BY <3>1, <3>2
      <3>4. QED
        BY <3>1, <3>2, <3>3
    <2>7. QED
      BY <2>4, <2>5, <2>6 DEF NothingMadeUp
  <1>10. QueuedInOrder'
    <2> SUFFICES ASSUME NEW j \in 1..(Len(queue) + 1), queue'[j] # NextWrite
                 PROVE  /\ \A i \in 1..(j - 1) :
                             queue'[i].from = queue'[j].from => queue'[i].seq < queue'[j].seq
                        /\ \A i \in DOMAIN taken(FileOf[queue'[j].from]) :
                             taken(FileOf[queue'[j].from])[i].from = queue'[j].from
                               => taken(FileOf[queue'[j].from])[i].seq < queue'[j].seq
      BY <1>3, <1>5 DEF QueuedInOrder
    <2>1. CASE j <= Len(queue)
      <3>1. /\ j \in DOMAIN queue /\ queue'[j] = queue[j]
            /\ \A i \in 1..(j - 1) : queue'[i] = queue[i]
        BY <1>3, <2>1
      <3>2. QED
        BY <3>1 DEF FileInv, NothingElseLost, QueuedInOrder
    <2>2. CASE j = Len(queue) + 1
      <3>1. queue'[j] = e
        BY <1>3, <2>2
      <3>2. \A i \in 1..Len(queue) : queue[i].from = s => queue[i].seq < e.seq
        BY <1>3, <1>6, EventTypes DEF FileInv, NothingElseLost, NothingMadeUp, QueuedWasSent
      <3>3. ASSUME NEW i \in DOMAIN taken(FileOf[s]), taken(FileOf[s])[i].from = s
            PROVE  taken(FileOf[s])[i].seq < e.seq
        <4>1. [from |-> s, seq |-> taken(FileOf[s])[i].seq] \in sent(s)
          BY <3>3, StreamsAssumption DEF FileInv, NothingElseLost, NothingMadeUp, TakenWasSent
        <4>2. QED
          BY <1>6, <4>1
      <3>4. QED
        BY <1>2, <1>3, <2>2, <3>1, <3>2, <3>3
    <2>3. QED
      BY <1>3, <2>1, <2>2
  <1>11. Accounted'
    <2>1. \A y : isTaken(y)' <=> isTaken(y)
      BY <1>5 DEF isTaken
    <2>2. \A y : isQueued(y) => isQueued(y)'
      BY <1>3 DEF isQueued
    <2>3. isQueued(e)'
      BY <1>3 DEF isQueued
    <2>4. QED
      BY <1>1, <1>6, <2>1, <2>2, <2>3 DEF FileInv, NothingElseLost, Accounted
  <1>12. WriteIsAhead'
    BY <1>1, <1>3 DEF FileInv, WriteIsAhead
  <1>13. UnflushedWasWritten'
    BY <1>1 DEF FileInv, NothingElseLost, UnflushedWasWritten
  <1>14. QED
    BY <1>4, <1>8, <1>9, <1>10, <1>11, <1>12, <1>13 DEF FileInv, NothingElseLost

\* Quitting, and what the loop does between events.
LEMMA LoopStep ==
  ASSUME FileInv, UNCHANGED <<emitted, queue, streams, written, unflushed, dropped>>,
         quitting' \in BOOLEAN,
         round' \in 0..Len(queue),
         loop' \in {"looking", "waiting", "delivering", "ended"},
         loop' = "delivering" => round' > 0
  PROVE  FileInv'
  <1>1. TypeOK' /\ RoundGoesOn'
    BY DEF FileInv, TypeOK, RoundGoesOn
  <1>2. /\ \A f : taken(f)' = taken(f)
        /\ \A s : sent(s)' = sent(s)
        /\ \A e : isQueued(e)' <=> isQueued(e)
    BY DEF taken, sent, isQueued
  <1>3. \A e : isTaken(e)' <=> isTaken(e)
    BY <1>2 DEF isTaken
  <1>4. TakenInOrder' /\ QueuedInOrder'
    BY <1>2 DEF FileInv, NothingElseLost, TakenInOrder, QueuedInOrder
  <1>5. QueuedWasSent' /\ DroppedWasSent' /\ TakenWasSent'
    BY <1>2 DEF FileInv, NothingElseLost, NothingMadeUp, QueuedWasSent, DroppedWasSent, TakenWasSent
  <1>6. Accounted'
    BY <1>2, <1>3 DEF FileInv, NothingElseLost, Accounted
  <1>7. WriteIsAhead' /\ UnflushedWasWritten'
    BY DEF FileInv, WriteIsAhead, NothingElseLost, UnflushedWasWritten
  <1>8. QED
    BY <1>1, <1>4, <1>5, <1>6, <1>7 DEF FileInv, NothingElseLost, NothingMadeUp

-----------------------------------------------------------------------------
(* The file thread *)

\* After an event, the others have moved up, and at most a nextWrite follows them.
LEMMA HandledEvent ==
  ASSUME TypeOK, RoundGoesOn, EndOfEvent,
         queue' = Tail(queue) \/ queue' = Append(Tail(queue), NextWrite)
  PROVE  /\ queue' \in Seq(Part \cup {NextWrite}) /\ round' \in 0..Len(queue')
         /\ Len(queue) \in Nat /\ Len(queue) >= 1
         /\ DOMAIN queue = 1..Len(queue) /\ DOMAIN queue' = 1..Len(queue')
         /\ \A i \in 1..(Len(queue) - 1) : i \in DOMAIN queue' /\ queue'[i] = queue[i + 1]
         /\ \A j \in DOMAIN queue' :
              queue'[j] # NextWrite =>
                /\ j \in 1..(Len(queue) - 1) /\ queue'[j] = queue[j + 1]
                /\ \A i \in 1..(j - 1) : queue'[i] = queue[i + 1]
         /\ \A y : isQueued(y) /\ y # queue[1] => isQueued(y)'
         /\ queue' = Append(Tail(queue), NextWrite)
              => \E i \in DOMAIN queue' : queue'[i] = NextWrite
  <1> DEFINE t == Tail(queue)
  <1>1. /\ Len(queue) \in Nat /\ Len(queue) >= 1
        /\ t \in Seq(Part \cup {NextWrite})
        /\ Len(t) = Len(queue) - 1
        /\ \A i \in 1..(Len(queue) - 1) : t[i] = queue[i + 1]
        /\ round' \in 0..(Len(queue) - 1)
    BY QueueHead
  <1> HIDE DEF t
  <1>2. /\ queue' \in Seq(Part \cup {NextWrite})
        /\ Len(queue') \in {Len(queue) - 1, Len(queue)}
        /\ \A i \in 1..(Len(queue) - 1) : queue'[i] = queue[i + 1]
        /\ Len(queue') = Len(queue) => queue'[Len(queue)] = NextWrite
        /\ queue' = Append(t, NextWrite) => Len(queue') = Len(queue)
    <2>1. CASE queue' = t
      <3>1. Len(queue') # Len(queue)
        BY <1>1, <2>1
      <3>2. Len(Append(t, NextWrite)) = Len(t) + 1
        BY <1>1, AppendProperties
      <3>3. QED
        BY <1>1, <2>1, <3>1, <3>2
    <2>2. CASE queue' = Append(t, NextWrite)
      <3>1. /\ Append(t, NextWrite) \in Seq(Part \cup {NextWrite})
            /\ Len(Append(t, NextWrite)) = Len(t) + 1
            /\ \A i \in 1..Len(t) : Append(t, NextWrite)[i] = t[i]
            /\ Append(t, NextWrite)[Len(t) + 1] = NextWrite
        BY <1>1, AppendProperties
      <3>2. QED
        BY <1>1, <2>2, <3>1
    <2>3. QED
      BY <2>1, <2>2 DEF t
  <1>3. DOMAIN queue = 1..Len(queue) /\ DOMAIN queue' = 1..Len(queue')
    BY <1>2, LenProperties DEF TypeOK
  <1>4. \A y : isQueued(y) /\ y # queue[1] => isQueued(y)'
    <2> SUFFICES ASSUME NEW i \in 1..Len(queue), queue[i] # queue[1]
                 PROVE  \E j \in 1..Len(queue') : queue'[j] = queue[i]
      BY <1>3 DEF isQueued
    <2>1. i - 1 \in 1..(Len(queue) - 1) /\ i - 1 \in 1..Len(queue') /\ (i - 1) + 1 = i
      BY <1>1, <1>2
    <2>2. QED
      BY <1>2, <2>1
  <1>5. ASSUME NEW j \in 1..Len(queue'), queue'[j] # NextWrite
        PROVE  /\ j \in 1..(Len(queue) - 1) /\ queue'[j] = queue[j + 1]
               /\ \A i \in 1..(j - 1) : queue'[i] = queue[i + 1]
    <2>1. j \in 1..(Len(queue) - 1)
      BY <1>1, <1>2, <1>5
    <2>2. QED
      BY <1>1, <1>2, <2>1
  <1>6. round' \in 0..Len(queue')
    BY <1>1, <1>2
  <1>7. ASSUME NEW i \in 1..(Len(queue) - 1)
        PROVE  i \in DOMAIN queue' /\ queue'[i] = queue[i + 1]
    <2>1. i \in 1..Len(queue')
      BY <1>1, <1>2
    <2>2. QED
      BY <1>2, <1>3, <2>1
  <1>8. queue' = Append(Tail(queue), NextWrite)
          => \E i \in DOMAIN queue' : queue'[i] = NextWrite
    BY <1>1, <1>2, <1>3 DEF t
  <1>9. QED
    BY <1>1, <1>2, <1>3, <1>4, <1>5, <1>6, <1>7, <1>8

\* What a part of the queue's head is to the parts behind it and the bytes taken.
LEMMA HeadOfQueue ==
  ASSUME FileInv, EndOfEvent, Head(queue) # NextWrite
  PROVE  /\ queue[1] \in Part /\ Head(queue) = queue[1]
         /\ queue[1] \in sent(queue[1].from) \ dropped
         /\ \A i \in 2..Len(queue) :
              queue[i] # NextWrite /\ queue[i].from = queue[1].from => queue[1].seq < queue[i].seq
         /\ \A i \in DOMAIN taken(FileOf[queue[1].from]) :
              taken(FileOf[queue[1].from])[i].from = queue[1].from
                => taken(FileOf[queue[1].from])[i].seq < queue[1].seq
  <1>1. /\ TypeOK /\ RoundGoesOn /\ QueuedWasSent /\ QueuedInOrder
        /\ queue \in Seq(Part \cup {NextWrite})
    BY DEF FileInv, NothingElseLost, NothingMadeUp, TypeOK
  <1>2. /\ Len(queue) \in Nat /\ Len(queue) >= 1 /\ Head(queue) = queue[1]
        /\ queue[1] \in Part
    BY <1>1, QueueHead
  <1>3. DOMAIN queue = 1..Len(queue) /\ 1 \in DOMAIN queue
    BY <1>1, <1>2, LenProperties
  <1>4. queue[1] \in sent(queue[1].from) \ dropped
    BY <1>1, <1>2, <1>3 DEF QueuedWasSent
  <1>5. ASSUME NEW i \in 2..Len(queue), queue[i] # NextWrite, queue[i].from = queue[1].from
        PROVE  queue[1].seq < queue[i].seq
    <2>1. i \in DOMAIN queue /\ 1 \in 1..(i - 1)
      BY <1>2, <1>3
    <2>2. QED
      BY <1>1, <1>5, <2>1 DEF QueuedInOrder
  <1>6. \A i \in DOMAIN taken(FileOf[queue[1].from]) :
          taken(FileOf[queue[1].from])[i].from = queue[1].from
            => taken(FileOf[queue[1].from])[i].seq < queue[1].seq
    BY <1>1, <1>2, <1>3 DEF QueuedInOrder
  <1>7. QED
    BY <1>2, <1>4, <1>5, <1>6

\* A handler that takes no part keeps the order.
LEMMA OrderKept ==
  ASSUME TypeOK, RoundGoesOn, TakenInOrder, QueuedInOrder, EndOfEvent,
         queue' = Tail(queue) \/ queue' = Append(Tail(queue), NextWrite),
         \A f \in Files : taken(f)' = taken(f)
  PROVE  TakenInOrder' /\ QueuedInOrder'
  <1>1. TakenInOrder'
    <2> SUFFICES ASSUME NEW f \in Files, NEW j \in DOMAIN taken(f)', NEW i \in 1..(j - 1),
                        taken(f)'[i].from = taken(f)'[j].from
                 PROVE  before(taken(f)'[i], taken(f)'[j])
      BY DEF TakenInOrder, before
    <2>1. QED
      BY DEF TakenInOrder
  <1>2. QueuedInOrder'
    <2> SUFFICES ASSUME NEW j \in DOMAIN queue', queue'[j] # NextWrite
                 PROVE  /\ \A i \in 1..(j - 1) :
                             queue'[i].from = queue'[j].from => queue'[i].seq < queue'[j].seq
                        /\ FileOf[queue'[j].from] \in Files
                        /\ \A f \in Files : f = FileOf[queue'[j].from] =>
                             \A i \in DOMAIN taken(f)' :
                               taken(f)'[i].from = queue'[j].from
                                 => taken(f)'[i].seq < queue'[j].seq
      BY DEF QueuedInOrder
    <2>1. /\ Len(queue) \in Nat /\ j \in 1..(Len(queue) - 1) /\ queue'[j] = queue[j + 1]
          /\ \A i \in 1..(j - 1) : queue'[i] = queue[i + 1]
          /\ DOMAIN queue = 1..Len(queue)
      BY HandledEvent
    <2>2. j \in Nat /\ j + 1 \in DOMAIN queue /\ queue[j + 1] # NextWrite
      BY <2>1
    <2>3. ASSUME NEW i \in 1..(j - 1), queue'[i].from = queue'[j].from
          PROVE  queue'[i].seq < queue'[j].seq
      <3>1. i + 1 \in 1..((j + 1) - 1) /\ queue'[i] = queue[i + 1]
        BY <2>1, <2>2
      <3>2. QED
        BY <2>1, <2>2, <2>3, <3>1 DEF QueuedInOrder
    <2>4. \A f \in Files : f = FileOf[queue[j + 1].from] =>
            \A i \in DOMAIN taken(f)' :
              taken(f)'[i].from = queue[j + 1].from => taken(f)'[i].seq < queue[j + 1].seq
      BY <2>2 DEF QueuedInOrder
    <2>5. FileOf[queue[j + 1].from] \in Files
      <3>1. queue[j + 1] \in Part
        BY <2>1, <2>2, ElementOfSeq DEF TypeOK
      <3>2. QED
        BY <3>1, StreamsAssumption DEF Part
    <2>6. QED
      BY <2>1, <2>3, <2>4, <2>5
  <1>3. QED
    BY <1>1, <1>2

\* onCommandStream, when it collects the part.
LEMMA CollectStep ==
  ASSUME FileInv, EndOfEvent, Head(queue) # NextWrite, collect(Head(queue)),
         UNCHANGED <<emitted, written, unflushed, dropped, quitting>>
  PROVE  FileInv'
  <1>0. TypeOK /\ RoundGoesOn /\ NothingElseLost
    BY DEF FileInv
  <1>e. PICK e \in Part : e = queue[1] /\ e = Head(queue)
    BY HeadOfQueue
  <1>g. PICK g \in Files : g = FileOf[e.from]
    BY <1>e, StreamsAssumption DEF Part
  <1>1. /\ e.from \in Streams /\ e.seq \in Nat /\ e \in sent(e.from) \ dropped
        /\ \A i \in 2..Len(queue) :
             queue[i] # NextWrite /\ queue[i].from = e.from => e.seq < queue[i].seq
        /\ \A i \in DOMAIN taken(g) : taken(g)[i].from = e.from => taken(g)[i].seq < e.seq
    BY <1>e, <1>g, HeadOfQueue DEF Part
  <1>2. /\ streams \in [Files -> Seq(Byte)] /\ written \in [Files -> Seq(Byte)]
        /\ streams' = [streams EXCEPT ![g] = @ \o bytes(e)]
        /\ queue' = Append(Tail(queue), NextWrite)
    BY <1>0, <1>e, <1>g DEF collect, TypeOK
  <1>s. dropped' = dropped /\ \A x : sent(x)' = sent(x)
    BY DEF sent
  <1>3. /\ bytes(e) \in Seq(Byte) /\ Len(bytes(e)) = PartSize /\ PartSize \in Nat \ {0}
        /\ \A i \in 1..PartSize : bytes(e)[i] = [from |-> e.from, seq |-> e.seq, pos |-> i]
    BY <1>e, BytesOfPart, FileBoundsAssumption
  <1>4. streams[g] \o bytes(e) \in Seq(Byte) /\ streams' \in [Files -> Seq(Byte)]
    BY <1>2, <1>3, ConcatProperties
  <1>5. TypeOK' /\ RoundGoesOn'
    BY <1>0, <1>2, <1>4, HandledEvent, QueueHead DEF TypeOK
  <1>6. \A f \in Files \ {g} : taken(f)' = taken(f)
    BY <1>2 DEF taken
  <1>7. taken(g)' = taken(g) \o bytes(e)
    <2>1. written[g] \in Seq(Byte) /\ streams[g] \in Seq(Byte)
      BY <1>2
    <2>2. written[g] \o (streams[g] \o bytes(e)) = (written[g] \o streams[g]) \o bytes(e)
      BY <1>3, <2>1, AppendedTwice
    <2>3. QED
      BY <1>2, <2>2 DEF taken
  <1>n. PICK n \in Nat : n = Len(taken(g))
    BY <1>0, TakenType, LenProperties
  <1>8. /\ n + PartSize \in Nat
        /\ DOMAIN taken(g) = 1..n /\ DOMAIN taken(g)' = 1..(n + PartSize)
        /\ \A i \in DOMAIN taken(g)' : i \in Nat
        /\ \A i \in DOMAIN taken(g)' :
             i <= n => i \in DOMAIN taken(g) /\ taken(g)'[i] = taken(g)[i]
        /\ \A i \in DOMAIN taken(g)' :
             i > n => i - n \in 1..PartSize /\ taken(g)'[i] = bytes(e)[i - n]
    <2>1. taken(g) \in Seq(Byte)
      BY <1>0, TakenType
    <2>2. n + PartSize \in Nat
      BY <1>3
    <2>3. QED
      BY <1>7, <1>n, <2>1, <2>2, PartAppended
  <1>b. ASSUME NEW i \in DOMAIN taken(g)', i > n
        PROVE  /\ taken(g)'[i].from = e.from /\ taken(g)'[i].seq = e.seq
               /\ taken(g)'[i].pos = i - n
    BY <1>3, <1>8, <1>b
  <1>9. ASSUME NEW f \in Files, NEW j \in DOMAIN taken(f)', NEW i \in 1..(j - 1),
               taken(f)'[i].from = taken(f)'[j].from
        PROVE  before(taken(f)'[i], taken(f)'[j])
    <2>1. CASE f # g
      BY <1>0, <1>6, <1>9, <2>1 DEF NothingElseLost, TakenInOrder
    <2>2. CASE f = g
      <3>1. i \in DOMAIN taken(g)' /\ j \in DOMAIN taken(g)' /\ i \in Nat /\ j \in Nat /\ i < j
        BY <1>8, <2>2
      <3>2. CASE j <= n
        <4>1. /\ j \in DOMAIN taken(g) /\ i \in 1..(j - 1)
              /\ taken(g)'[i] = taken(g)[i] /\ taken(g)'[j] = taken(g)[j]
          BY <1>8, <3>1, <3>2
        <4>2. QED
          BY <1>0, <1>9, <2>2, <4>1 DEF NothingElseLost, TakenInOrder
      <3>3. CASE j > n /\ i <= n
        <4>1. /\ i \in DOMAIN taken(g) /\ taken(g)'[i] = taken(g)[i]
              /\ taken(g)'[j].from = e.from /\ taken(g)'[j].seq = e.seq
          BY <1>8, <1>b, <3>1, <3>3
        <4>2. QED
          BY <1>1, <1>9, <2>2, <4>1 DEF before
      <3>4. CASE j > n /\ i > n
        <4>1. /\ taken(g)'[i].seq = e.seq /\ taken(g)'[i].pos = i - n
              /\ taken(g)'[j].seq = e.seq /\ taken(g)'[j].pos = j - n
          BY <1>b, <3>1, <3>4
        <4>2. i - n < j - n
          BY <3>1
        <4>3. QED
          BY <2>2, <4>1, <4>2 DEF before
      <3>5. QED
        BY <3>1, <3>2, <3>3, <3>4
    <2>3. QED
      BY <2>1, <2>2
  <1>10. TakenInOrder'
    BY <1>9 DEF TakenInOrder, before
  <1>11. QueuedInOrder'
    <2> SUFFICES ASSUME NEW j \in DOMAIN queue', queue'[j] # NextWrite
                 PROVE  /\ \A i \in 1..(j - 1) :
                             queue'[i].from = queue'[j].from => queue'[i].seq < queue'[j].seq
                        /\ FileOf[queue'[j].from] \in Files
                        /\ \A f \in Files : f = FileOf[queue'[j].from] =>
                             \A i \in DOMAIN taken(f)' :
                               taken(f)'[i].from = queue'[j].from
                                 => taken(f)'[i].seq < queue'[j].seq
      BY DEF QueuedInOrder
    <2>1. /\ Len(queue) \in Nat /\ j \in 1..(Len(queue) - 1) /\ queue'[j] = queue[j + 1]
          /\ \A i \in 1..(j - 1) : queue'[i] = queue[i + 1]
          /\ DOMAIN queue = 1..Len(queue)
      BY <1>0, <1>2, HandledEvent
    <2>2. /\ j \in Nat /\ j + 1 \in DOMAIN queue /\ j + 1 \in 2..Len(queue)
          /\ queue[j + 1] # NextWrite
      BY <2>1
    <2>3. ASSUME NEW i \in 1..(j - 1), queue'[i].from = queue'[j].from
          PROVE  queue'[i].seq < queue'[j].seq
      <3>1. i + 1 \in 1..((j + 1) - 1) /\ queue'[i] = queue[i + 1]
        BY <2>1, <2>2
      <3>2. QED
        BY <1>0, <2>1, <2>2, <2>3, <3>1 DEF NothingElseLost, QueuedInOrder
    <2>4. ASSUME NEW f \in Files, f = FileOf[queue[j + 1].from],
                 NEW i \in DOMAIN taken(f)', taken(f)'[i].from = queue[j + 1].from
          PROVE  taken(f)'[i].seq < queue[j + 1].seq
      <3>1. \A k \in DOMAIN taken(f) :
              taken(f)[k].from = queue[j + 1].from => taken(f)[k].seq < queue[j + 1].seq
        BY <1>0, <2>2, <2>4 DEF NothingElseLost, QueuedInOrder
      <3>2. CASE f # g
        BY <1>6, <2>4, <3>1, <3>2
      <3>3. CASE f = g /\ i <= n
        BY <1>8, <2>4, <3>1, <3>3
      <3>4. CASE f = g /\ i > n
        BY <1>1, <1>b, <2>2, <2>4, <3>4
      <3>5. QED
        BY <1>8, <3>2, <3>3, <3>4
    <2>5. FileOf[queue[j + 1].from] \in Files
      <3>1. queue[j + 1] \in Part
        BY <1>0, <2>2, ElementOfSeq DEF TypeOK
      <3>2. QED
        BY <3>1, StreamsAssumption DEF Part
    <2>6. QED
      BY <2>1, <2>3, <2>4, <2>5
  <1>12. QueuedWasSent'
    <2> SUFFICES ASSUME NEW j \in DOMAIN queue', queue'[j] # NextWrite
                 PROVE  \E x : x = queue'[j].from /\ queue'[j] \in sent(x) \ dropped
      BY <1>s DEF QueuedWasSent
    <2>1. /\ Len(queue) \in Nat /\ j \in 1..(Len(queue) - 1) /\ queue'[j] = queue[j + 1]
          /\ DOMAIN queue = 1..Len(queue)
      BY <1>0, <1>2, HandledEvent
    <2>2. j + 1 \in DOMAIN queue
      BY <2>1
    <2>3. queue[j + 1] \in sent(queue[j + 1].from) \ dropped
      BY <1>0, <2>1, <2>2 DEF NothingElseLost, NothingMadeUp, QueuedWasSent
    <2>4. QED
      BY <2>1, <2>3
  <1>13. DroppedWasSent'
    BY <1>0, <1>s DEF NothingElseLost, NothingMadeUp, DroppedWasSent
  <1>14. TakenWasSent'
    <2> SUFFICES ASSUME NEW f \in Files, NEW i \in DOMAIN taken(f)'
                 PROVE  \E b : /\ b = taken(f)'[i]
                               /\ [from |-> b.from, seq |-> b.seq] \in sent(b.from) \ dropped
                               /\ FileOf[b.from] = f
      BY <1>s DEF TakenWasSent
    <2>1. CASE i \in DOMAIN taken(f) /\ taken(f)'[i] = taken(f)[i]
      BY <1>0, <2>1 DEF NothingElseLost, NothingMadeUp, TakenWasSent
    <2>2. CASE f = g /\ i > n
      <3>1. taken(f)'[i].from = e.from /\ taken(f)'[i].seq = e.seq
        BY <1>b, <2>2
      <3>2. e = [from |-> e.from, seq |-> e.seq]
        BY DEF Part
      <3>3. QED
        BY <1>1, <1>g, <2>2, <3>1, <3>2
    <2>3. QED
      BY <1>6, <1>8, <2>1, <2>2
  <1>15. isTaken(e)'
    <2>1. ASSUME NEW j \in 1..PartSize
          PROVE  \E i \in DOMAIN taken(g)' : taken(g)'[i] = bytes(e)[j]
      <3>1. n + j \in DOMAIN taken(g)' /\ n + j > n /\ (n + j) - n = j
        BY <1>3, <1>8
      <3>2. QED
        BY <1>8, <3>1
    <2>2. QED
      BY <1>g, <2>1 DEF isTaken
  <1>16. ASSUME NEW s \in Streams, NEW y \in sent(s), isTaken(y)
         PROVE  isTaken(y)'
    <2>1. y.from = s /\ FileOf[s] \in Files
      BY StreamsAssumption DEF sent
    <2>2. \A i \in DOMAIN taken(g) : i \in DOMAIN taken(g)' /\ taken(g)'[i] = taken(g)[i]
      BY <1>3, <1>8
    <2>3. CASE FileOf[s] = g
      BY <1>16, <2>1, <2>2, <2>3 DEF isTaken
    <2>4. CASE FileOf[s] # g
      <3>1. taken(FileOf[s])' = taken(FileOf[s])
        BY <1>6, <2>1, <2>4
      <3>2. QED
        BY <1>16, <2>1, <3>1 DEF isTaken
    <2>5. QED
      BY <2>3, <2>4
  <1>17. Accounted'
    <2> SUFFICES ASSUME NEW s \in Streams, NEW y \in sent(s)
                 PROVE  y \in dropped' \/ isQueued(y)' \/ isTaken(y)'
      BY <1>s DEF Accounted
    <2>1. y \in dropped \/ isQueued(y) \/ isTaken(y)
      BY <1>0 DEF NothingElseLost, Accounted
    <2>2. y # e => (isQueued(y) => isQueued(y)')
      BY <1>0, <1>2, <1>e, HandledEvent
    <2>3. QED
      BY <1>15, <1>16, <2>1, <2>2
  <1>18. WriteIsAhead'
    BY <1>0, <1>2, HandledEvent DEF WriteIsAhead
  <1>19. UnflushedWasWritten'
    BY <1>0 DEF NothingElseLost, UnflushedWasWritten
  <1>20. QED
    BY <1>5, <1>10, <1>11, <1>12, <1>13, <1>14, <1>17, <1>18, <1>19
    DEF FileInv, NothingElseLost, NothingMadeUp

\* onCommandStream, when it drops the part.
LEMMA DropStep ==
  ASSUME FileInv, EndOfEvent, Head(queue) # NextWrite,
         queue' = Tail(queue), dropped' = dropped \cup {Head(queue)},
         UNCHANGED <<emitted, streams, written, unflushed, quitting>>
  PROVE  FileInv'
  <1>0. TypeOK /\ RoundGoesOn /\ NothingElseLost /\ WriteIsAhead
    BY DEF FileInv
  <1>e. PICK e \in Part : e = queue[1] /\ e = Head(queue)
    BY HeadOfQueue
  <1>1. /\ e.from \in Streams /\ e.seq \in Nat /\ e \in sent(e.from) \ dropped
        /\ \A i \in 2..Len(queue) :
             queue[i] # NextWrite /\ queue[i].from = e.from => e.seq < queue[i].seq
        /\ \A i \in DOMAIN taken(FileOf[e.from]) :
             taken(FileOf[e.from])[i].from = e.from => taken(FileOf[e.from])[i].seq < e.seq
    BY <1>e, HeadOfQueue DEF Part
  <1>2. /\ \A f : taken(f)' = taken(f)
        /\ \A x : sent(x)' = sent(x)
        /\ dropped' = dropped \cup {e}
    BY <1>e DEF taken, sent
  <1>3. TypeOK' /\ RoundGoesOn'
    BY <1>0, <1>2, HandledEvent, QueueHead DEF TypeOK
  <1>4. TakenInOrder' /\ QueuedInOrder'
    BY <1>0, <1>2, OrderKept DEF NothingElseLost
  <1>5. QueuedWasSent'
    <2> SUFFICES ASSUME NEW j \in DOMAIN queue', queue'[j] # NextWrite
                 PROVE  \E x : x = queue'[j].from /\ queue'[j] \in sent(x) \ dropped'
      BY <1>2 DEF QueuedWasSent
    <2>1. /\ Len(queue) \in Nat /\ j \in 1..(Len(queue) - 1) /\ queue'[j] = queue[j + 1]
          /\ DOMAIN queue = 1..Len(queue)
      BY <1>0, HandledEvent
    <2>2. j + 1 \in DOMAIN queue /\ j + 1 \in 2..Len(queue)
      BY <2>1
    <2>3. queue[j + 1] \in sent(queue[j + 1].from) \ dropped
      BY <1>0, <2>1, <2>2 DEF NothingElseLost, NothingMadeUp, QueuedWasSent
    <2>4. queue[j + 1] # e
      BY <1>1, <2>1, <2>2
    <2>5. QED
      BY <1>2, <2>1, <2>3, <2>4
  <1>6. DroppedWasSent'
    BY <1>0, <1>1, <1>2 DEF NothingElseLost, NothingMadeUp, DroppedWasSent
  <1>7. TakenWasSent'
    <2> SUFFICES ASSUME NEW f \in Files, NEW i \in DOMAIN taken(f)'
                 PROVE  /\ [from |-> (taken(f)[i].from)', seq |-> (taken(f)[i].seq)']
                             \in sent(taken(f)[i].from)' \ dropped'
                        /\ FileOf[(taken(f)[i].from)'] = f
      BY DEF TakenWasSent
    <2>1. taken(f)' = taken(f)
      BY <1>2
    <2>2. PICK b : /\ b = taken(f)[i]
                   /\ [from |-> b.from, seq |-> b.seq] \in sent(b.from) \ dropped
                   /\ FileOf[b.from] = f
      BY <1>0, <2>1 DEF NothingElseLost, NothingMadeUp, TakenWasSent
    <2>3. ASSUME [from |-> b.from, seq |-> b.seq] = e
          PROVE  FALSE
      <3>1. b.from = e.from /\ b.seq = e.seq
        BY <2>3
      <3>2. e.seq < e.seq
        BY <1>1, <2>1, <2>2, <3>1
      <3>3. QED
        BY <1>1, <3>2
    <2>4. (taken(f)[i].from)' = b.from /\ (taken(f)[i].seq)' = b.seq
      BY <2>1, <2>2
    <2>5. QED
      BY <1>2, <2>2, <2>3, <2>4
  <1>8. Accounted'
    <2> SUFFICES ASSUME NEW s \in Streams, NEW y \in sent(s)
                 PROVE  y \in dropped' \/ isQueued(y)' \/ isTaken(y)'
      BY <1>2 DEF Accounted
    <2>1. y \in dropped \/ isQueued(y) \/ isTaken(y)
      BY <1>0 DEF NothingElseLost, Accounted
    <2>2. y # e => (isQueued(y) => isQueued(y)')
      BY <1>0, <1>e, HandledEvent
    <2>3. isTaken(y)' <=> isTaken(y)
      BY <1>2 DEF isTaken
    <2>4. QED
      BY <1>2, <2>1, <2>2, <2>3
  <1>9. WriteIsAhead'
    <2> SUFFICES ASSUME NEW f \in Files, streams[f] # <<>>
                 PROVE  \E i \in DOMAIN queue' : queue'[i] = NextWrite
      BY DEF WriteIsAhead
    <2>1. isQueued(NextWrite)
      BY <1>0 DEF WriteIsAhead, isQueued
    <2>2. isQueued(NextWrite)'
      BY <1>0, <1>e, <2>1, HandledEvent, EventTypes
    <2>3. QED
      BY <2>2 DEF isQueued, NextWrite
  <1>10. UnflushedWasWritten'
    BY <1>0 DEF NothingElseLost, UnflushedWasWritten
  <1>11. QED
    BY <1>3, <1>4, <1>5, <1>6, <1>7, <1>8, <1>9, <1>10
    DEF FileInv, NothingElseLost, NothingMadeUp

\* What a write appends is what it takes out of what was collected.
LEMMA WriteTakes ==
  ASSUME TypeOK, NEW f \in Files, NEW k \in 0..Len(streams[f])
  PROVE  /\ written[f] \o SubSeq(streams[f], 1, k) \in Seq(Byte)
         /\ left(f, k) \in Seq(Byte)
         /\ (written[f] \o SubSeq(streams[f], 1, k)) \o left(f, k) = taken(f)
  <1>1. /\ written[f] \in Seq(Byte) /\ streams[f] \in Seq(Byte) /\ Len(streams[f]) \in Nat
        /\ \A i \in 1..Len(streams[f]) : streams[f][i] \in Byte
    BY LenProperties, ElementOfSeq DEF TypeOK
  <1>2. k \in Int /\ k + 1 \in Int /\ Len(streams[f]) \in Int
    BY <1>1
  <1>3. SubSeq(streams[f], 1, k) \in Seq(Byte)
    BY <1>1, <1>2, SubSeqProperties
  <1>4. SubSeq(streams[f], k + 1, Len(streams[f])) \in Seq(Byte)
    BY <1>1, <1>2, SubSeqProperties
  <1>5. SubSeq(streams[f], 1, k) \o SubSeq(streams[f], k + 1, Len(streams[f])) = streams[f]
    <2>1. /\ 1 \in 1..(Len(streams[f]) + 1) /\ k \in (1 - 1)..Len(streams[f])
          /\ Len(streams[f]) \in k..Len(streams[f])
      BY <1>1
    <2>2. SubSeq(streams[f], 1, k) \o SubSeq(streams[f], k + 1, Len(streams[f]))
            = SubSeq(streams[f], 1, Len(streams[f]))
      BY <1>1, <2>1, ConcatAdjacentSubSeq
    <2>3. SubSeq(streams[f], 1, Len(streams[f])) = streams[f]
      BY <1>1, SubSeqFull
    <2>4. QED
      BY <2>2, <2>3
  <1>6. written[f] \o SubSeq(streams[f], 1, k) \in Seq(Byte)
    BY <1>1, <1>3, ConcatProperties
  <1>7. (written[f] \o SubSeq(streams[f], 1, k)) \o SubSeq(streams[f], k + 1, Len(streams[f]))
          = written[f] \o (SubSeq(streams[f], 1, k) \o SubSeq(streams[f], k + 1, Len(streams[f])))
    BY <1>1, <1>3, <1>4, AppendedTwice
  <1>8. QED
    BY <1>4, <1>5, <1>6, <1>7 DEF left, taken

\* A file keeps what it was handed, and has what the write adds to it.
LEMMA WriteAppends ==
  ASSUME TypeOK, NEW f \in Files, NEW k \in 0..Len(streams[f])
  PROVE  /\ \A i \in DOMAIN written[f] :
              /\ i \in DOMAIN (written[f] \o SubSeq(streams[f], 1, k))
              /\ (written[f] \o SubSeq(streams[f], 1, k))[i] = written[f][i]
         /\ \A i \in 1..k :
              \E j \in DOMAIN (written[f] \o SubSeq(streams[f], 1, k)) :
                (written[f] \o SubSeq(streams[f], 1, k))[j] = streams[f][i]
  <1>0. PICK w : w = written[f] \o SubSeq(streams[f], 1, k)
    OBVIOUS
  <1>1. /\ written[f] \in Seq(Byte) /\ streams[f] \in Seq(Byte)
        /\ Len(streams[f]) \in Nat /\ Len(written[f]) \in Nat
        /\ DOMAIN written[f] = 1..Len(written[f])
    BY LenProperties DEF TypeOK
  <1>2. PICK t \in Seq(Byte) : t = SubSeq(streams[f], 1, k)
    <2>1. k \in Int /\ \A i \in 1..Len(streams[f]) : streams[f][i] \in Byte
      BY <1>1, ElementOfSeq
    <2>2. SubSeq(streams[f], 1, k) \in Seq(Byte)
      BY <1>1, <2>1, SubSeqProperties
    <2>3. QED
      BY <2>2
  <1>3. Len(t) = k /\ \A i \in 1..k : t[i] = streams[f][i]
    BY <1>1, <1>2
  <1>4. /\ w \in Seq(Byte) /\ Len(w) = Len(written[f]) + Len(t)
        /\ \A i \in 1..(Len(written[f]) + Len(t)) :
             w[i] = IF i <= Len(written[f]) THEN written[f][i] ELSE t[i - Len(written[f])]
    <2>1. /\ written[f] \o t \in Seq(Byte)
          /\ Len(written[f] \o t) = Len(written[f]) + Len(t)
          /\ \A i \in 1..(Len(written[f]) + Len(t)) :
               (written[f] \o t)[i] = IF i <= Len(written[f]) THEN written[f][i]
                                      ELSE t[i - Len(written[f])]
      BY <1>1, <1>2, ConcatProperties, Zenon
    <2>2. QED
      BY <1>0, <1>2, <2>1
  <1>5. DOMAIN w = 1..(Len(written[f]) + k)
    BY <1>3, <1>4, LenProperties
  <1>6. ASSUME NEW i \in DOMAIN written[f]
        PROVE  i \in DOMAIN w /\ w[i] = written[f][i]
    BY <1>1, <1>3, <1>4, <1>5
  <1>7. ASSUME NEW i \in 1..k
        PROVE  \E j \in DOMAIN w : w[j] = streams[f][i]
    <2>1. PICK n \in Nat : n = Len(written[f])
      BY <1>1
    <2>2. k \in Nat /\ i \in Nat /\ 1 <= i /\ i <= k
      BY <1>1
    <2>3. /\ n + i \in 1..(n + k) /\ ~(n + i <= n) /\ (n + i) - n = i
      BY <2>2
    <2>4. w[n + i] = t[i]
      BY <1>3, <1>4, <2>1, <2>3
    <2>5. n + i \in DOMAIN w /\ t[i] = streams[f][i]
      BY <1>3, <1>5, <2>1, <2>3
    <2>6. QED
      BY <2>4, <2>5
  <1>8. QED
    BY <1>0, <1>6, <1>7

\* Each pass of write: streams_ and the files change, what is taken does not.
LEMMA WriteStep ==
  ASSUME FileInv, Write
  PROVE  FileInv'
  <1>0. TypeOK /\ RoundGoesOn /\ NothingElseLost /\ WriteIsAhead
    BY DEF FileInv
  <1>1. PICK end \in [Files -> UNION {writable(Len(streams[f])) : f \in Files}] :
          /\ \A f \in Files : end[f] \in writable(Len(streams[f]))
          /\ written' = [f \in Files |-> written[f] \o SubSeq(streams[f], 1, end[f].took)]
          /\ unflushed' = unflushed \cup
               UNION {{streams[f][i] : i \in (end[f].flushed + 1)..end[f].took} : f \in Files}
          /\ streams' = [f \in Files |-> left(f, end[f].took)]
    BY DEF Write
  <1>u. \A b \in unflushed' :
          \/ b \in unflushed
          \/ \E f \in Files : \E i \in (end[f].flushed + 1)..end[f].took : b = streams[f][i]
    BY <1>1
  <1>2. /\ EndOfEvent /\ Head(queue) = NextWrite
        /\ queue' = IF again(streams') THEN Append(Tail(queue), NextWrite) ELSE Tail(queue)
        /\ UNCHANGED <<emitted, dropped, quitting>>
    BY DEF Write
  <1>3. ASSUME NEW f \in Files
        PROVE  end[f].took \in 0..Len(streams[f]) /\ end[f].flushed \in 0..end[f].took
    <2>1. Len(streams[f]) \in Nat
      BY <1>0, LenProperties DEF TypeOK
    <2>2. QED
      BY <1>1, <2>1, FileBoundsAssumption DEF writable
  <1>4. \A f \in Files : written'[f] \in Seq(Byte) /\ streams'[f] \in Seq(Byte)
    BY <1>0, <1>1, <1>3, WriteTakes
  <1>5. \A f \in Files : taken(f)' = taken(f)
    BY <1>0, <1>1, <1>3, WriteTakes DEF taken
  <1>6. TypeOK' /\ RoundGoesOn'
    <2>1. written' \in [Files -> Seq(Byte)] /\ streams' \in [Files -> Seq(Byte)]
      BY <1>1, <1>4
    <2>2. unflushed' \subseteq Byte
      <3> SUFFICES ASSUME NEW f \in Files, NEW i \in (end[f].flushed + 1)..end[f].took
                   PROVE  streams[f][i] \in Byte
        BY <1>0, <1>u DEF TypeOK
      <3>1. Len(streams[f]) \in Nat /\ streams[f] \in Seq(Byte)
        BY <1>0, LenProperties DEF TypeOK
      <3>2. /\ end[f].took \in 0..Len(streams[f]) /\ end[f].flushed \in 0..end[f].took
            /\ end[f].took \in Nat /\ end[f].flushed \in Nat
        BY <1>3, <3>1
      <3>3. i \in 1..Len(streams[f])
        BY <3>1, <3>2
      <3>4. QED
        BY <3>1, <3>3, ElementOfSeq
    <2>3. QED
      BY <1>0, <1>2, <2>1, <2>2, HandledEvent, QueueHead DEF TypeOK
  <1>7. TakenInOrder' /\ QueuedInOrder'
    BY <1>0, <1>2, <1>5, OrderKept DEF NothingElseLost
  <1>8. dropped' = dropped /\ \A x : sent(x)' = sent(x)
    BY <1>2 DEF sent
  <1>9. QueuedWasSent'
    <2> SUFFICES ASSUME NEW j \in DOMAIN queue', queue'[j] # NextWrite
                 PROVE  \E x : x = queue'[j].from /\ queue'[j] \in sent(x) \ dropped
      BY <1>8 DEF QueuedWasSent
    <2>1. /\ Len(queue) \in Nat /\ j \in 1..(Len(queue) - 1) /\ queue'[j] = queue[j + 1]
          /\ DOMAIN queue = 1..Len(queue)
      BY <1>0, <1>2, HandledEvent
    <2>2. j + 1 \in DOMAIN queue
      BY <2>1
    <2>3. queue[j + 1] \in sent(queue[j + 1].from) \ dropped
      BY <1>0, <2>1, <2>2 DEF NothingElseLost, NothingMadeUp, QueuedWasSent
    <2>4. QED
      BY <2>1, <2>3
  <1>10. DroppedWasSent'
    BY <1>0, <1>8 DEF NothingElseLost, NothingMadeUp, DroppedWasSent
  <1>11. TakenWasSent'
    <2> SUFFICES ASSUME NEW f \in Files, NEW i \in DOMAIN taken(f)'
                 PROVE  \E b : /\ b = taken(f)'[i]
                               /\ [from |-> b.from, seq |-> b.seq] \in sent(b.from) \ dropped
                               /\ FileOf[b.from] = f
      BY <1>8 DEF TakenWasSent
    <2>1. taken(f)' = taken(f)
      BY <1>5
    <2>2. QED
      BY <1>0, <2>1 DEF NothingElseLost, NothingMadeUp, TakenWasSent
  <1>12. Accounted'
    <2> SUFFICES ASSUME NEW s \in Streams, NEW y \in sent(s)
                 PROVE  y \in dropped' \/ isQueued(y)' \/ isTaken(y)'
      BY <1>8 DEF Accounted
    <2>1. y \in dropped \/ isQueued(y) \/ isTaken(y)
      BY <1>0 DEF NothingElseLost, Accounted
    <2>2. y.from = s /\ FileOf[s] \in Files /\ y # NextWrite
      BY StreamsAssumption, EventTypes DEF sent
    <2>3. isQueued(y) => isQueued(y)'
      BY <1>0, <1>2, <2>2, HandledEvent, QueueHead
    <2>4. isTaken(y)' <=> isTaken(y)
      BY <1>5, <2>2 DEF isTaken
    <2>5. QED
      BY <1>8, <2>1, <2>3, <2>4
  <1>13. WriteIsAhead'
    <2>1. ASSUME NEW f \in Files, streams'[f] # <<>>
          PROVE  \E i \in DOMAIN queue' : queue'[i] = NextWrite
      <3>1. queue' = Append(Tail(queue), NextWrite)
        BY <1>2, <2>1 DEF again
      <3>2. QED
        BY <1>0, <1>2, <3>1, HandledEvent
    <2>2. QED
      BY <2>1 DEF WriteIsAhead
  <1>14. UnflushedWasWritten'
    <2>1. ASSUME NEW f \in Files, NEW i \in DOMAIN written[f]
          PROVE  i \in DOMAIN written'[f] /\ written'[f][i] = written[f][i]
      BY <1>0, <1>1, <1>3, <2>1, WriteAppends
    <2>2. ASSUME NEW f \in Files, NEW i \in (end[f].flushed + 1)..end[f].took
          PROVE  \E k \in DOMAIN written'[f] : written'[f][k] = streams[f][i]
      <3>1. Len(streams[f]) \in Nat
        BY <1>0, LenProperties DEF TypeOK
      <3>2. PICK k \in 0..Len(streams[f]) : k = end[f].took /\ end[f].flushed \in 0..k
        BY <1>3
      <3>3. i \in 1..k
        BY <3>1, <3>2
      <3>4. written'[f] = written[f] \o SubSeq(streams[f], 1, k)
        BY <1>1, <3>2
      <3>5. \E j \in DOMAIN (written[f] \o SubSeq(streams[f], 1, k)) :
              (written[f] \o SubSeq(streams[f], 1, k))[j] = streams[f][i]
        BY <1>0, <3>2, <3>3, WriteAppends
      <3> QED
        BY <3>4, <3>5
    <2>3. UnflushedWasWritten
      BY <1>0 DEF NothingElseLost
    <2>4. ASSUME NEW b \in unflushed'
          PROVE  \E f \in Files : \E i \in DOMAIN written'[f] : written'[f][i] = b
      <3>1. CASE b \in unflushed
        <4>1. PICK f \in Files : \E i \in DOMAIN written[f] : written[f][i] = b
          BY <2>3, <3>1 DEF UnflushedWasWritten
        <4>2. QED
          BY <2>1, <4>1
      <3>2. CASE \E f \in Files : \E i \in (end[f].flushed + 1)..end[f].took : b = streams[f][i]
        BY <2>2, <3>2
      <3>3. QED
        BY <1>u, <3>1, <3>2
    <2>5. QED
      BY <2>4 DEF UnflushedWasWritten
  <1>15. QED
    BY <1>6, <1>7, <1>9, <1>10, <1>11, <1>12, <1>13, <1>14
    DEF FileInv, NothingElseLost, NothingMadeUp

-----------------------------------------------------------------------------
(* The invariant *)

LEMMA InitFileInv ==
  ASSUME Init
  PROVE  FileInv
  <1>1. TypeOK
    <2>1. <<>> \in Seq(Byte) /\ <<>> \in Seq(Part \cup {NextWrite}) /\ Len(queue) = 0
      BY EmptySeq DEF Init
    <2>2. /\ emitted \in [Streams -> 0..MaxParts] /\ dropped \subseteq Part
          /\ unflushed \subseteq Byte
          /\ streams \in [Files -> Seq(Byte)] /\ written \in [Files -> Seq(Byte)]
      BY <2>1, FileBoundsAssumption DEF Init
    <2>3. round \in 0..Len(queue)
      BY <2>1 DEF Init
    <2>4. QED
      BY <2>1, <2>2, <2>3 DEF Init, TypeOK
  <1>2. /\ \A f \in Files : taken(f) = <<>>
        /\ \A s \in Streams : sent(s) = {}
        /\ DOMAIN queue = {}
    BY DEF Init, taken, sent
  <1>3. NothingElseLost
    <2>1. TakenInOrder /\ QueuedInOrder
      BY <1>2 DEF TakenInOrder, QueuedInOrder
    <2>2. NothingMadeUp
      BY <1>2 DEF Init, NothingMadeUp, QueuedWasSent, DroppedWasSent, TakenWasSent
    <2>3. Accounted
      BY <1>2 DEF Accounted
    <2>4. UnflushedWasWritten
      BY DEF Init, UnflushedWasWritten
    <2>5. QED
      BY <2>1, <2>2, <2>3, <2>4 DEF NothingElseLost
  <1>4. RoundGoesOn /\ WriteIsAhead
    BY DEF Init, RoundGoesOn, WriteIsAhead
  <1>5. QED
    BY <1>1, <1>3, <1>4 DEF FileInv

LEMMA FilePreservation ==
  ASSUME FileInv, [Next]_vars
  PROVE  FileInv'
  <1>0. /\ Len(queue) \in Nat /\ (queue # <<>> => Len(queue) > 0)
        /\ quitting \in BOOLEAN /\ round \in 0..Len(queue) /\ RoundGoesOn
        /\ loop \in {"looking", "waiting", "delivering", "ended"}
    <2>1. queue \in Seq(Part \cup {NextWrite})
      BY DEF FileInv, TypeOK
    <2>2. Len(queue) \in Nat /\ (queue # <<>> => Len(queue) > 0)
      BY <2>1
    <2>3. QED
      BY <2>2 DEF FileInv, TypeOK
  <1>1. CASE \E s \in Streams : Emit(s)
    BY <1>1, EmitStep
  <1>2. CASE Quit
    <2>1. /\ UNCHANGED <<emitted, queue, streams, written, unflushed, dropped, round, loop>>
          /\ quitting' \in BOOLEAN
      BY <1>2 DEF Quit
    <2>2. QED
      BY <1>0, <2>1, LoopStep DEF RoundGoesOn
  <1>3. CASE Look
    <2>1. /\ UNCHANGED <<emitted, queue, streams, written, unflushed, dropped, round, quitting>>
          /\ loop' \in {"waiting", "ended"}
      BY <1>3 DEF Look
    <2>2. QED
      BY <1>0, <2>1, LoopStep
  <1>4. CASE WakeUp
    <2>1. /\ UNCHANGED <<emitted, queue, streams, written, unflushed, dropped, quitting>>
          /\ round' \in 0..Len(queue) /\ loop' \in {"looking", "delivering"}
          /\ loop' = "delivering" => round' > 0
      BY <1>0, <1>4 DEF WakeUp
    <2>2. QED
      BY <1>0, <2>1, LoopStep
  <1>5. CASE OnCommandStream
    BY <1>5, CollectStep, DropStep DEF OnCommandStream
  <1>6. CASE Write
    BY <1>6, WriteStep
  <1>7. CASE UNCHANGED vars
    <2>1. UNCHANGED <<emitted, queue, streams, written, unflushed, dropped, round, loop, quitting>>
      BY <1>7 DEF vars
    <2>2. QED
      BY <1>0, <2>1, LoopStep DEF RoundGoesOn
  <1>8. QED
    BY <1>1, <1>2, <1>3, <1>4, <1>5, <1>6, <1>7 DEF Next, FileThread

\* FileInv is an invariant of the file aggregator.
THEOREM FileInvariance == Spec => []FileInv
  <1>1. Init => FileInv
    BY InitFileInv
  <1>2. FileInv /\ [Next]_vars => FileInv'
    BY FilePreservation
  <1>3. QED
    BY <1>1, <1>2, PTL DEF Spec

\* The variables keep their types: no more parts than are emitted, no round
\* longer than the queue.
THEOREM FileTypeCorrect == Spec => []TypeOK
  <1>1. FileInv => TypeOK
    BY DEF FileInv
  <1>2. QED
    BY <1>1, FileInvariance, PTL

\* What was emitted and found its folder is handed to QFile, collected or queued,
\* once and in the order of its stream, whatever order the parts arrive in and
\* however writes fall short; a byte that is missing on disk all the same was
\* lost by a buffer that had taken it.
THEOREM NothingElseIsLost == Spec => []NothingElseLost
  <1>1. FileInv => NothingElseLost
    BY DEF FileInv
  <1>2. QED
    BY <1>1, FileInvariance, PTL

\* While anything waits in streams_ a nextWrite is queued, so it is not forgotten.
THEOREM WritesAreAhead == Spec => []WriteIsAhead
  <1>1. FileInv => WriteIsAhead
    BY DEF FileInv
  <1>2. QED
    BY <1>1, FileInvariance, PTL
=============================================================================
