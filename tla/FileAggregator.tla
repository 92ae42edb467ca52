--------------------------- MODULE FileAggregator ---------------------------
(***************************************************************************)
(* aggregators::CFile on the thread the console application gives it.      *)
(* Core emits commandStream on the main thread; the connection to CFile is *)
(* queued, so each part is an event in the file thread's queue.  CFile     *)
(* only collects the part, and asks itself, by a queued nextWrite, to      *)
(* append what it collected to the files.  It writes through the buffer of *)
(* QFile: what the buffer took leaves CFile at once, and is flushed, or    *)
(* lost, in QFile's destructor, which tells nobody.                        *)
(*                                                                         *)
(* The thread's event loop looks whether it was asked to quit, waits for   *)
(* events, and delivers those it then finds in the queue; events posted    *)
(* meanwhile are for the next round, after another look.                   *)
(***************************************************************************)
EXTENDS Naturals, Sequences

CONSTANTS
  Streams,         \* command output streams: provider, command, out or err
  Files, FileOf,   \* CFile::name: the file of a stream
  Faults,          \* which failures of the file system may occur
  PartSize,        \* bytes of a part
  BufferSize,      \* bytes that QFile buffers
  MaxParts         \* bound: parts a stream emits

ASSUME StreamsAssumption ==
  /\ FileOf \in [Streams -> Files]
  /\ "CFile" \notin Streams   \* the sender of nextWrite
ASSUME FileBoundsAssumption ==
  /\ Faults \subseteq {"open", "shortWrite", "flush", "mkpath"}
  /\ MaxParts \in Nat /\ BufferSize \in Nat
  /\ PartSize \in Nat \ {0}

VARIABLES
  emitted,   \* per stream, how many parts Core has emitted
  queue,     \* posted events of the file thread, oldest first
  round,     \* how many of them the loop is still to deliver in this round
  loop,      \* what the event loop of the file thread does
  streams,   \* CFile::streams_: per file, the bytes collected
  written,   \* per file, the bytes QFile::write took
  unflushed, \* history: those of them that its buffer lost
  dropped,   \* the parts reported as StreamCorrupted, to an empty slot
  quitting   \* file_thread_.quit() was called

vars == <<emitted, queue, round, loop, streams, written, unflushed, dropped, quitting>>

\* A part of the output of a stream, and the event that carries it; from is
\* the stream, seq its place in it.  The other event is the nextWrite signal.
Part == [from : Streams, seq : Nat]
NextWrite == [from |-> "CFile", seq |-> 0]

\* The bytes of a part, as a sequence; pos tells them apart.
Byte == [from : Streams, seq : Nat, pos : 1..PartSize]
bytes(e) == [i \in 1..PartSize |-> [from |-> e.from, seq |-> e.seq, pos |-> i]]

TypeOK ==
  /\ emitted \in [Streams -> 0..MaxParts]
  /\ queue \in Seq(Part \cup {NextWrite})
  /\ round \in 0..Len(queue)
  /\ loop \in {"looking", "waiting", "delivering", "ended"}
  /\ streams \in [Files -> Seq(Byte)]
  /\ written \in [Files -> Seq(Byte)]
  /\ unflushed \subseteq Byte
  /\ dropped \subseteq Part
  /\ quitting \in BOOLEAN

Init ==
  /\ emitted = [s \in Streams |-> 0]
  /\ queue = <<>>
  /\ round = 0
  /\ loop = "looking"
  /\ streams = [f \in Files |-> <<>>]
  /\ written = [f \in Files |-> <<>>]
  /\ unflushed = {}
  /\ dropped = {}
  /\ quitting = FALSE

-----------------------------------------------------------------------------
(* The main thread *)

\* Core::onCommandStream forwards the part a provider read.
Emit(s) ==
  /\ ~quitting
  /\ emitted[s] < MaxParts
  /\ emitted' = [emitted EXCEPT ![s] = @ + 1]
  /\ queue' = Append(queue, [from |-> s, seq |-> emitted'[s]])
  /\ UNCHANGED <<round, loop, streams, written, unflushed, dropped, quitting>>

\* ~CConsoleDaggy, once the application's event loop has returned.
Quit ==
  /\ ~quitting
  /\ quitting' = TRUE
  /\ UNCHANGED <<emitted, queue, round, loop, streams, written, unflushed, dropped>>

-----------------------------------------------------------------------------
(* The file thread *)

Look ==
  /\ loop = "looking"
  /\ loop' = IF quitting THEN "ended" ELSE "waiting"
  /\ UNCHANGED <<emitted, queue, round, streams, written, unflushed, dropped, quitting>>

\* A loop that waits is also woken by quit, perhaps with nothing delivered.
WakeUp ==
  /\ loop = "waiting"
  /\ \/ /\ queue # <<>>
        /\ loop' = "delivering" /\ round' = Len(queue)
     \/ /\ quitting
        /\ loop' = "looking" /\ UNCHANGED round
  /\ UNCHANGED <<emitted, queue, streams, written, unflushed, dropped, quitting>>

\* Mutant of EndOfEvent: the round never ends while there are events.
EndOfEventOnly ==
  /\ loop = "delivering" /\ queue # <<>>
  /\ UNCHANGED <<round, loop>>

\* Every handler below is the end of an event of the round.
EndOfEvent ==
  /\ loop = "delivering"
  /\ round' = round - 1
  /\ loop' = IF round = 1 THEN "looking" ELSE "delivering"

\* The end of onCommandStream.
collect(e) ==
  /\ streams' = [streams EXCEPT ![FileOf[e.from]] = @ \o bytes(e)]
  /\ queue' = Append(Tail(queue), NextWrite)

\* CFile::onCommandStream.  The folder of a file that has nothing collected is
\* made first; when that fails the part is dropped.
OnCommandStream ==
  /\ EndOfEvent
  /\ Head(queue) # NextWrite
  /\ \/ collect(Head(queue)) /\ UNCHANGED dropped
     \/ /\ "mkpath" \in Faults /\ streams[FileOf[Head(queue).from]] = <<>>
        /\ queue' = Tail(queue)
        /\ dropped' = dropped \cup {Head(queue)}
        /\ UNCHANGED streams
  /\ UNCHANGED <<emitted, written, unflushed, quitting>>

\* What may become of the n bytes collected for a file: so many are taken, and
\* so many of these get on disk.  QFile buffers what fits, and takes it whole; the
\* flush may fail.  More goes to the file at once, and may come short.  Nothing is
\* taken if the file does not open (or a direct write fails).
writable(n) ==
  (IF n <= BufferSize
   THEN {[took |-> n, flushed |-> k] : k \in IF "flush" \in Faults THEN 0..n ELSE {n}}
   ELSE {[took |-> k, flushed |-> k] : k \in IF "shortWrite" \in Faults THEN 1..n ELSE {n}})
  \cup (IF "open" \in Faults THEN {[took |-> 0, flushed |-> 0]} ELSE {})

\* Mutant of left: a file that took anything is taken out of streams_.
leftIfShort(f, took) == IF took > 0 THEN <<>> ELSE streams[f]

\* What stays in streams_ of a file that took that many bytes.
left(f, took) == SubSeq(streams[f], took + 1, Len(streams[f]))

\* Mutants of again: write() never, or always, asks for another nextWrite.
neverAgain(ss) == FALSE
alwaysAgain(ss) == TRUE

\* write() sends itself another nextWrite when ss is left in streams_.
again(ss) == \E f \in Files : ss[f] # <<>>

\* CFile::write.
Write ==
  /\ EndOfEvent
  /\ Head(queue) = NextWrite
  /\ \E end \in [Files -> UNION {writable(Len(streams[f])) : f \in Files}] :
       /\ \A f \in Files : end[f] \in writable(Len(streams[f]))
       /\ written' = [f \in Files |-> written[f] \o SubSeq(streams[f], 1, end[f].took)]
       /\ unflushed' = unflushed \cup
            UNION {{streams[f][i] : i \in (end[f].flushed + 1)..end[f].took} : f \in Files}
       /\ streams' = [f \in Files |-> left(f, end[f].took)]
  /\ queue' = IF again(streams') THEN Append(Tail(queue), NextWrite) ELSE Tail(queue)
  /\ UNCHANGED <<emitted, dropped, quitting>>

FileThread == Look \/ WakeUp \/ OnCommandStream \/ Write

Next == (\E s \in Streams : Emit(s)) \/ Quit \/ FileThread

Spec == Init /\ [][Next]_vars

\* The file thread is scheduled.  The main thread owes nothing: commands may
\* be silent, and the application may run for ever.
FairSpec == Spec /\ WF_vars(FileThread)
-----------------------------------------------------------------------------
(* Properties *)

\* The bytes QFile took for a file, with those that wait to be appended to it.
taken(f) == written[f] \o streams[f]

sent(s) == {[from |-> s, seq |-> k] : k \in 1..emitted[s]}
isQueued(e) == \E i \in DOMAIN queue : queue[i] = e
isTaken(e) ==
  LET file == taken(FileOf[e.from]) IN
  \A j \in 1..PartSize : \E i \in DOMAIN file : file[i] = bytes(e)[j]

before(x, y) == x.seq < y.seq \/ (x.seq = y.seq /\ x.pos < y.pos)

\* The bytes of a stream are taken in the order in which it emitted them, none
\* of them twice.
TakenInOrder ==
  \A f \in Files :
    LET file == taken(f) IN
    \A j \in DOMAIN file : \A i \in 1..(j - 1) :
      file[i].from = file[j].from => before(file[i], file[j])

\* The parts of a stream are queued in that order, after the last byte taken.
QueuedInOrder ==
  \A j \in DOMAIN queue :
    queue[j] # NextWrite =>
      /\ \A i \in 1..(j - 1) : queue[i].from = queue[j].from => queue[i].seq < queue[j].seq
      /\ LET file == taken(FileOf[queue[j].from]) IN
         \A i \in DOMAIN file : file[i].from = queue[j].from => file[i].seq < queue[j].seq

QueuedWasSent ==
  \A i \in DOMAIN queue : queue[i] # NextWrite => queue[i] \in sent(queue[i].from) \ dropped

DroppedWasSent == \A e \in dropped : e \in sent(e.from)

TakenWasSent ==
  \A f \in Files :
    LET file == taken(f) IN
    \A i \in DOMAIN file :
      /\ [from |-> file[i].from, seq |-> file[i].seq] \in sent(file[i].from) \ dropped
      /\ FileOf[file[i].from] = f

\* Nothing is queued, dropped or taken, and into its own file, that no stream
\* emitted, and nothing of a part that was dropped.
NothingMadeUp == QueuedWasSent /\ DroppedWasSent /\ TakenWasSent

\* What a buffer lost is not also collected, to be written again.
UnflushedWasWritten ==
  \A b \in unflushed : \E f \in Files : \E i \in DOMAIN written[f] : written[f][i] = b

Accounted == \A s \in Streams : \A e \in sent(s) : e \in dropped \/ isQueued(e) \/ isTaken(e)

\* What a stream emitted is handed to its file, collected, or queued, in the order
\* in which it was emitted, once, whenever parts arrive between writes that come
\* short or fail.  On disk nothing is missing of it but the parts that found no
\* folder and the bytes that a buffer lost after QFile had taken them.
NothingElseLost ==
  TakenInOrder /\ QueuedInOrder /\ NothingMadeUp /\ UnflushedWasWritten /\ Accounted

\* What was collected has a write ahead: streams_ is only written when a
\* nextWrite comes, and each of them may find nothing or leave something.
WriteIsAhead ==
  (\E f \in Files : streams[f] # <<>>) => \E i \in DOMAIN queue : queue[i] = NextWrite

onDisk(s, k) ==
  \A j \in 1..PartSize : \E i \in DOMAIN written[FileOf[s]] :
    LET byte == written[FileOf[s]][i] IN
    byte = bytes([from |-> s, seq |-> k])[j] /\ byte \notin unflushed

\* Streams are aggregated at runtime: a part that was emitted gets on disk
\* unless the application ends first, while files open and buffers are flushed.
GetsOnDisk ==
  \A s \in Streams : \A k \in 1..MaxParts : emitted[s] >= k ~> (onDisk(s, k) \/ quitting)

\* When commands are silent and files take what they are given the file thread
\* comes to rest: the nextWrite signals do not feed themselves.
ComesToRest == <>[](queue = <<>>) \/ <>quitting

\* The aggregated data is complete when the application ends.
CompleteAtExit ==
  loop = "ended" => \A s \in Streams : \A k \in 1..emitted[s] : onDisk(s, k)
=============================================================================
