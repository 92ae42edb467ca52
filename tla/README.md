# daggy in TLA+

Specifications of daggy's aggregation core (`src/DaggyCore`): Core, its three
kinds of providers, the file aggregator, the sources it is given, and the two
programs that own it, the console application (`src/Daggy`) and one written
against the C interface. They are model-checked with TLC, and their safety is
proved with TLAPS. Paths below are relative to the repository; line
numbers are in `PROJECT.json`.

## The system

An application owns a **Core**. Core builds one **provider** per source
(`prepare`), starts and stops all of them, and forwards what they signal to
**aggregators**. Everything but the file aggregator runs on one thread, in one
Qt event loop, with direct signal connections: a provider's `setState` runs
Core's slot, and what Core calls from there, before it returns.

| component | state | operations | interacts through |
|---|---|---|---|
| Core (`Core.cpp`) | `state_`, the providers among its children, `sources_` | `prepare`, `start`, `stop`, `onDataProviderStateChanged`, forwarding slots | calls providers; their signals are direct |
| Provider base (`IProvider.cpp`) | `state_`, `commands_`, `streams_meta_` | `setState`, `restartCommandsCount`, `metaStream` | |
| Local provider (`CLocal.cpp`) | its `QProcess` children | `start`, `stop`, slots of started, error, read, finished, destroyed; `startProcess`, `terminateAll` | process signals, deferred deletions |
| ssh provider (`CSsh.cpp`) | a master process, a check timer, and a local provider | `startMaster`, `controlTerminate`, `stopMaster` | `ssh` processes |
| ssh2 provider (`CSsh2.cpp`, `ssh2/*`) | TCP socket, session, channel and process state machines | socket slots, libssh2 calls, channel open and close | socket events, nested signals |
| File aggregator (`CFile.cpp`) | `streams_`: bytes collected per file | `onCommandStream`, `write` | queued signals, on a thread of its own |
| Console aggregator, callbacks | none | print, call C functions | direct signals |
| Console application (`CConsoleDaggy.cpp`) | `daggy_core_`, `need_hard_stop_`, timers, the file thread | `prepare`, `start`, `stop`, SIGINT poll, timeout, `fixPcaps`, destructor | owns Core and the file thread |
| C interface (`core_ansi_c.cpp`) | the application object | create, start, stop, destroy, connect, run in thread | calls Core |
| Sources (`Sources.cpp`) | none | JSON and YAML conversion, defaults, parameters | |
| Fabrics, errors, types | none | construction; enumerations | |

### What is hard

* **Nested signals.** The end of a process, the provider's state, Core's
  reaction and a restart or reconnect are one call stack. A slot may find the
  state its own caller is about to change.
* **Late ends.** `stop` only kills. Ends, errors and deletions arrive later, in
  any order, and are handled by code that also serves a provider that is not
  being stopped, or that was started again.
* **Two objects per command.** A process object outlives its process until the
  event loop deletes it, and only that deletion makes the provider look for its
  own end.
* **Failures inside calls.** `QProcess::start` may fail before it returns;
  `close` and the destructor kill, wait and deliver signals before they return.
* **Another thread.** Parts wait in the file thread's queue and in `streams_`,
  are written late, in pieces or not at all, through a buffer whose flush nobody
  looks at, and the thread is told to quit while they wait.
* **Remote sessions.** Socket, session, channels and processes are four state
  machines that signal each other synchronously; the end of one channel may end
  the session, and with it delete the channel that is reporting.
* **Starts that are not noticed.** A remote provider and an ssh provider are not
  active until a connection is there. What stops, fails or reconnects in that
  time finds a provider that says it does nothing.
* **Timers nobody cancels.** The check of a connection, the check of an ssh
  master and the timeout of the application fire whatever happened since.
* **Two formats.** One document may be read as JSON and as YAML, by code that
  decides differently what a scalar is.

### What correct means

* Core: `Started` or `Finishing` exactly while some provider is active; a stop
  reaches every provider, is carried out, and nothing starts after it.
* Local provider: no process outlives its provider's session; a restart command
  always runs, once; the end of the last process is noticed.
* Aggregators: what they are told last about a command agrees with the command.
* File aggregator: parts of a stream are handed to its file once, in order, all of
  them, and reach the disk while it takes what it is given.
* ssh2 provider: a session is closed when nothing is left to do in it and only
  then, nothing is used after the session is freed, a close does not start
  anything, and a start has an answer.
* ssh provider: a stop ends every master and is carried out, and no command is
  started twice.
* Console application: a stop request leads to the end of the program, the end of
  Core does not pass unnoticed, and Core is deleted once.
* Sources: a document means the same in both formats as long as it quotes only
  what YAML takes for a text, and whatever is accepted has work to do.
* C interface: a document is taken as a whole or not at all, as in the console
  application.

The hazards, each at its line with the properties that watch it, are listed in
`PROJECT.json`.

## Modules

| module | what it is |
|---|---|
| `Core` | Core's state and its part of every step: `prepare`, guards of `start` and `stop`, `coreAfter` and `reconnects` (the two tests of `onDataProviderStateChanged`) |
| `LocalDaggy` | Core composed with local providers: one action per event of the event loop or call of the application |
| `Ssh2` | the functions of the ssh2 provider, as operators from the state a call finds to the state it leaves |
| `RemoteDaggy` | Core composed with ssh2 providers and the network: the actions that apply `Ssh2` |
| `SshDaggy` | `LocalDaggy` extended by the masters and timers of ssh providers |
| `Session` | the abstract promise: a phase and the set of commands at work |
| `FileAggregator` | the file aggregator and the event loop of its thread |
| `Sources`, `Fabrics` | what becomes of a document: sources, then providers' settings |
| `Programs` | a program with one Core: document to providers, Core seen from outside |
| `ConsoleDaggy`, `CInterface` | the console application; a program using the C interface |
| `FrontEnds` | either of the two, given any document |
| `MCLocalDaggy`, `MCRemoteDaggy`, `MCSshDaggy`, `MCFileAggregator`, `MCFrontEnds` | constants for TLC |
| `LocalDaggyProofs`, `LocalDaggyCommandProofs`, `LocalDaggyRefinement` | theorems about `LocalDaggy` |
| `SshDaggyProofs`, `RemoteDaggyProofs`, `FileAggregatorProofs`, `FrontEndsProofs` | theorems about the module each is named for |
| `FormatsProofs` | the theorem about the two convertors of `Sources` |

`Core` is shared by `LocalDaggy`, `RemoteDaggy` and `SshDaggy`; `Programs` uses a
Core as `Session` describes it.

### LocalDaggy

`coreState`, `prepared` and `pstate` are `Core::state_`, Core's provider
children and `IProvider::state_`. `procs[c]` counts the process objects of
command `c` by phase. Counting loses nothing: the code tells the objects of a
command apart only by `QProcess::state()`. The phases are `starting` and
`running` (that state), `doomed` (running, but its deletion is posted: after a
read error) and `dead` (not running, deletion posted). `cmdState` is what the
aggregators were last told.

An action is everything the code does before it returns to the event loop:

* `ProcessFinished`, `ProcessFailedToStart`, `ProcessCrashed`,
  `ProcessReadError` are the slots for those signals with `onProcessStop`, a
  restart included. QProcess signals a death by a signal twice, as an error and
  as an end, so `onProcessStop` runs twice in `ProcessCrashed`.
* `startProcess(c, r, n, f)` is `n` starts of which `f` fail inside the call. A
  restart command that fails at once starts again from the nested handler.
* `DeleteDead` and `DeleteDoomed` run a posted deletion and, in `Destroyed`,
  `onProcessDestroyed`, Core's slot, and the reconnect.
* `Start` and `Stop` are Core's functions with every provider's. `Stop` kills
  running processes (their ends are later events) and closes starting ones,
  which are dead when `close` returns.
* Calls that are refused change nothing and are stuttering steps.

### Session

What an application may rely on: work begins only while the session is
`Started`, a stop request admits nothing new and is carried out, and a session
that is `Finished` left nothing at work. `LocalDaggy` implements it with
`phase <- coreState` and `working <-` the commands that have a process
(`KeepsSessionPromise`, liveness included).

The same promise is made by every source alone, of each kind, as far as safety goes
(`KeepsProviderPromise`): `ProviderPromise(p)` is a `Session` of the commands of `p`.

| | `phase` | `working` |
|---|---|---|
| local and ssh (`LocalDaggy`) | `pstate[p]` | commands of `p` with a process |
| ssh2 (`RemoteDaggy`) | `promised(pstate[p])`: a source that is `Starting` or `FailedToStart` counts as `Finished` | commands of `p` with a libssh2 channel |

For ssh and ssh2 sources it is all there is to promise: a stop that comes before the
connection is not noticed, and the source starts under a Core that is `Finished`.

### FileAggregator

Core's `commandStream` posts a part to the file thread (`Emit`); the loop looks
for a quit request, waits, and delivers a round of events (`Look`, `WakeUp`,
`EndOfEvent`: Qt delivers the events that were posted when it began, then looks
again). `OnCommandStream` and `Write` are the two slots. A part is a record of
its stream and its number; a part has `PartSize` bytes, so that a write
can come short inside a part. `written` is what `QFile::write` took, and what the
code then removes from `streams_`. The file is opened with a buffer: up to `BufferSize` bytes
are taken whole and flushed by `QFile`'s destructor, and what a flush loses,
`unflushed`, nobody is told; more bytes go to the file at once, and the call says how many.
`dropped` records the parts whose folder could not be made. They are reported to
`CFile`'s own slot, which does nothing. `FileOf` is the result of `name()`; two streams may
have one file, as names joined by a dash can be equal.

### Ssh2 and RemoteDaggy

`link[p]` is the `Ssh2Client` of provider `p`: its socket, session state and
connection checks under way. `chan[c]` is the `Ssh2Process` of command `c`: the
states of channel and process, whether the device is open, whether there is a
libssh2 channel, and whether its deletion is posted.

One call of the code runs through all four state machines and Core before it
returns. `Ssh2` writes each function as an operator on a record of the whole
state, `open(w, c, how)` for `Ssh2Channel::open` and so on, nested where the
code nests. `how` is what libssh2 answers. The actions of `RemoteDaggy` choose an event and an
answer, and take the state that comes out.

Loops are written for all their elements at once: `forEach` over the channels of a
session, `forEachProvider` over the providers of Core. The order does not matter: a
call in these loops changes only what belongs to its own channel or provider, and
reads nothing of another's. Two things are shared. Core's state follows from
the states the providers are left in, because a loop of `start` changes none of them, and one
of `stop` only ends some, so that nobody is active in the middle only if nobody is at the end.
And a session ends with its last open channel: while `closeChannels` runs, the
channel it is closing still counts as open, so that none of its calls is the one that finds
the last gone.

Decisions about code outside the repository:

* An answer is "ok", "fail" or "again" to an open or exec, "done" or "again" to a
  close. An open cannot succeed in the call that sends it.
* Without a libssh2 channel `libssh2_channel_close` returns an error, and the code
  takes an error for the end.
* `libssh2_userauth_authenticated` returns 0 as long as nobody is, and the code
  takes 0 for success; a server that wants no authentication leaves the session
  in the state it was in.
* `QAbstractSocket` calls `disconnectFromHost`, a virtual function that
  `Ssh2Client` overrides, when the peer is gone; an error may close the socket
  without it. `PeerGoes` has both. Whether a socket that is closing ever reports
  it is left open: `SocketCloses` has no fairness.
* A connection that is refused is reported by a later event.

### SshDaggy

`master[p]` is `ssh_master_`: no object, one that does not run, or a process that
is connecting, serves the control socket or runs without one. `timers[p]` counts
the timers that poll. Sources with the same host share the socket path, hence
`served`. `CheckMaster` is a tick whose checks succeed; it is then
`CLocal::start`, and everything below is `LocalDaggy`. The code looks at the exit
codes of the two check processes and not at whether they ran. One that
could not be started has exit code 0, so a check succeeds if somebody serves the
path or, where processes fail to start (`"syncFail"`), without anybody (`checkSucceeds`). A `control` path in the source, or a
master of an earlier session, makes `start()` return success and do nothing; that
another program serves the path is not modelled.

### Sources and Fabrics

A document is a tree of nodes as a parser sees it. `Nodes` holds every node of the
documents there are, with the nodes below it (`NodesAssumption`); documents are finite
(`DepthAssumption`). `json` and `yaml` are the two
convertors, `jsonAccepts` and `yamlAccepts` what they do not refuse, `toVariant` the value of a scalar in
each. Texts are members of a small set, chosen so that each test of
`scalarToVariant` has a text of its own, and so has each kind of answer of
`YAML::Node::as<bool>`, which reads `yes` and `no` (`YesTexts`, `NoTexts`), quoted or not, where
`scalarToVariant` reads texts; no text of a number is empty or one of
these words (`IntegerTextsAssumption`). `Fabrics` adds what each fabric checks and
fills in.

### Programs, ConsoleDaggy, CInterface, FrontEnds

`Programs` is the chain both programs share: a text is read, converted and
prepared, each of which can fail; then Core is started, stopped and deleted. Of a
source it has what Core looks at. `work` are the active sources: a local one is
active at once, an ssh or ssh2 one is `awaited`, and may come up (`SourceComesUp`), fail
first (`SourceFails`) or stay away. An ssh source that has a control path or whose
master cannot be executed is not even awaited. A stop with nothing active is the
end of the session and leaves what is awaited alone (`coreStopped`).

`ConsoleDaggy` adds the poll of SIGINT, the timeout and `need_hard_stop_`. `exit()` only
sets a flag, so an event of the same pass over the event sources still arrives:
`loop` is then "exiting". A timer fires once in a pass (`polled`). The file thread
is `FileAggregator`'s. `CInterface` has one action for each function. A Core is
started in any state of the application, because the function does not ask for
it; the guards of the others are those of a program that keeps to the examples.

## Runs

| run | checks | shows |
|---|---|---|
| `local_faults` | the type invariant, six safety invariants, `NothingStartsAfterStop` (which compares what each step begins, so that a reconnect in the step of a deletion counts), `CompletionEnds`, `KeepsSessionPromise`, `KeepsProviderPromise` | Core and local providers keep all of them while processes crash, fail to start and lose their pipes; that a stop ends is part of the session's promise, that no process is left behind of the provider's |
| `local_crash` | `OneProcessPerCommand`, violated | one crash of a restart command starts it twice |
| `file_faults` | `NothingElseLost`, `WriteIsAhead` and the type invariant | every part is taken by its file, collected, queued or dropped for want of a folder, in order, and only a failed flush loses what was taken |
| `file_progress` | `GetsOnDisk`, `ComesToRest` | parts reach their files, and the `nextWrite` signals die out |
| `file_exit` | `CompleteAtExit`, violated | the file thread may end with parts in its queue |
| `remote_faults` | the type invariant, five safety invariants, `NoExecWhileClosing`, `KeepsProviderPromise` | sessions, channels and Core stay in step while connections are refused, late, lost and closed |
| `remote_progress` | `ClosingEnds`, `CompletionEnds`, `StartIsAnswered` | a session that is stopped or has nothing left is closed, and a first start that reaches nobody ends |
| `remote_late_start` | `FinishingIsFinishing`, violated | a stop during the handshake is forgotten: the commands start under a Core that is `Finishing` |
| `remote_restart` | `RestartRestarts`, violated | a remote command with `restart` that ended is not started again |
| `ssh_master` | `OneProcessPerCommand`, `SignalledEndIsEnd`, `NoMasterWhileFinishing`, `StopEnds` and the type invariant | masters, their timers and checks that do not run leave a command one process, and a stop ends every master and is carried out, unless a check that did not run starts a source under it |
| `ssh_late_start` | `FinishedIsFinished`, violated | a stop before the master is connected is undone by the timer |
| `front_ends` | `FormatsAgree`, `FinishIsSeen`, `OneDeletion`, `InterruptEnds` and the type invariant | both programs, from any document to their end |

**Bounds.** `local_faults` runs three providers with a command each: a plain one,
one whose source has `reconnect`, one with `restart`, so that each provider's
end can be the last and each can be late. `local_crash` has two
providers, one of which has a plain and a `restart` command. `MaxObjects` (3) is
the number of process objects of a command at a time: a restart needs two, a
crash three. Steps that would make a fourth are left out, which cuts off only
longer pile-ups of the same objects.
`MaxSyncFailures` (1) is the number of starts that fail inside one call; a
second failure repeats the first. The file runs have two parts of each stream on
two files: enough for a part to arrive before, between and after two writes that come
short. In `file_faults` two of three streams share a file, and a part has one byte; in
`file_progress` and `file_exit` it has two, and a write may end inside it.
`BufferSize` (2) is less than what may be collected, so that some writes are
buffered and some direct.

`remote_faults` has two sources, one with a plain and a `restart` command and
password authentication, one with `reconnect`; the liveness run has one source
with two plain commands, so that a channel can be the last or not. `MaxStarts`
is the number of calls of `Core::start`: one in `remote_faults`, where a reconnect gives a
second session without one, and two in `remote_progress`; the theorems hold for any number.
`MaxTimers` (2) is the number of connection checks, or of master timers, of a
provider at a time: one that is late and one that is due. `ssh_master` has two
sources on one host and one with a control path of its own; a process that dies
of a signal or loses its pipe is left to the local runs. `front_ends` takes some 300
documents: one source with every kind of value in every field, beside a plain
one, and documents that are wrong further up.

Deadlock is not checked: when all commands ended and the application makes no
call, or the program has ended, there is nothing to do.

**Fairness.** `LocalDaggy` assumes that the event loop runs posted deletions, and
that a process killed by `stop` (SIGKILL) ends and is reaped. It does not assume
that a command ends by itself, nor that the application calls anything.
`FileAggregator` assumes that the file thread is scheduled; liveness is checked
where files open and buffers are flushed, because a file that never opens keeps
its data in memory, and what a flush loses is lost.
`RemoteDaggy` assumes that timers expire, posted deletions run, a connection
attempt is answered, and a server that was asked to open or close a channel
does; it assumes neither that a command ends nor that a lost connection is
reported. `SshDaggy` assumes what `LocalDaggy` does: no master need ever
connect. `ConsoleDaggy` assumes that the loop polls and returns, that `main` goes
on, and that a local source that is being stopped ends. An ssh or ssh2 source owes
nothing, because a stop may miss its connection, so `InterruptEnds` promises that one
CTRL+C ends a program of local sources, and a second one any program.

**Findings.** Five runs are violated and reported in `PROJECT.json`: the double
start after a crash, output lost when the console application ends, the remote
restart that does nothing, the ssh2 commands that start under a `Finishing` Core,
and the ssh commands that start under a `Finished` one. Beside
them the model shows that the test `restartCommandsCount() == 0` in
`onProcessDestroyed` is never what keeps a provider `Started`: by
`RestartKeepsAlive` a `Started` provider with a restart command always has an
active process.

Some more facts met while modelling have no run of their own: `-f yaml` has no effect
because `textFormatType` takes the suffix of the option's text, so `yaml` is
read as JSON (`Parse`); the `port` and `timeout` of an ssh2 source are always
refused, because neither convertor makes the unsigned value its fabric asks for
(`ssh2Fields`), although the documentation lists them; in YAML an empty text is `true` and
a quoted number is a number (`scalarToVariant`). `FormatsAgree` says where this
and `as<bool>` tell: a quoted `"true"`, `"on"` or `""` restarts a command in YAML only, a
quoted `"no"`, `"n"` or `"off"` reconnects a source in JSON only, and parameters that quote such
texts have other types, so that an ssh source may be refused. A check of an ssh master
that cannot be run counts as success, and the commands start without a master
(`checkSucceeds`). A console application whose sources are ssh or ssh2 may wait for
ever with a `Started` Core and nobody active (`CoreStarts`); `FinishIsSeen` excludes it
only for a Core that is `Finishing`. What a failed flush loses is noticed by nobody
(`writable`), and the pcap conversion removes a file without looking whether its
copy was written (`CConsoleDaggy.cpp`, `fixPcaps`; not modelled). A master that failed to start makes later
starts succeed without effect (`startsMaster`); a source whose id is empty and that
names no host gives an ssh provider with an empty host (`sshHost`). A second start
of an ssh2 source may go unnoticed: the check of the connection ends the first session
while the socket still connects, `connectToHost` of the second start then does nothing,
and a refusal finds a session that has already failed. Core stays `Started`, with
nothing ahead, until the application stops it. `StartIsNoticed` therefore
speaks of an application that starts its session once, as the console
application does.

## Proofs

Each of the theorems is for every value of the constants: any providers, commands,
hosts, streams, files and documents, every choice of `restart` and `reconnect`, every fault and
every bound. They rest on the named assumptions only: there is a
provider, every provider has a command, a stream is no `"CFile"` (the name of the
thread's own signals), a part has at least one byte, documents are finite trees of
nodes, no text of a number is empty or a word for true or false, and the constants have their
types.

Every safety property the passing runs check is proved: invariants, action
properties and the safety of refinements. The
argument is the same everywhere: no property is inductive alone, an
invariant that contains them is, and the step lemma of a module (`Preservation`,
`RemotePreservation`...) has one lemma for each action below it. TLC checked each
of these invariants on the runs' instances before it was proved.

**LocalDaggy.** `IInv` is the conjunction of the invariants of `local_faults` but
`SignalledAliveIsAlive`, with two additions. `NoOrphanProcess` says that only a
provider that is `Started` or `Finishing` has a process. `LocalStates` says that a local
provider is never `Starting` or `FailedToStart` and that one that is not Core's
child is `NotStarted`; without it a provider could be active unseen by Core.
Within `IInv`, `NoOrphanProcess` lets `Start` conclude that a provider it starts
has no process left; `RestartKeepsAlive` gives that the end of a provider is not
noticed while a restart command runs; `PhaseMatchesProviders` needs
`StopReachesAll` in the step that ends the last provider. `LocalInv` is the part
that the handlers of processes keep whatever Core does.

`LocalDaggyRefinement` proves the action property `NothingStartsAfterStop` and
that `LocalDaggy` implements `Session`: initial states map to initial states and
each step to a step of `Session` or to a stutter (`StepHasShape`). For a source
alone (`ProvidersKeepPromise`) `ProviderShape` is what a step may not do to it: return to the
beginning, go from a stop to a start, begin a command while stopping. The rest of the promise is
`NoOrphanProcess` before and after (`ShapeIsPromised`), and a lemma for each kind of step shows its
shape.

`LocalDaggyCommandProofs` proves `SignalledAliveIsAlive`, and, from the assumption
that no process crashes and no pipe fails (`Faults` holds at most `syncFail`),
`OneProcessPerCommand` and `SignalledEndIsEnd`. Their strengthening is
`AllSingle`: no object is `doomed`, and at most one is `starting` or `running`.
`StartsFromRest` is where the session before matters: a `start` that is not
refused finds no process.

**SshDaggy.** An ssh provider is a local one that somebody else starts, so what
`IInv` says of Core does not hold: commands run under a Core that is `Finished`.
`SshInv` has `LocalInv`, `AllSingle` and two facts about masters.
`NoMasterWhileFinishing` is what a stop leaves: if it has something to wait for it
deletes the master of every provider, and the reconnect that would make
another needs a `Started` Core. No theorem rests on checks that fail when
nobody serves: the timers of earlier sessions may start a provider at any time, and
`OneProcessPerCommand` and `SignalledEndIsEnd` hold because `CLocal::start` looks at its own
state. The promise of a source does not
mention Core, so `SshProvidersKeepPromise` reuses the lemmas on shapes from
`LocalInv` alone, with a master's check in the place of a start.

**RemoteDaggy.** `RemoteInv` relates the four state machines between two events. A
provider is in the state of its session (`Follows`). A session that comes up or is
established has a connected socket, and one that has not begun but connects has a check timer
(`LinkOK`). A channel exists only in a session that is established or closing, over a
connected socket, and is open only while it is established (`ChannelOK`). A
channel of a plain command is one of three kinds or is doomed (`Shape`, `Lives`). A
Core that is `Finishing` has an active provider (`Waits`). `Noticed` strengthens
`StartIsNoticed` from one provider to all: with none active after the first
start, each still has its timer or a busy socket. A handler runs through states in which
none of this holds, so the lemmas follow the nesting of the code: each operator of `Ssh2` has
one that says what it changes (`Touched`: one channel, `Turned`: one provider and
Core) and what it establishes, among them `Over`, that the end of a session leaves
no channel. `Together` puts the results of a loop over providers back into one state.
What a handler does to a session is `Proceeds`: no step leads from a closing session to
an established one or back to the beginning, and in a closing one nothing gets a
libssh2 channel. `NothingExecutesWhileClosing` follows, because a channel
that is executed is open. So does `ProvidersKeepPromise`: `WorkInSession` has nothing at work
outside of a session, and `PromisedStep` makes a step that proceeds between two good states one of
`Session`.

**FileAggregator.** `NothingElseLost` speaks of bytes by position: those of a stream are in order
in what was taken for its file (`TakenInOrder`), those queued come after them
(`QueuedInOrder`), nothing is there that was not sent (`NothingMadeUp`), every part
sent is taken whole, queued or dropped (`Accounted`), and what a flush lost had
been written and will not be again (`UnflushedWasWritten`). It is inductive with the type
invariant, `WriteIsAhead` and `RoundGoesOn` (a round that goes on has an event
left): a write moves bytes from `streams` to `written` and leaves what was
taken as it is, a part that arrives goes behind everything of its stream.

**FrontEnds.** `FrontInv` covers both programs. `PreparedWorks` and `ConsoleStages` say
how far the program is when a loop runs and whose work it is, `DeletedInLoop` where a deleted Core
can be. `FinishIsSeen` is kept because whatever makes Core `Finished`, the last end of a
source, a connection that fails or a stop with nothing active, ends the loop in the same
step. That every provider has commands (`TypeOK`) goes back to the convertors: what they
accept has some (`CommandsAreWellFormed`), and every provider comes from a source.

`FormatsMeanTheSame` is about documents of any depth, so it needs an induction. The
prover cannot use the library's induction rule, but it can use that a set of nodes, if there is
one, has a least member (`WFMin`): of the nodes on which the convertors differ, take one
without such a node below it. That there is one is `DepthAssumption`. It is not a map, because
`toVariant` of a map is made of its parts (`ToVariantEquation`), and not a
scalar, because the two readings of one agree if it is legal JSON and a quoted text is a word
(`VariantsAgree`). So parameters agree where words are quoted (`ParametersAgree`). What is read
on the way to them is a scalar: `RestartDiffers` and `ReconnectDiffers` go through its
kinds and give exactly the texts on which the formats differ. That the recursive functions satisfy their
equations is proved first, each by a function that does.

**Only model-checked:** all liveness (`CompletionEnds`, `StopEnds`, `GetsOnDisk`,
`ComesToRest`, `ClosingEnds`, `StartIsAnswered`, `InterruptEnds`) and the fairness of
`Session`, because fairness and `ENABLED` are outside the prover; and the five
properties that are violated.

## Not modelled

* A Core whose sources have different kinds of providers. Providers meet only in
  Core, which asks each for nothing but its state.
* The destructors of the providers: `Programs` has what deleting a Core leaves.
* A local command with an empty `exec` and `restart`: `startCommand` then fails
  at once every time and the nested restart never returns.
* The pcap conversion of `-x`, which runs when the event loop has returned and works on
  files that the file thread may still be writing.
* `metaStream`, the text of file names, `getParameters`, lists and numbers with a
  point in a source.
* The data that channels deliver, error texts, arguments of `ssh`, options and
  templates of the command line; the Windows build.
* In the C interface, several Cores or applications, and connected callbacks,
  which forward what Core signals. The console aggregator prints it.

## Plan

1. **Data of the signals**: that what aggregators were told last about a remote
   command agrees with its channel, as `SignalledAliveIsAlive` does for local ones.
2. **Mixed sources**: a Core with providers of each kind. `ProviderPromise` is what
   such a Core can rely on.
3. **Streams**: `metaStream` numbers and `name()` as operators, composed with
   `FileAggregator`.
