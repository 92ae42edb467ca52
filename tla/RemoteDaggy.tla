---------------------------- MODULE RemoteDaggy ----------------------------
(***************************************************************************)
(* A Core whose providers are all CSsh2, over sockets that connect, are    *)
(* refused, time out and lose their peer.  Each event is one action: what  *)
(* the event loop delivers, with everything the code runs before it comes  *)
(* back (Ssh2 has the functions).                                          *)
(*                                                                         *)
(* Qt does not report every end of a connection in the same way.  When the *)
(* peer goes, or a closing socket has written its last bytes,              *)
(* QAbstractSocket calls disconnectFromHost, which is virtual and which    *)
(* Ssh2Client overrides; an error may close the socket without it.  The    *)
(* model has both: an end that is signalled, and one that is only a call   *)
(* of the override.                                                        *)
(***************************************************************************)
EXTENDS Ssh2

CONSTANTS
  MaxStarts,   \* bound: calls of Core::start that find it stopped
  MaxTimers    \* bound: check timers of a provider that run at a time

ASSUME RemoteBounds == MaxStarts \in Nat /\ MaxTimers \in Nat

VARIABLE starts   \* how often the application started the session

remoteVars == <<link, chan, cmdState>>
vars == <<coreVars, remoteVars, starts>>

TypeOK ==
  /\ CoreTypeOK
  /\ link \in [Providers -> Links]
  /\ chan \in [Commands -> Channels \cup {NoChannel}]
  /\ cmdState \in [Commands -> ProcessStates]
  /\ starts \in 0..MaxStarts

Init ==
  /\ CoreInit
  /\ link = [p \in Providers |-> NewLink]
  /\ chan = [c \in Commands |-> NoChannel]
  /\ cmdState = [c \in Commands |-> "NotStarted"]
  /\ starts = 0

-----------------------------------------------------------------------------

\* The step that leaves the state w.
Becomes(w) ==
  /\ \A p \in Providers : w.link[p].timers <= MaxTimers
  /\ coreState' = w.core /\ pstate' = w.ps
  /\ link' = w.link /\ chan' = w.chan /\ cmdState' = w.cmd
  /\ UNCHANGED prepared

Prepare ==
  /\ PrepareSucceeds \/ PrepareThrows \/ StartWithoutProviders
  /\ UNCHANGED <<remoteVars, starts>>

\* A loop of Core over the providers of P: after[p] is the state the call for p
\* leaves.  It changes what belongs to p, and the next call looks at what belongs
\* to its own; Core follows the states the providers are left in.
forEachProvider(P, w, after) ==
  LET ps == [p \in Providers |-> IF p \in P THEN after[p].ps[p] ELSE w.ps[p]]
      of(c) == IF Owner[c] \in P THEN after[Owner[c]] ELSE w
  IN [core |-> IF ps = w.ps THEN w.core ELSE coreAfter(w.core, ps),
      ps   |-> ps,
      link |-> [p \in Providers |-> IF p \in P THEN after[p].link[p] ELSE w.link[p]],
      chan |-> [c \in Commands |-> of(c).chan[c]],
      cmd  |-> [c \in Commands |-> of(c).cmd[c]]]

\* Core::start with CSsh2::start: connecting is not a state of the provider.
Start ==
  LET P == {p \in prepared : ~isActiveProvider(pstate[p])}
      begun == [now EXCEPT !.core = "Started"]
  IN
  /\ canStart
  /\ prepared # {}
  /\ starts < MaxStarts
  /\ starts' = starts + 1
  /\ Becomes(forEachProvider(P, begun, [p \in P |-> connectToHost(begun, p)]))

\* CSsh2::stop, from disconnectAll.
stopProvider(w, p, how) ==
  IF ~isActiveProvider(w.ps[p]) \/ w.link[p].session = "Closing" THEN w
  ELSE disconnectFromHost(w, p, how)

\* No provider is started again by a Core that is Finishing.
Stop ==
  LET ending == [now EXCEPT !.core = "Finishing"] IN
  /\ canStop
  /\ \E how \in CloseAnswers(Commands) :
       Becomes(IF activeProviders(pstate) = {} THEN [now EXCEPT !.core = "Finished"]
               ELSE forEachProvider(prepared, ending, [p \in prepared |-> stopProvider(ending, p, how)]))
  /\ UNCHANGED starts

-----------------------------------------------------------------------------
(* The socket *)

TcpConnected(p) ==
  /\ link[p].tcp = "Connecting"
  /\ \E s \in {"FailedToEstablshed"} \cup startSshSession(p, link[p].session) :
       \E how \in IF s = "Established" THEN OpenAnswers(p) ELSE {Silence} :
         Becomes(advance([now EXCEPT !.link[p].tcp = "Connected"], p, s, how))
  /\ UNCHANGED starts

\* A connection that is refused was never connected: only the state is
\* signalled, and it is ignored before the first session.
TcpRefused(p) ==
  /\ link[p].tcp = "Connecting"
  /\ LET off == [now EXCEPT !.link[p].tcp = "Unconnected"]
     IN Becomes(IF link[p].session = "NotEstableshed" THEN off
                ELSE settle(off, p, "FailedToEstablshed"))
  /\ UNCHANGED starts

PeerGoes(p) ==
  /\ link[p].tcp = "Connected" /\ ~link[p].lost
  /\ \/ Becomes(socketEnds(now, p))
     \/ \E how \in CloseAnswers(commands(p)) :
          Becomes(disconnectFromHost([now EXCEPT !.link[p].lost = TRUE], p, how))
  /\ UNCHANGED starts

SocketCloses(p) ==
  /\ link[p].tcp = "Closing"
  /\ Becomes(socketEnds(now, p))
  /\ UNCHANGED starts

\* Mutant of CheckConnection: the timer fires although none was started.
CheckConnectionAnyTime(p) ==
  /\ LET fired == [now EXCEPT !.link[p].timers = @ - 1]
     IN Becomes(IF link[p].tcp = "Connected" THEN fired
                ELSE endSession(fired, p, "FailedToEstablshed"))
  /\ UNCHANGED starts

\* Mutant of CheckConnection: a connection that was refused is not looked at.
CheckOnlyConnecting(p) ==
  /\ link[p].timers > 0
  /\ LET fired == [now EXCEPT !.link[p].timers = @ - 1]
     IN Becomes(IF link[p].tcp # "Connecting" THEN fired
                ELSE endSession(fired, p, "FailedToEstablshed"))
  /\ UNCHANGED starts

\* The check that follows ConnectingState by the timeout of the source.
CheckConnection(p) ==
  /\ link[p].timers > 0
  /\ LET fired == [now EXCEPT !.link[p].timers = @ - 1]
     IN Becomes(IF link[p].tcp = "Connected" THEN fired
                ELSE endSession(fired, p, "FailedToEstablshed"))
  /\ UNCHANGED starts

-----------------------------------------------------------------------------
(* Data arrives: readyRead reaches the client and every channel.  A channel *)
(* that is not spoken to finds nothing new, so each is an action of its own.*)

receives(p) == link[p].tcp = "Connected" /\ ~link[p].lost

ClientReads(p) ==
  /\ receives(p)
  /\ \E s \in handshake(p, link[p].session) :
       \E how \in IF s = "Established" THEN OpenAnswers(p) ELSE {Silence} :
         Becomes(advance(now, p, s, how))
  /\ UNCHANGED starts

ProcessReads(c) ==
  /\ exists(now, c)
  /\ receives(Owner[c])
  /\ session(now, c) \in {"Established", "Closing"}
  /\ \E how \in Answers(chan[c]) : Becomes(processReads(now, c, how))
  /\ UNCHANGED starts

\* Mutant of DeleteChannel: the session does not follow its last channel.
DeleteChannelOnly(c) ==
  /\ exists(now, c) /\ chan[c].doomed
  /\ Becomes([now EXCEPT !.chan[c] = NoChannel])
  /\ UNCHANGED starts

\* A posted deletion runs.  CSsh2 disconnects when no channel is left.
DeleteChannel(c) ==
  /\ exists(now, c) /\ chan[c].doomed
  /\ LET gone == [now EXCEPT !.chan[c] = NoChannel]
     IN Becomes(IF channels(gone, Owner[c]) # {} THEN gone
                ELSE disconnectFromHost(gone, Owner[c], Silence))
  /\ UNCHANGED starts

Next ==
  \/ Prepare \/ Start \/ Stop
  \/ \E p \in Providers :
       \/ TcpConnected(p) \/ TcpRefused(p) \/ PeerGoes(p) \/ SocketCloses(p)
       \/ CheckConnection(p) \/ ClientReads(p)
  \/ \E c \in Commands : ProcessReads(c) \/ DeleteChannel(c)

Spec == Init /\ [][Next]_vars

\* The event loop runs posted deletions, timers expire, a connection attempt
\* is answered, and a server that is asked to open or to close a channel does.
\* No command ends by itself, and no connection is lost, by any promise.
Answered(c) == ProcessReads(c) /\ chan'[c] # chan[c]
Asked(c) == exists(now, c) /\ chan[c].at \in {"Opening", "Closing"} /\ Answered(c)

Fairness ==
  /\ \A p \in Providers :
       WF_vars(CheckConnection(p)) /\ WF_vars(TcpConnected(p) \/ TcpRefused(p))
  /\ \A c \in Commands : WF_vars(DeleteChannel(c)) /\ WF_vars(Asked(c))

FairSpec == Spec /\ Fairness
-----------------------------------------------------------------------------
(* Properties *)

\* A libssh2 channel exists only within a session: destroySsh2Objects frees
\* the session, and a channel left behind would be used after it.
HandleHasSession ==
  \A c \in Commands :
    (exists(now, c) /\ chan[c].handle) => session(now, c) \in {"Established", "Closing"}

\* An established session is closed only by the deletion of its last channel
\* or by a stop: as long as it is established it has a channel.
EstablishedHasChannel ==
  \A p \in Providers : link[p].session = "Established" => channels(now, p) # {}

\* No channel of a plain command is left without an event ahead: it waits for
\* an answer of the server, or for its own deletion.
ChannelHasEvent ==
  \A c \in Commands \ Restart :
    exists(now, c) =>
      \/ chan[c].doomed
      \/ chan[c].at = "Opening" /\ chan[c].open
      \/ chan[c].at \in {"Opened", "Closing"} /\ chan[c].handle

\* A Core that is Finishing has a provider to wait for.
FinishingHasProvider == coreState = "Finishing" => activeProviders(pstate) # {}

\* start() returns with no provider active.  In an application that starts
\* the session once, something is always ahead that makes one of them report:
\* a check timer or a socket that is not idle.
StartIsNoticed ==
  (starts = 1 /\ coreState = "Started" /\ activeProviders(pstate) = {})
    => \E p \in prepared : link[p].timers > 0 \/ link[p].tcp # "Unconnected"

\* No process is executed on a session that is being closed, whatever answers
\* were on their way when the close began.
NoExecWhileClosing ==
  [][\A c \in Commands :
       (link[Owner[c]].session = "Closing" /\ NoChannel \notin {chan[c], chan'[c]})
         => (chan'[c].process = "Started" => chan[c].process = "Started")]_vars

\* A session that is being closed comes to its end, or to where only the
\* socket's own end is missing, unless the connection was lost under it.
ClosingEnds ==
  \A p \in Providers :
    (commands(p) \cap Restart = {}) =>
      ((link[p].session = "Closing")
         ~> (link[p].session # "Closing" \/ link[p].tcp # "Connected" \/ link[p].lost))

\* A source whose commands have all ended closes its session by itself.
CompletionEnds ==
  \A p \in Providers :
    (/\ link[p].session = "Established"
     /\ \A c \in commands(p) : exists(now, c) => chan[c].process \in {"Finished", "FailedToStart"}
     /\ commands(p) \cap Restart = {})
      ~> (link[p].session # "Established")

\* The first start, if its connections are refused or never answered, ends the
\* session; one that is answered makes a provider active, or waits for the
\* peer.  A later start has no such promise: the socket it finds may be busy
\* with the session before.
StartIsAnswered ==
  (starts = 1 /\ coreState = "Started" /\ activeProviders(pstate) = {})
    ~> (\/ coreState = "Finished" \/ activeProviders(pstate) # {}
        \/ \E p \in prepared : link[p].tcp = "Connected")

\* A stop reaches every provider: when Core is Finishing none has its commands
\* begun and is not told to end them.
FinishingIsFinishing == coreState = "Finishing" => \A p \in prepared : pstate[p] # "Started"

\* restart: a command that ended in an established session is started again.
RestartRestarts ==
  \A c \in Restart :
    (cmdState[c] = "Finished" /\ session(now, c) = "Established")
      ~> (cmdState[c] # "Finished" \/ session(now, c) # "Established")

\* Every source keeps the promise of a session for itself: processes are begun
\* while it is Started, a stop only lets them drain, and when it has ended, or
\* comes up again, nothing of it is left.
ProviderPromise(p) == INSTANCE Session WITH
  Commands <- commands(p),
  phase    <- promised(pstate[p]),
  working  <- {c \in commands(p) : exists(now, c) /\ chan[c].handle}

KeepsProviderPromise ==
  /\ \A p \in Providers : ProviderPromise(p)!Init
  /\ [][\A p \in Providers : [ProviderPromise(p)!Next]_(ProviderPromise(p)!vars)]_vars
=============================================================================
