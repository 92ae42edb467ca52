-------------------------------- MODULE Ssh2 --------------------------------
(***************************************************************************)
(* The ssh2 provider: CSsh2 with its Ssh2Client (a QTcpSocket that carries *)
(* one libssh2 session) and a Ssh2Process, which is a Ssh2Channel, for     *)
(* every command.  The four signal each other over direct connections: a   *)
(* channel's state moves its process, CSsh2, the session, CSsh2 again and  *)
(* Core before the call that changed it returns.                           *)
(*                                                                         *)
(* The functions of the code are operators here that take the state a call *)
(* finds and return the state it leaves, with the slots it runs in between *)
(* applied in their order.  A state is a record (now); the actions of      *)
(* RemoteDaggy choose what the network and libssh2 do and take such a      *)
(* state as the next one.                                                  *)
(***************************************************************************)
EXTENDS Core

CONSTANTS
  Commands,   \* every command of every source
  Owner,      \* the provider that runs it
  Restart,    \* those with restart: true
  PasswordAuth \* the providers whose source has a passphrase

ASSUME Ssh2Assumption ==
  /\ Owner \in [Commands -> Providers]
  /\ \A p \in Providers : \E c \in Commands : Owner[c] = p
  /\ Restart \subseteq Commands
  /\ PasswordAuth \subseteq Providers

VARIABLES
  link,       \* per provider its Ssh2Client: socket, session, check timers
  chan,       \* per command its Ssh2Process, or NoChannel
  cmdState    \* per command, the last state signalled to the aggregators

SocketStates == {"Unconnected", "Connecting", "Connected", "Closing"}
SessionStates ==
  {"NotEstableshed", "StartingSession", "GetAuthMethods", "Authentication",
   "Established", "FailedToEstablshed", "Closing", "Closed", "Aborted"}
ChannelStates == {"NotOpen", "Opening", "FailedToOpen", "Opened", "Closing", "Closed"}
ProcessStates ==
  {"NotStarted", "Starting", "Started", "FailedToStart", "Finishing", "Finished"}

\* lost: the peer is gone, and the socket has no engine any more.
Links == [tcp: SocketStates, lost: BOOLEAN, session: SessionStates, timers: Nat]
NewLink == [tcp |-> "Unconnected", lost |-> FALSE, session |-> "NotEstableshed", timers |-> 0]

\* open: QIODevice::isOpen; handle: there is a libssh2 channel; doomed: its
\* deletion is posted.
Channels == [at: ChannelStates, process: ProcessStates,
             open: BOOLEAN, handle: BOOLEAN, doomed: BOOLEAN]
NoChannel == [at |-> "none"]
NewChannel == [at |-> "NotOpen", process |-> "NotStarted",
               open |-> FALSE, handle |-> FALSE, doomed |-> FALSE]

now == [core |-> coreState, ps |-> pstate, link |-> link, chan |-> chan, cmd |-> cmdState]

commands(p) == {c \in Commands : Owner[c] = p}
exists(w, c) == w.chan[c] # NoChannel
channels(w, p) == {c \in commands(p) : exists(w, c)}
openChannels(w, p) == {c \in channels(w, p) : w.chan[c].open}
session(w, c) == w.link[Owner[c]].session

\* A loop that calls op for the commands of C.  A call changes nothing but its
\* own channel, and looks at no other: what they leave is put together.
forEach(C, w, op(_)) ==
  [w EXCEPT !.chan = [c \in Commands |-> IF c \in C THEN op(c).chan[c] ELSE w.chan[c]],
            !.cmd = [c \in Commands |-> IF c \in C THEN op(c).cmd[c] ELSE w.cmd[c]]]

-----------------------------------------------------------------------------
(* CSsh2, Core and the socket *)

\* connectToHost does nothing unless the socket is unconnected.
connectToHost(w, p) ==
  IF w.link[p].tcp # "Unconnected" THEN w
  ELSE [w EXCEPT !.link[p].tcp = "Connecting", !.link[p].lost = FALSE,
                 !.link[p].timers = @ + 1]

\* IProvider::setState, and Core's slot: start() of a provider that is to
\* reconnect, then the test for the end of the session.
setState(w, p, state) ==
  LET set   == [w EXCEPT !.ps[p] = state]
      again == IF state = "Finished" /\ reconnects(w.core, p) THEN connectToHost(set, p) ELSE set
  IN IF w.ps[p] = state THEN w ELSE [again EXCEPT !.core = coreAfter(@, again.ps)]

providerStateOf(s) ==
  CASE s \in {"StartingSession", "GetAuthMethods", "Authentication"} -> "Starting"
    [] s = "Established"          -> "Started"
    [] s = "FailedToEstablshed"   -> "FailedToStart"
    [] s = "Closing"              -> "Finishing"
    [] s \in {"Closed", "Aborted"} -> "Finished"
    [] s = "NotEstableshed"       -> "NotStarted"

\* setSsh2SessionState as far as CSsh2::onSsh2SessionStateChanged.
signalSession(w, p, s) == setState([w EXCEPT !.link[p].session = s], p, providerStateOf(s))

\* Mutant of dropChannels: the channels of a session outlive it.
keepChannels(w, p) == w

\* destroySsh2Objects deletes the channels.  Deletions already posted are
\* void, and the count of 0 they report finds nothing left to close.
dropChannels(w, p) ==
  [w EXCEPT !.chan = [c \in Commands |-> IF Owner[c] = p THEN NoChannel ELSE @[c]]]

settle(w, p, s) == IF w.link[p].session = s THEN w ELSE dropChannels(signalSession(w, p, s), p)

\* The socket goes to UnconnectedState: onSocketStateChanged, then
\* onTcpDisconnected.
socketEnds(w, p) ==
  LET off    == [w EXCEPT !.link[p].tcp = "Unconnected", !.link[p].lost = FALSE]
      failed == IF w.link[p].session = "NotEstableshed" THEN off
                ELSE settle(off, p, "FailedToEstablshed")
  IN IF failed.link[p].session = "Closed" THEN failed ELSE settle(failed, p, "Aborted")

\* QTcpSocket::disconnectFromHost, called at the end of destroySsh2Objects: it
\* waits until the disconnect message is written, if there is anyone to write
\* it to.
hangUp(w, p) ==
  IF w.link[p].tcp # "Connected" THEN w
  ELSE IF w.link[p].lost THEN socketEnds(w, p)
  ELSE [w EXCEPT !.link[p].tcp = "Closing"]

\* setSsh2SessionState for FailedToEstablshed, Closed and Aborted.
endSession(w, p, s) == IF w.link[p].session = s THEN w ELSE hangUp(settle(w, p, s), p)

-----------------------------------------------------------------------------
(* Channels and processes.  how is what libssh2 answers for each command: to *)
(* an open or exec "ok", "fail" or "again", to a close "done" or "again", to *)
(* a read "data", "eof" or "closed".                                         *)

Same(answer) == [c \in Commands |-> answer]
Silence == [open |-> Same("again"), exec |-> Same("again"),
            close |-> Same("again"), read |-> Same("data")]
\* To a channel x that waits to be opened or to execute, and to any other.
Answers(x) ==
  IF x.at = "Opening" \/ x.process = "Starting"
  THEN {[Silence EXCEPT !.open = Same("fail")]} \cup
       {[open |-> Same("ok"), exec |-> Same(e), close |-> Same(d), read |-> Same("data")] :
          e \in {"ok", "fail", "again"}, d \in {"done", "again"}}
  ELSE {[Silence EXCEPT !.close = Same(d), !.read = Same(r)] :
          d \in {"done", "again"}, r \in {"data", "eof", "closed"}}
OpenAnswers(p) ==
  {[Silence EXCEPT !.open = [c \in Commands |-> IF c \in F THEN "fail" ELSE "again"]] :
     F \in SUBSET commands(p)}
CloseAnswers(C) ==
  {[Silence EXCEPT !.close = [c \in Commands |-> IF c \in D THEN "done" ELSE "again"]] :
     D \in SUBSET {c \in C : exists(now, c) /\ chan[c].handle}}

\* setSsh2ProcessState and onSsh2ProcessStateChanged, but for the end.
signalProcess(w, c, s) ==
  IF w.chan[c].process = s THEN w
  ELSE [w EXCEPT !.chan[c].process = s, !.cmd[c] = s,
                 !.chan[c].doomed = @ \/ s = "FailedToStart"]

\* Ssh2Channel::open.  The peer cannot have confirmed yet what is sent here.
open(w, c, how) ==
  LET x == w.chan[c] IN
  IF x.open \/ x.handle \/ session(w, c) # "Established" \/ x.at = "Opening" THEN w
  ELSE IF how.open[c] = "fail"
       THEN signalProcess([w EXCEPT !.chan[c].at = "FailedToOpen"], c, "FailedToStart")
       ELSE [w EXCEPT !.chan[c].at = "Opening", !.chan[c].open = TRUE]

\* Mutant of processEnds: the object of a process that ended is kept.
processStays(w, c, how) ==
  IF c \in Restart THEN open(signalProcess(w, c, "Finished"), c, how)
  ELSE signalProcess(w, c, "Finished")

processEnds(w, c, how) ==
  LET ended == signalProcess(w, c, "Finished") IN
  IF w.chan[c].process = "Finished" THEN w
  ELSE IF c \in Restart /\ w.ps[Owner[c]] = "Started" THEN open(ended, c, how)
  ELSE [ended EXCEPT !.chan[c].doomed = TRUE]

\* Ssh2Client::onChannelStateChanged.
channelReports(w, c) ==
  IF session(w, c) = "Closing" /\ openChannels(w, Owner[c]) = {}
  THEN endSession(w, Owner[c], "Closed") ELSE w

\* setSsh2ChannelState(Closed): the process, then the session.
channelCloses(w, c, how) ==
  LET shut == [w EXCEPT !.chan[c].at = "Closed", !.chan[c].handle = FALSE]
      told == IF w.chan[c].process = "FailedToStart" THEN shut ELSE processEnds(shut, c, how)
  IN IF w.chan[c].at = "Closed" THEN w ELSE channelReports(told, c)

\* Without a libssh2 channel libssh2_channel_close returns an error, and an
\* error is taken for the end.
closeSession(w, c, how) ==
  IF w.chan[c].handle /\ how.close[c] = "again" THEN w ELSE channelCloses(w, c, how)

\* onAboutToClose: the state is assigned after closeSession, which may have
\* signalled Closed from within.  The channel still counts as open.
aboutToClose(w, c, how) ==
  LET shut   == IF w.chan[c].handle THEN w ELSE channelCloses(w, c, how)
      closed == [closeSession(shut, c, how) EXCEPT !.chan[c].at = "Closing"]
  IN IF closed.chan[c].process = "FailedToStart" THEN closed
     ELSE signalProcess(closed, c, "Finishing")

\* QIODevice::close.
close(w, c, how) ==
  IF ~w.chan[c].open THEN w ELSE [aboutToClose(w, c, how) EXCEPT !.chan[c].open = FALSE]

execSsh2Process(w, c, how) ==
  CASE how.exec[c] = "again" -> w
    [] how.exec[c] = "ok"    -> signalProcess(w, c, "Started")
    [] how.exec[c] = "fail"  -> close(signalProcess(w, c, "FailedToStart"), c, how)

openSession(w, c, how) ==
  CASE how.open[c] = "again" -> w
    [] how.open[c] = "ok"    ->
         LET opened == [w EXCEPT !.chan[c].at = "Opened", !.chan[c].handle = TRUE]
         IN channelReports(execSsh2Process(signalProcess(opened, c, "Starting"), c, how), c)
    [] how.open[c] = "fail"  ->
         LET failed == [w EXCEPT !.chan[c].at = "FailedToOpen"]
         IN channelReports(signalProcess(failed, c, "FailedToStart"), c)

\* checkChannelData and the test for the end of the stream.
readChannel(w, c, how) ==
  CASE how.read[c] = "data"   -> w
    [] how.read[c] = "eof"    -> close(w, c, how)
    [] how.read[c] = "closed" -> channelCloses(w, c, how)

channelReads(w, c, how) ==
  CASE w.chan[c].at = "Opening" -> openSession(w, c, how)
    [] w.chan[c].at = "Opened"  -> readChannel(w, c, how)
    [] w.chan[c].at = "Closing" -> closeSession(w, c, how)
    [] OTHER                    -> w

\* Ssh2Process::checkIncomingData: a process that ended or failed looks at
\* nothing any more.
processReads(w, c, how) ==
  LET x == w.chan[c] IN
  CASE x.process = "NotStarted" /\ x.open         -> channelReads(w, c, how)
    [] x.process = "Starting"                     -> execSsh2Process(w, c, how)
    [] x.process \in {"Started", "Finishing"}     -> channelReads(w, c, how)
    [] OTHER                                      -> w

-----------------------------------------------------------------------------
(* The session *)

\* Mutant of closeChannels: only channels that are opened are closed.
closeOpened(w, p, how) ==
  LET closing == signalSession(w, p, "Closing")
      opened  == {c \in channels(w, p) : w.chan[c].at = "Opened"}
  IN forEach(opened, closing, LAMBDA c : close(closing, c, how))

\* setSsh2SessionState(Closing).  A channel that is being closed still counts as
\* open, so none of the calls finds the last one gone.
closeChannels(w, p, how) ==
  LET closing == signalSession(w, p, "Closing")
  IN forEach(channels(w, p), closing, LAMBDA c : close(closing, c, how))

\* Ssh2Client::disconnectFromHost, which overrides QAbstractSocket's.
disconnectFromHost(w, p, how) ==
  LET s == w.link[p].session IN
  IF w.link[p].tcp = "Unconnected" THEN w
  ELSE IF s = "Established" /\ openChannels(w, p) # {} THEN closeChannels(w, p, how)
  ELSE IF s = "Established" THEN endSession(w, p, "Closed")
  ELSE IF s = "Closing" THEN hangUp(dropChannels(w, p), p)
  ELSE w

\* CSsh2::startCommands.
startCommand(w, c, how) ==
  open(IF exists(w, c) THEN w ELSE [w EXCEPT !.chan[c] = NewChannel], c, how)
startCommands(w, p, how) == forEach(commands(p), w, LAMBDA c : startCommand(w, c, how))

\* setSsh2SessionState for the states of a session that comes up.
enterSession(w, p, s, how) ==
  LET in == signalSession(w, p, s) IN
  IF w.link[p].session = s THEN w
  ELSE IF s = "Established" THEN startCommands(in, p, how) ELSE in

-----------------------------------------------------------------------------
(* The handshake: the session states each step of it can lead to. *)

\* checkKnownHosts.
knownHost(p, check) == p \in PasswordAuth \/ check = "match"

getAuthenticationMethod(p, offered) ==
  IF "password" \in offered /\ p \in PasswordAuth THEN "password"
  ELSE IF "publickey" \in offered /\ p \notin PasswordAuth THEN "publickey"
  ELSE "NoAuth"

\* libssh2_userauth_authenticated returns 0 as long as nobody is, and 0 is
\* what the code takes for success.
authenticate(method) ==
  IF method = "NoAuth" THEN {"Established"}
  ELSE {"Authentication", "Established", "FailedToEstablshed"}

\* A server that lets the user in without authentication gives no list and no
\* error: the session stays in the state s.
getAvailableAuthMethods(p, s) ==
  {"GetAuthMethods", "FailedToEstablshed", s} \cup
  UNION {authenticate(getAuthenticationMethod(p, offered)) :
           offered \in SUBSET {"password", "publickey"}}

startSshSession(p, s) ==
  {"StartingSession", "FailedToEstablshed"} \cup
  UNION {IF knownHost(p, check) THEN getAvailableAuthMethods(p, s) ELSE {} :
           check \in {"match", "mismatch", "unknown", "failure"}}

\* What onReadyRead does in the state s.
handshake(p, s) ==
  CASE s = "StartingSession" -> startSshSession(p, s)
    [] s = "GetAuthMethods"  -> getAvailableAuthMethods(p, s)
    [] s = "Authentication"  -> authenticate("password")
    [] OTHER                 -> {s}

advance(w, p, s, how) ==
  IF s = "FailedToEstablshed" THEN endSession(w, p, s) ELSE enterSession(w, p, s, how)
=============================================================================
