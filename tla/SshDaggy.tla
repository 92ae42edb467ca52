------------------------------ MODULE SshDaggy ------------------------------
(***************************************************************************)
(* A Core whose providers are all CSsh: a CLocal whose commands are `ssh`  *)
(* processes that share the connection of a master.  start() starts the    *)
(* master, itself an `ssh` process, and returns; a timer then polls it     *)
(* ten times a second, and CLocal::start runs when a check succeeds.  The  *)
(* timer is a child of the provider that only such a check removes.  A     *)
(* check is a process of its own and may fail to start, as any other; it   *)
(* then counts as one that succeeded.                                      *)
(*                                                                         *)
(* The path of the master's control socket is a hash of session and host,  *)
(* so sources with the same host share it: the first master to bind it     *)
(* serves, another is an ordinary ssh session.  As in LocalDaggy an action *)
(* is all the code does until it returns to the event loop; the processes  *)
(* the provider waits for begin and end within one.                        *)
(***************************************************************************)
EXTENDS LocalDaggy

CONSTANTS
  Host,       \* the host of a provider
  Control,    \* those whose source names a control path of its own
  MaxTimers   \* bound: check timers of one provider at a time

\* A process that dies of a signal or loses its pipe is left to LocalDaggy.
ASSUME SshAssumption ==
  /\ Control \subseteq Providers
  /\ MaxTimers \in Nat
  /\ Faults \subseteq {"syncFail"}

VARIABLES
  master,   \* ssh_master_: "none" is a null pointer
  timers    \* the check timers of every provider

masterVars == <<master, timers>>
sshVars == <<vars, masterVars>>

\* failed and ended: a QProcess that does not run; serving: it has bound the
\* control socket; plain: it runs without one.
MasterStates == {"none", "failed", "connecting", "serving", "plain", "ended"}

SshTypeOK ==
  /\ TypeOK
  /\ master \in [Providers -> MasterStates]
  /\ timers \in [Providers -> 0..MaxTimers]

SshInit ==
  /\ Init
  /\ master = [p \in Providers |-> "none"]
  /\ timers = [p \in Providers |-> 0]

-----------------------------------------------------------------------------

SameHost(p, q) == Host[p] = Host[q]
served(p) == \E q \in Providers : SameHost(p, q) /\ master[q] = "serving"

\* A provider with a control path of its own never has a master, and its
\* start() does nothing at all.
startsMaster(p) == master[p] = "none" /\ p \notin Control

\* startMaster of the providers in P.  A master that cannot be executed stays
\* set, without a timer.
startMaster(P) ==
  LET new == {p \in P : startsMaster(p)} IN
  \E failed \in SUBSET new :
    /\ failed # {} => "syncFail" \in Faults
    /\ master' = [p \in Providers |->
         IF p \in failed THEN "failed" ELSE IF p \in new THEN "connecting" ELSE master[p]]
    /\ timers' = [p \in Providers |-> timers[p] + (IF p \in new \ failed THEN 1 ELSE 0)]
    /\ \A p \in Providers : timers'[p] <= MaxTimers

\* controlTerminate: whoever serves the path is told to exit.  It gives up the
\* socket; its end is an event to come.
controlTerminate(p, ms) ==
  [q \in Providers |-> IF SameHost(p, q) /\ ms[q] = "serving" THEN "plain" ELSE ms[q]]

\* Mutant of stoppedMaster: what runs is left alone.
keptMaster(p) == master[p]

\* stopMaster, of every provider that Core::stop stops.
stoppedMaster(p) == IF p \in prepared THEN "none" ELSE master[p]

-----------------------------------------------------------------------------

\* Core::start with CSsh::start of every provider; none changes its state.
SshStart ==
  /\ canStart
  /\ prepared # {}
  /\ coreState' = "Started"
  /\ startMaster(prepared)
  /\ UNCHANGED <<prepared, pstate, localVars>>

\* Core::stop reaches the providers only if one is active.
SshStop ==
  /\ Stop
  /\ master' = IF activeProviders(pstate) = {} THEN master
               ELSE [p \in Providers |-> stoppedMaster(p)]
  /\ UNCHANGED timers

MasterConnects(p) ==
  /\ master[p] = "connecting"
  /\ master' = [master EXCEPT ![p] = IF served(p) THEN "plain" ELSE "serving"]
  /\ UNCHANGED <<vars, timers>>

\* The login fails, the connection is lost, or the shell ends: the signal runs
\* controlTerminate, and the QProcess object stays.
MasterEnds(p) ==
  /\ master[p] \in {"connecting", "serving", "plain"}
  /\ master' = controlTerminate(p, [master EXCEPT ![p] = "ended"])
  /\ UNCHANGED <<vars, timers>>

\* CLocal::start of a provider, which one that is active refuses.
StartLocal(p) ==
  \/ /\ isActiveProvider(pstate[p])
     /\ UNCHANGED vars
  \/ /\ ~isActiveProvider(pstate[p])
     /\ pstate' = [pstate EXCEPT ![p] = "Started"]
     /\ \E failed \in Failures : startCommands({p}, procs, cmdState, failed)
     /\ UNCHANGED <<coreState, prepared>>

\* The exit code of a check process that could not be started is 0, and so is
\* that of the second check: this passes for a master that serves.
checkSucceeds(p) == served(p) \/ "syncFail" \in Faults

\* Mutant of CheckMaster: a check that a timer already removed made.
CheckMasterOnceMore(p) ==
  /\ checkSucceeds(p)
  /\ timers' = [timers EXCEPT ![p] = @ - 1]
  /\ StartLocal(p)
  /\ UNCHANGED master

\* Mutant of CheckMaster: CLocal::start does not look at the state.
CheckMasterAnyState(p) ==
  /\ timers[p] > 0
  /\ checkSucceeds(p)
  /\ timers' = [timers EXCEPT ![p] = @ - 1]
  /\ pstate' = [pstate EXCEPT ![p] = "Started"]
  /\ \E failed \in Failures : startCommands({p}, procs, cmdState, failed)
  /\ UNCHANGED <<coreState, prepared, master>>

\* A tick whose two checks succeed; one whose checks fail changes nothing.
CheckMaster(p) ==
  /\ timers[p] > 0
  /\ checkSucceeds(p)
  /\ timers' = [timers EXCEPT ![p] = @ - 1]
  /\ StartLocal(p)
  /\ UNCHANGED master

\* onProcessDestroyed.  A provider to reconnect is asked to start, which does
\* nothing while it has a master: it stays Finished.
SshDeletion(c) ==
  LET p    == Owner[c]
      left == [procs EXCEPT ![c]["dead"] = @ - 1]
  IN
  /\ procs[c]["dead"] > 0
  /\ procs' = left
  /\ IF finishes(p, left)
     THEN /\ pstate' = [pstate EXCEPT ![p] = "Finished"]
          /\ coreState' = coreAfter(coreState, pstate')
          /\ startMaster(IF reconnects(coreState, p) THEN {p} ELSE {})
     ELSE UNCHANGED <<pstate, coreState, masterVars>>
  /\ UNCHANGED <<prepared, cmdState>>

-----------------------------------------------------------------------------

SshApplication ==
  \/ (PrepareSucceeds \/ PrepareThrows \/ StartWithoutProviders)
       /\ UNCHANGED <<localVars, masterVars>>
  \/ SshStart
  \/ SshStop

SlaveEvent(c) ==
  /\ ProcessStarted(c) \/ ProcessFailedToStart(c) \/ ProcessFinished(c)
  /\ UNCHANGED masterVars

MasterEvent(p) == MasterConnects(p) \/ MasterEnds(p) \/ CheckMaster(p)

SshNext ==
  \/ SshApplication
  \/ \E p \in Providers : MasterEvent(p)
  \/ \E c \in Commands : SlaveEvent(c) \/ SshDeletion(c)

SshSpec == SshInit /\ [][SshNext]_sshVars

\* As in LocalDaggy: posted deletions run, and a killed process ends.  No
\* master need ever connect, and no check succeed.
SshFairness ==
  \A c \in Commands :
    /\ WF_sshVars(SshDeletion(c))
    /\ WF_sshVars(KilledEnds(c) /\ UNCHANGED masterVars)

SshFairSpec == SshSpec /\ SshFairness
-----------------------------------------------------------------------------
(* Properties.  OneProcessPerCommand and SignalledEndIsEnd are those of       *)
(* LocalDaggy.                                                                *)

\* A stop ends every master it finds, also one that is shared, and no reconnect
\* starts another while Core waits for its providers.  A check timer outlives
\* the stop, but whichever provider it is of, there is nobody left to check:
\* only a check that could not be run starts commands then.
NoMasterWhileFinishing == coreState = "Finishing" => \A p \in Providers : master[p] = "none"

\* A stop is carried out: Core reports Finished, unless a check that could not
\* be run has put a provider to work again.
StopEnds ==
  (coreState = "Finishing") ~>
    \/ coreState = "Finished"
    \/ \E p \in Providers : pstate[p] = "Started" /\ ~served(p)

\* When Core signals Finished its providers are finished: none has commands at
\* work that no stop can reach any more.
FinishedIsFinished == coreState = "Finished" => activeProviders(pstate) = {}
=============================================================================
