----------------------------- MODULE LocalDaggy -----------------------------
(***************************************************************************)
(* A Core whose providers are all CLocal: commands are child processes.    *)
(* Each event the Qt event loop delivers (a QProcess signal, a deferred    *)
(* deletion, a call of the application) is one action that runs CLocal's   *)
(* handler and, through the direct connection, Core's.                     *)
(*                                                                         *)
(* A command owns QProcess objects, not one process: startProcess makes a  *)
(* new object, and an object that stopped lives on until the event loop    *)
(* runs its deleteLater.  The objects of a command are told apart only by  *)
(* their phase, so the model counts them.                                  *)
(***************************************************************************)
EXTENDS Core

CONSTANTS
  Commands,         \* every command of every source
  Owner,            \* the provider that runs it
  Restart,          \* those with restart: true
  Faults,           \* which failures of the operating system may occur
  MaxObjects,       \* bound: QProcess objects of one command at a time
  MaxSyncFailures   \* bound: failed starts inside one startProcess call

ASSUME CommandsAssumption ==
  /\ Owner \in [Commands -> Providers]
  /\ \A p \in Providers : \E c \in Commands : Owner[c] = p
  /\ Restart \subseteq Commands
ASSUME BoundsAssumption ==
  /\ Faults \subseteq {"crash", "readError", "syncFail"}
  /\ MaxObjects \in Nat /\ MaxSyncFailures \in Nat

VARIABLES
  procs,      \* per command, the number of QProcess objects in each phase
  cmdState    \* per command, the last state signalled to the aggregators

localVars == <<procs, cmdState>>
vars == <<coreVars, localVars>>

\* starting and running: QProcess::state(); doomed: still running after a
\* ReadError, its deletion posted; dead: NotRunning, its deletion posted.
Phases == {"starting", "running", "doomed", "dead"}
CommandStates ==
  {"NotStarted", "Starting", "Started", "FailedToStart", "Finishing", "Finished"}

TypeOK ==
  /\ CoreTypeOK
  /\ procs \in [Commands -> [Phases -> Nat]]
  /\ cmdState \in [Commands -> CommandStates]

Init ==
  /\ CoreInit
  /\ procs = [c \in Commands |-> [k \in Phases |-> 0]]
  /\ cmdState = [c \in Commands |-> "NotStarted"]

-----------------------------------------------------------------------------

\* A process object that activeProcessesCount counts.
alive(r) == \E k \in {"starting", "running", "doomed"} : r[k] > 0
active(p, ps) == \E c \in Commands : Owner[c] = p /\ alive(ps[c])
restarting(p) == \E c \in Restart : Owner[c] = p

move(r, from, to) == [[r EXCEPT ![from] = @ - 1] EXCEPT ![to] = @ + 1]

Fits(ps) ==
  \A c \in Commands :
    ps[c]["starting"] + ps[c]["running"] + ps[c]["doomed"] + ps[c]["dead"] <= MaxObjects

\* n calls of startProcess, of which f processes fail inside QProcess::start:
\* the error handler then runs nested, and starts a restart command anew.
startProcess(c, r, n, f) ==
  [r EXCEPT !["starting"] = @ + (IF c \in Restart THEN n ELSE n - f),
            !["dead"] = @ + f]

canFail(c, n, f) ==
  f > 0 => "syncFail" \in Faults /\ n > 0 /\ (c \in Restart \/ f <= n)

\* Mutant of signalled: a start that fails at once is not reported.
signalledAlwaysStarting(c, n, f, before) == IF n = 0 THEN before ELSE "Starting"
\* Mutant of signalled: the end of the old process is reported after the restart.
signalledEndLast(c, n, f, before) ==
  IF n = 0 \/ before = "Finished" THEN before ELSE "Starting"

\* What was signalled last: `before` if nothing was started.
signalled(c, n, f, before) ==
  IF n = 0 THEN before
  ELSE IF c \in Restart \/ f = 0 THEN "Starting" ELSE "FailedToStart"

\* Mutants of restarts: the provider's state is not looked at; the wrong state
\* is; every stop restarts once too often.
restartsInAnyState(c, n) == IF c \in Restart THEN n ELSE 0
restartsWhenStarting(c, n) == IF c \in Restart /\ pstate[Owner[c]] = "Starting" THEN n ELSE 0
restartsOnceMore(c, n) == IF c \in Restart /\ pstate[Owner[c]] = "Started" THEN n + 1 ELSE 0

\* How often onProcessStop starts the command again, run n times.
restarts(c, n) == IF c \in Restart /\ pstate[Owner[c]] = "Started" THEN n ELSE 0

\* The objects of c become r, onProcessStop runs n times, and the last state
\* signalled for the process that stopped is report.
ProcessStops(c, r, n, report) ==
  \E f \in 0..MaxSyncFailures :
    /\ canFail(c, restarts(c, n), f)
    /\ procs' = [procs EXCEPT ![c] = startProcess(c, r, restarts(c, n), f)]
    /\ Fits(procs')
    /\ cmdState' = [cmdState EXCEPT ![c] = signalled(c, restarts(c, n), f, report)]
    /\ UNCHANGED coreVars

ProcessStarted(c) ==
  /\ procs[c]["starting"] > 0
  /\ procs' = [procs EXCEPT ![c] = move(@, "starting", "running")]
  /\ cmdState' = [cmdState EXCEPT ![c] = "Started"]
  /\ UNCHANGED coreVars

ProcessFailedToStart(c) ==
  /\ procs[c]["starting"] > 0
  /\ ProcessStops(c, move(procs[c], "starting", "dead"), 1, "FailedToStart")

ProcessFinished(c) ==
  \E k \in {"running", "doomed"} :
    /\ procs[c][k] > 0
    /\ ProcessStops(c, move(procs[c], k, "dead"), 1, "Finished")

\* A process that dies of a signal emits errorOccurred(Crashed) and then
\* finished; each handler ends in onProcessStop.
ProcessCrashed(c) ==
  /\ "crash" \in Faults
  /\ \E k \in {"running", "doomed"} :
       /\ procs[c][k] > 0
       /\ ProcessStops(c, move(procs[c], k, "dead"), 2, "Finished")

\* A ReadError leaves the process running, and posts its deletion.
ProcessReadError(c) ==
  /\ "readError" \in Faults
  /\ \E k \in {"running", "doomed"} :
       /\ procs[c][k] > 0
       /\ ProcessStops(c, move(procs[c], k, "doomed"), 1, cmdState[c])

-----------------------------------------------------------------------------

\* Mutants of finishes: only a stopped provider looks for its end; the first
\* process that ends finishes it.
finishesWhenStopped(p, ps) == ~active(p, ps) /\ pstate[p] = "Finishing"
finishesEarly(p, ps) ==
  \/ pstate[p] \in {"Starting", "Finishing"}
  \/ pstate[p] = "Started" /\ ~restarting(p)

\* onProcessDestroyed: the provider is finished when the processes are ps.
finishes(p, ps) ==
  /\ ~active(p, ps)
  /\ \/ pstate[p] \in {"Starting", "Finishing"}
     \/ pstate[p] = "Started" /\ ~restarting(p)

\* startCommands of the providers in P, from the objects ps and signals cs.
startCommands(P, ps, cs, failed) ==
  /\ \A c \in Commands : canFail(c, IF Owner[c] \in P THEN 1 ELSE 0, failed[c])
  /\ procs' = [c \in Commands |->
       IF Owner[c] \in P THEN startProcess(c, ps[c], 1, failed[c]) ELSE ps[c]]
  /\ Fits(procs')
  /\ cmdState' = [c \in Commands |->
       IF Owner[c] \in P THEN signalled(c, 1, failed[c], cs[c]) ELSE cs[c]]

Failures == [Commands -> 0..MaxSyncFailures]

\* The `destroyed` signal of an object of c, which leaves the objects ps.
Destroyed(c, ps, cs) ==
  LET p == Owner[c] IN
  \/ /\ ~finishes(p, ps)
     /\ procs' = ps /\ cmdState' = cs
     /\ UNCHANGED coreVars
  \/ /\ finishes(p, ps) /\ ~reconnects(coreState, p)
     /\ procs' = ps /\ cmdState' = cs
     /\ pstate' = [pstate EXCEPT ![p] = "Finished"]
     /\ coreState' = coreAfter(coreState, pstate')
     /\ UNCHANGED prepared
  \/ /\ finishes(p, ps) /\ reconnects(coreState, p)      \* Finished, and Started again
     /\ pstate' = [pstate EXCEPT ![p] = "Started"]
     /\ \E failed \in Failures : startCommands({p}, ps, cs, failed)
     /\ UNCHANGED <<coreState, prepared>>

\* Mutant of DeleteDead: the deletion of an object runs twice.
DeleteDeadTwice(c) == Destroyed(c, [procs EXCEPT ![c]["dead"] = @ - 1], cmdState)

DeleteDead(c) ==
  /\ procs[c]["dead"] > 0
  /\ Destroyed(c, [procs EXCEPT ![c]["dead"] = @ - 1], cmdState)

\* ~QProcess kills a process that still runs and waits for it: the crash and
\* the end are signalled from the destructor, and `destroyed` comes after.
DeleteDoomed(c) ==
  /\ procs[c]["doomed"] > 0
  /\ \E f \in 0..MaxSyncFailures :
       LET n    == restarts(c, 2)
           left == [procs[c] EXCEPT !["doomed"] = @ - 1]
           ps   == [procs EXCEPT ![c] = startProcess(c, left, n, f)]
       IN /\ canFail(c, n, f)
          /\ Fits(ps)
          /\ Destroyed(c, ps, [cmdState EXCEPT ![c] = signalled(c, n, f, "Finished")])

-----------------------------------------------------------------------------

\* Core::start with CLocal::start of every provider.  A provider that is
\* active refuses; one that is not goes to Started, so that none of the
\* signals finds Core without an active provider.
Start ==
  LET P == {p \in prepared : ~isActiveProvider(pstate[p])} IN
  /\ canStart
  /\ prepared # {}
  /\ coreState' = "Started"
  /\ pstate' = [p \in Providers |-> IF p \in P THEN "Started" ELSE pstate[p]]
  /\ \E failed \in Failures : startCommands(P, procs, cmdState, failed)
  /\ UNCHANGED prepared

\* Mutant of terminated: a provider without a process is left Started.
terminatedIfBusy(p) ==
  IF pstate[p] = "Started" /\ active(p, procs) THEN "Finishing" ELSE pstate[p]

\* terminateAll, run by Core::stop on every provider: only one that is
\* Started does anything.  Running processes are killed and end later;
\* starting ones are closed, and are dead when close returns.  When no
\* provider is active Core::stop goes straight to Finished, as the formula of
\* Stop does: no provider then is Started.
terminated(p) ==
  IF p \notin prepared \/ pstate[p] # "Started" THEN pstate[p]
  ELSE IF active(p, procs) THEN "Finishing" ELSE "Finished"

terminates(c) == Owner[c] \in prepared /\ pstate[Owner[c]] = "Started"
closes(c) == terminates(c) /\ procs[c]["starting"] > 0

Stop ==
  /\ canStop
  /\ pstate' = [p \in Providers |-> terminated(p)]
  /\ coreState' = coreAfter("Finishing", pstate')
  /\ procs' = [c \in Commands |->
       IF closes(c)
       THEN [procs[c] EXCEPT !["dead"] = @ + procs[c]["starting"], !["starting"] = 0]
       ELSE procs[c]]
  /\ \E last \in [Commands -> {"Finished", "FailedToStart"}] :
       cmdState' = [c \in Commands |-> IF closes(c) THEN last[c] ELSE cmdState[c]]
  /\ UNCHANGED prepared

-----------------------------------------------------------------------------

Application ==
  \/ (PrepareSucceeds \/ PrepareThrows \/ StartWithoutProviders) /\ UNCHANGED localVars
  \/ Start
  \/ Stop

ProcessEvent(c) ==
  \/ ProcessStarted(c)
  \/ ProcessFailedToStart(c)
  \/ ProcessFinished(c)
  \/ ProcessCrashed(c)
  \/ ProcessReadError(c)

Deletion(c) == DeleteDead(c) \/ DeleteDoomed(c)

Next == Application \/ \E c \in Commands : ProcessEvent(c) \/ Deletion(c)

Spec == Init /\ [][Next]_vars

\* The event loop runs every posted deletion, and a process that was killed
\* ends and is reaped.  Nothing else is promised: a command may run for ever,
\* and the application need not call anything.
KilledEnds(c) == pstate[Owner[c]] = "Finishing" /\ ProcessFinished(c)

Fairness ==
  \A c \in Commands : WF_vars(Deletion(c)) /\ WF_vars(KilledEnds(c))

FairSpec == Spec /\ Fairness
-----------------------------------------------------------------------------
(* Properties *)

\* Core is Started or Finishing exactly while some provider is active: stop()
\* is refused only when there is nothing to stop, and start() never finds a
\* provider that still works for the previous session.
PhaseMatchesProviders == canStop <=> activeProviders(pstate) # {}

\* A process runs only under a provider that is Started or Finishing: when
\* Core signals Finished, and the application deletes it or exits, no child
\* process is left behind.
NoOrphanProcess ==
  \A c \in Commands : alive(procs[c]) => pstate[Owner[c]] \in {"Started", "Finishing"}

\* stop() reaches every provider: under a Finishing Core none is Started, and
\* no provider is Finishing unless Core is.
StopReachesAll ==
  \A p \in Providers :
    /\ coreState = "Finishing" => pstate[p] # "Started"
    /\ pstate[p] = "Finishing" => coreState = "Finishing"

\* A provider looks for its end only when a QProcess object is destroyed.  One
\* that has nothing left to do, and no command to restart, must still have
\* such a deletion ahead, or its end is never noticed.
EndIsNoticed ==
  \A p \in Providers :
    (~active(p, procs) /\ (pstate[p] = "Finishing" \/ (pstate[p] = "Started" /\ ~restarting(p))))
      => \E c \in Commands : Owner[c] = p /\ procs[c]["dead"] > 0

\* restart: a command with restart: true has a process at all times while its
\* provider is Started, whatever process ended, failed or was destroyed.
RestartKeepsAlive ==
  \A c \in Restart : pstate[Owner[c]] = "Started" => alive(procs[c])

\* reconnect: a local source with reconnect: true is Started throughout the
\* session, although its provider finishes again and again.
ReconnectKeepsStarted ==
  \A p \in Reconnect \cap prepared : coreState = "Started" => pstate[p] = "Started"

\* A command is one process at a time (the name identifies its stream and its
\* output file): a restart comes after the end of the process it replaces.
OneProcessPerCommand ==
  \A c \in Commands :
    procs[c]["starting"] + procs[c]["running"] + procs[c]["doomed"] <= 1

\* An aggregator that was last told that a command starts or is started sees
\* a command that has a process.
SignalledAliveIsAlive ==
  \A c \in Commands : cmdState[c] \in {"Starting", "Started"} => alive(procs[c])

\* An aggregator that was last told that a command ended sees one that has no
\* process any more.
SignalledEndIsEnd ==
  \A c \in Commands : cmdState[c] \in {"Finished", "FailedToStart"} => ~alive(procs[c])

objects(r) == r["starting"] + r["running"] + r["doomed"] + r["dead"]

\* A process of c is started: one more is starting, whatever else ended in the
\* same step, or (it stopped at once) an object is added.
begins(c) ==
  \/ procs'[c]["starting"] > procs[c]["starting"]
  \/ objects(procs'[c]) > objects(procs[c])

\* Once stop() was called no handler starts a process, not even the one in
\* which a command with restart or a reconnecting source ends: only a start()
\* of the application does.
NothingStartsAfterStop ==
  [][\A c \in Commands : begins(c) => coreState' = "Started"]_vars

\* A provider whose processes all ended, none of which is to be restarted,
\* reports Finished.
CompletionEnds ==
  \A p \in Providers :
    (pstate[p] = "Started" /\ ~restarting(p) /\ p \notin Reconnect /\ ~active(p, procs))
      ~> (pstate[p] = "Finished")

\* Core and CLocal together keep the promise of a session: commands are at
\* work when they have a process, and the phase is the state Core signals.
Promise == INSTANCE Session WITH
  phase <- coreState, working <- {c \in Commands : alive(procs[c])}

KeepsSessionPromise == Promise!FairSpec

\* Every source keeps that promise for itself, whatever Core does in between:
\* commands are begun when its provider becomes Started, a stop only lets them
\* drain, and none is at work when it is Finished or starts again.
ProviderPromise(p) == INSTANCE Session WITH
  Commands <- {c \in Commands : Owner[c] = p},
  phase    <- pstate[p],
  working  <- {c \in Commands : Owner[c] = p /\ alive(procs[c])}

KeepsProviderPromise ==
  /\ \A p \in Providers : ProviderPromise(p)!Init
  /\ [][\A p \in Providers : [ProviderPromise(p)!Next]_(ProviderPromise(p)!vars)]_vars
=============================================================================
