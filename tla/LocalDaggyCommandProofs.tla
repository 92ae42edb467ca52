----------------------- MODULE LocalDaggyCommandProofs ----------------------
(***************************************************************************)
(* What aggregators are told about a command, and how many processes it    *)
(* has.  Both invariants rest on the one of LocalDaggyProofs.              *)
(***************************************************************************)
EXTENDS LocalDaggyProofs

saysAlive(state) == state \in {"Starting", "Started"}

\* What startProcess signals last is true of the objects it leaves.
LEMMA SignalledIsTrue ==
  ASSUME NEW c \in Commands, NEW r \in [Phases -> Nat], NEW n \in Nat, NEW f \in Nat,
         canFail(c, n, f), NEW before, saysAlive(before) => alive(r)
  PROVE  saysAlive(signalled(c, n, f, before)) => alive(startProcess(c, r, n, f))
  <1>1. CASE n = 0
    BY <1>1, StartProcess DEF signalled
  <1>2. CASE n > 0 /\ c \in Restart
    BY <1>2, StartProcess DEF alive
  <1>3. CASE n > 0 /\ c \notin Restart /\ f = 0
    BY <1>3 DEF startProcess, alive, Phases
  <1>4. CASE n > 0 /\ c \notin Restart /\ f # 0
    BY <1>4 DEF signalled, saysAlive
  <1>5. QED
    BY <1>1, <1>2, <1>3, <1>4

\* The same of startCommands, for every command.
LEMMA StartCommandsSignals ==
  ASSUME NEW P, NEW ps \in [Commands -> [Phases -> Nat]],
         NEW cs \in [Commands -> CommandStates], NEW failed \in Failures,
         \A c \in Commands : saysAlive(cs[c]) => alive(ps[c]),
         startCommands(P, ps, cs, failed)
  PROVE  \A c \in Commands : saysAlive(cmdState'[c]) => alive(procs'[c])
  <1> SUFFICES ASSUME NEW c \in Commands
               PROVE  saysAlive(cmdState'[c]) => alive(procs'[c])
    OBVIOUS
  <1>1. CASE Owner[c] \in P
    <2>1. canFail(c, 1, failed[c]) /\ failed[c] \in Nat /\ ps[c] \in [Phases -> Nat]
      BY <1>1, BoundsAssumption DEF startCommands, Failures
    <2>2. /\ procs'[c] = startProcess(c, ps[c], 1, failed[c])
          /\ cmdState'[c] = signalled(c, 1, failed[c], cs[c])
      BY <1>1 DEF startCommands
    <2>3. QED
      BY <2>1, <2>2, SignalledIsTrue
  <1>2. CASE Owner[c] \notin P
    BY <1>2 DEF startCommands
  <1>3. QED
    BY <1>1, <1>2

\* A stop of a process, from the objects r and the signal report.
LEMMA ProcessStopsSignals ==
  ASSUME IInv, SignalledAliveIsAlive, NEW c \in Commands,
         NEW r \in [Phases -> Nat], NEW n \in {1, 2}, NEW report,
         saysAlive(report) => alive(r),
         ProcessStops(c, r, n, report)
  PROVE  SignalledAliveIsAlive'
  <1> DEFINE m == restarts(c, n)
  <1>1. PICK f \in 0..MaxSyncFailures :
          /\ canFail(c, m, f)
          /\ procs' = [procs EXCEPT ![c] = startProcess(c, r, m, f)]
          /\ cmdState' = [cmdState EXCEPT ![c] = signalled(c, m, f, report)]
    BY DEF ProcessStops
  <1>2. m \in Nat /\ f \in Nat
    BY BoundsAssumption DEF restarts
  <1> HIDE DEF m
  <1>3. saysAlive(signalled(c, m, f, report)) => alive(startProcess(c, r, m, f))
    BY <1>1, <1>2, SignalledIsTrue
  <1>4. /\ procs'[c] = startProcess(c, r, m, f)
        /\ cmdState'[c] = signalled(c, m, f, report)
        /\ \A d \in Commands \ {c} : procs'[d] = procs[d] /\ cmdState'[d] = cmdState[d]
    BY <1>1 DEF IInv, TypeOK
  <1>5. QED
    BY <1>3, <1>4 DEF SignalledAliveIsAlive, saysAlive

\* A `destroyed` signal, with what the destructor left and signalled.
LEMMA DestroyedSignals ==
  ASSUME NEW c \in Commands, NEW ps \in [Commands -> [Phases -> Nat]],
         NEW cs \in [Commands -> CommandStates],
         \A d \in Commands : saysAlive(cs[d]) => alive(ps[d]),
         Destroyed(c, ps, cs)
  PROVE  SignalledAliveIsAlive'
  <1>1. CASE procs' = ps /\ cmdState' = cs
    BY <1>1 DEF SignalledAliveIsAlive, saysAlive
  <1>2. CASE \E failed \in Failures : startCommands({Owner[c]}, ps, cs, failed)
    <2>1. \A d \in Commands : saysAlive(cmdState'[d]) => alive(procs'[d])
      BY <1>2, StartCommandsSignals
    <2>2. QED
      BY <2>1 DEF SignalledAliveIsAlive, saysAlive
  <1>3. QED
    BY <1>1, <1>2 DEF Destroyed

LEMMA DeletionSignals ==
  ASSUME IInv, SignalledAliveIsAlive, NEW c \in Commands, Deletion(c)
  PROVE  SignalledAliveIsAlive'
  <1>1. /\ procs \in [Commands -> [Phases -> Nat]]
        /\ cmdState \in [Commands -> CommandStates]
        /\ \A d \in Commands : saysAlive(cmdState[d]) => alive(procs[d])
    BY DEF IInv, TypeOK, SignalledAliveIsAlive, saysAlive
  <1>2. CASE DeleteDead(c)
    <2> DEFINE ps == [procs EXCEPT ![c]["dead"] = @ - 1]
    <2>1. /\ ps \in [Commands -> [Phases -> Nat]]
          /\ \A d \in Commands : alive(procs[d]) => alive(ps[d])
      BY <1>1, <1>2 DEF DeleteDead, Phases, alive
    <2>2. Destroyed(c, ps, cmdState)
      BY <1>2 DEF DeleteDead
    <2> HIDE DEF ps
    <2>3. QED
      BY <1>1, <2>1, <2>2, DestroyedSignals
  <1>3. CASE DeleteDoomed(c)
    <2> DEFINE n == restarts(c, 2)
               left == [procs[c] EXCEPT !["doomed"] = @ - 1]
    <2>1. PICK f \in 0..MaxSyncFailures :
            /\ canFail(c, n, f)
            /\ Destroyed(c, [procs EXCEPT ![c] = startProcess(c, left, n, f)],
                         [cmdState EXCEPT ![c] = signalled(c, n, f, "Finished")])
      BY <1>3 DEF DeleteDoomed
    <2>2. n \in Nat /\ f \in Nat /\ left \in [Phases -> Nat]
      BY <1>1, <1>3, BoundsAssumption DEF restarts, DeleteDoomed, Phases
    <2> HIDE DEF n, left
    <2> DEFINE s == startProcess(c, left, n, f)
               v == signalled(c, n, f, "Finished")
    <2>3. /\ s \in [Phases -> Nat]
          /\ saysAlive(v) => alive(s)
          /\ v \in CommandStates
      <3>1. saysAlive(v) => alive(s)
        BY <2>1, <2>2, SignalledIsTrue DEF saysAlive
      <3>2. s \in [Phases -> Nat]
        BY <2>1, <2>2, StartProcess
      <3>3. QED
        BY <2>2, <3>1, <3>2 DEF signalled, CommandStates
    <2> HIDE DEF s, v
    <2> DEFINE ps == [procs EXCEPT ![c] = s]
               cs == [cmdState EXCEPT ![c] = v]
    <2>4. /\ ps \in [Commands -> [Phases -> Nat]]
          /\ cs \in [Commands -> CommandStates]
          /\ \A d \in Commands : saysAlive(cs[d]) => alive(ps[d])
      BY <1>1, <2>3
    <2>5. Destroyed(c, ps, cs)
      BY <2>1 DEF s, v
    <2> HIDE DEF ps, cs
    <2>6. QED
      BY <2>4, <2>5, DestroyedSignals
  <1>4. QED
    BY <1>2, <1>3 DEF Deletion

LEMMA ProcessEventSignals ==
  ASSUME IInv, SignalledAliveIsAlive, NEW c \in Commands, ProcessEvent(c)
  PROVE  SignalledAliveIsAlive'
  <1>1. /\ procs[c] \in [Phases -> Nat]
        /\ saysAlive(cmdState[c]) => alive(procs[c])
        /\ ~saysAlive("Finished") /\ ~saysAlive("FailedToStart")
    BY DEF IInv, TypeOK, SignalledAliveIsAlive, saysAlive
  <1>2. CASE ProcessStarted(c)
    <2>1. move(procs[c], "starting", "running")["running"] > 0
      BY <1>1, <1>2, Move DEF ProcessStarted, Phases
    <2>2. alive(procs'[c]) /\ \A d \in Commands \ {c} : procs'[d] = procs[d]
      BY <1>2, <2>1 DEF ProcessStarted, alive, IInv, TypeOK
    <2>3. \A d \in Commands \ {c} : cmdState'[d] = cmdState[d]
      BY <1>2 DEF ProcessStarted, IInv, TypeOK
    <2>4. QED
      BY <2>2, <2>3 DEF SignalledAliveIsAlive
  <1>3. ASSUME NEW from \in {"starting", "running", "doomed"}, procs[c][from] > 0,
               NEW to \in {"doomed", "dead"}
        PROVE  /\ move(procs[c], from, to) \in [Phases -> Nat]
               /\ to = "doomed" => alive(move(procs[c], from, to))
    BY <1>1, <1>3, Move DEF Phases, alive
  <1>4. CASE ProcessFailedToStart(c)
    BY <1>1, <1>3, <1>4, ProcessStopsSignals DEF ProcessFailedToStart
  <1>5. CASE ProcessFinished(c)
    BY <1>1, <1>3, <1>5, ProcessStopsSignals DEF ProcessFinished
  <1>6. CASE ProcessCrashed(c)
    BY <1>1, <1>3, <1>6, ProcessStopsSignals DEF ProcessCrashed
  <1>7. CASE ProcessReadError(c)
    BY <1>1, <1>3, <1>7, ProcessStopsSignals DEF ProcessReadError
  <1>8. QED
    BY <1>2, <1>4, <1>5, <1>6, <1>7 DEF ProcessEvent

LEMMA ApplicationSignals ==
  ASSUME IInv, SignalledAliveIsAlive, Application
  PROVE  SignalledAliveIsAlive'
  <1>1. /\ procs \in [Commands -> [Phases -> Nat]]
        /\ cmdState \in [Commands -> CommandStates]
        /\ \A d \in Commands : saysAlive(cmdState[d]) => alive(procs[d])
    BY DEF IInv, TypeOK, SignalledAliveIsAlive, saysAlive
  <1>2. CASE UNCHANGED localVars
    BY <1>2 DEF localVars, SignalledAliveIsAlive
  <1>3. CASE Start
    <2>1. \A d \in Commands : saysAlive(cmdState'[d]) => alive(procs'[d])
      BY <1>1, <1>3, StartCommandsSignals DEF Start
    <2>2. QED
      BY <2>1 DEF SignalledAliveIsAlive, saysAlive
  <1>4. CASE Stop
    <2>1. PICK last \in [Commands -> {"Finished", "FailedToStart"}] :
            cmdState' = [c \in Commands |-> IF closes(c) THEN last[c] ELSE cmdState[c]]
      BY <1>4 DEF Stop
    <2>2. \A c \in Commands : ~closes(c) => procs'[c] = procs[c]
      BY <1>4 DEF Stop
    <2>3. QED
      BY <2>1, <2>2 DEF SignalledAliveIsAlive
  <1>5. QED
    BY <1>2, <1>3, <1>4 DEF Application

\* What an aggregator was last told of a command is true: one that starts or is
\* started has a process.
THEOREM SignalsAreTrue == Spec => []SignalledAliveIsAlive
  <1>1. Init => SignalledAliveIsAlive
    BY DEF Init, SignalledAliveIsAlive
  <1>2. IInv /\ SignalledAliveIsAlive /\ [Next]_vars => SignalledAliveIsAlive'
    <2> SUFFICES ASSUME IInv, SignalledAliveIsAlive, [Next]_vars
                 PROVE  SignalledAliveIsAlive'
      OBVIOUS
    <2>1. CASE UNCHANGED vars
      BY <2>1 DEF vars, localVars, SignalledAliveIsAlive
    <2>2. QED
      BY <2>1, ApplicationSignals, ProcessEventSignals, DeletionSignals DEF Next
  <1>3. QED
    BY <1>1, <1>2, Invariance, PTL DEF Spec

-----------------------------------------------------------------------------
(* One process per command, where no process crashes or loses its pipe *)

Peaceful == Faults \subseteq {"syncFail"}

single(r) == r["doomed"] = 0 /\ r["starting"] + r["running"] <= 1

AllSingle == \A c \in Commands : single(procs[c])

\* A start that is not refused finds no process.
LEMMA StartsFromRest ==
  ASSUME IInv, canStart
  PROVE  \A c \in Commands : ~alive(procs[c])
  <1>1. activeProviders(pstate) = {}
    BY DEF canStart, canStop, IInv, PhaseMatchesProviders
  <1>2. QED
    BY <1>1, CommandsAssumption
       DEF activeProviders, isActiveProvider, IInv, NoOrphanProcess, LocalStates

\* One start of a command that has no process gives it at most one.
LEMMA StartSingle ==
  ASSUME NEW c \in Commands, NEW r \in [Phases -> Nat], NEW n \in {0, 1}, NEW f \in Nat,
         canFail(c, n, f), ~alive(r)
  PROVE  single(startProcess(c, r, n, f))
  BY DEF startProcess, canFail, alive, single, Phases

LEMMA StartCommandsSingle ==
  ASSUME NEW P, NEW ps \in [Commands -> [Phases -> Nat]],
         NEW cs, NEW failed \in Failures,
         \A c \in Commands : single(ps[c]),
         \A c \in Commands : Owner[c] \in P => ~alive(ps[c]),
         startCommands(P, ps, cs, failed)
  PROVE  AllSingle'
  <1>1. ASSUME NEW c \in Commands PROVE single(procs'[c])
    <2>1. CASE Owner[c] \in P
      <3>1. canFail(c, 1, failed[c]) /\ failed[c] \in Nat /\ ps[c] \in [Phases -> Nat]
        BY <2>1, BoundsAssumption DEF startCommands, Failures
      <3>2. procs'[c] = startProcess(c, ps[c], 1, failed[c])
        BY <2>1 DEF startCommands
      <3>3. QED
        BY <2>1, <3>1, <3>2, StartSingle
    <2>2. CASE Owner[c] \notin P
      BY <2>2 DEF startCommands
    <2>3. QED
      BY <2>1, <2>2
  <1>2. QED
    BY <1>1 DEF AllSingle

LEMMA ProcessEventSingle ==
  ASSUME Peaceful, TypeOK, AllSingle, NEW c \in Commands, ProcessEvent(c)
  PROVE  AllSingle'
  <1>1. procs[c] \in [Phases -> Nat] /\ single(procs[c])
    BY DEF TypeOK, AllSingle
  <1>2. ASSUME NEW from \in {"starting", "running"}, procs[c][from] > 0, NEW report,
               ProcessStops(c, move(procs[c], from, "dead"), 1, report)
        PROVE  AllSingle'
    <2> DEFINE r == move(procs[c], from, "dead")
               n == restarts(c, 1)
    <2>1. r \in [Phases -> Nat] /\ ~alive(r)
      BY <1>1, <1>2 DEF move, alive, single, Phases
    <2>2. PICK f \in 0..MaxSyncFailures :
            /\ canFail(c, n, f)
            /\ procs' = [procs EXCEPT ![c] = startProcess(c, r, n, f)]
      BY <1>2 DEF ProcessStops
    <2>3. n \in {0, 1} /\ f \in Nat
      BY BoundsAssumption DEF restarts
    <2> HIDE DEF n, r
    <2>4. single(startProcess(c, r, n, f))
      BY <2>1, <2>2, <2>3, StartSingle
    <2>5. QED
      BY <2>2, <2>4 DEF AllSingle, TypeOK
  <1>3. procs[c]["doomed"] = 0
    BY <1>1 DEF single
  <1>4. CASE ProcessStarted(c)
    <2>1. single(move(procs[c], "starting", "running"))
      BY <1>1, <1>4 DEF ProcessStarted, move, single, Phases
    <2>2. QED
      BY <1>4, <2>1 DEF ProcessStarted, AllSingle, TypeOK
  <1>5. CASE ProcessFailedToStart(c)
    BY <1>2, <1>5 DEF ProcessFailedToStart
  <1>6. CASE ProcessFinished(c)
    BY <1>2, <1>3, <1>6 DEF ProcessFinished
  <1>7. ~ProcessCrashed(c) /\ ~ProcessReadError(c)
    BY DEF Peaceful, ProcessCrashed, ProcessReadError
  <1>8. QED
    BY <1>4, <1>5, <1>6, <1>7 DEF ProcessEvent

LEMMA DeletionSingle ==
  ASSUME IInv, AllSingle, NEW c \in Commands, Deletion(c)
  PROVE  AllSingle'
  <1> DEFINE ps == [procs EXCEPT ![c]["dead"] = @ - 1]
  <1>1. /\ procs \in [Commands -> [Phases -> Nat]]
        /\ procs[c]["doomed"] = 0
    BY DEF IInv, TypeOK, AllSingle, single
  <1>2. procs[c]["dead"] > 0 /\ Destroyed(c, ps, cmdState)
    BY <1>1 DEF Deletion, DeleteDead, DeleteDoomed
  <1>3. /\ ps \in [Commands -> [Phases -> Nat]]
        /\ \A d \in Commands : single(ps[d])
    BY <1>1, <1>2 DEF AllSingle, single, Phases
  <1> HIDE DEF ps
  <1>4. CASE procs' = ps
    BY <1>3, <1>4 DEF AllSingle
  <1>5. CASE /\ finishes(Owner[c], ps)
             /\ \E failed \in Failures : startCommands({Owner[c]}, ps, cmdState, failed)
    <2>1. \A d \in Commands : Owner[d] \in {Owner[c]} => ~alive(ps[d])
      BY <1>5 DEF finishes, active
    <2>2. QED
      BY <1>3, <1>5, <2>1, StartCommandsSingle
  <1>6. QED
    BY <1>2, <1>4, <1>5 DEF Destroyed

LEMMA StopSingle ==
  ASSUME TypeOK, AllSingle, Stop
  PROVE  AllSingle'
  <1>1. ASSUME NEW c \in Commands PROVE single(procs'[c])
    <2>1. CASE closes(c)
      <3>1. procs'[c] = [procs[c] EXCEPT !["dead"] = @ + procs[c]["starting"],
                                         !["starting"] = 0]
        BY <2>1 DEF Stop
      <3>2. procs[c] \in [Phases -> Nat] /\ single(procs[c])
        BY DEF AllSingle, TypeOK
      <3>3. QED
        BY <3>1, <3>2 DEF single, Phases
    <2>2. CASE ~closes(c)
      BY <2>2 DEF Stop, AllSingle
    <2>3. QED
      BY <2>1, <2>2
  <1>2. QED
    BY <1>1 DEF AllSingle

LEMMA ApplicationSingle ==
  ASSUME IInv, AllSingle, Application
  PROVE  AllSingle'
  <1>1. procs \in [Commands -> [Phases -> Nat]]
    BY DEF IInv, TypeOK
  <1>2. CASE UNCHANGED localVars
    BY <1>2 DEF localVars, AllSingle
  <1>3. CASE Start
    <2>1. \A c \in Commands : ~alive(procs[c])
      BY <1>3, StartsFromRest DEF Start
    <2>2. QED
      BY <1>1, <1>3, <2>1, StartCommandsSingle DEF Start, AllSingle
  <1>4. CASE Stop
    BY <1>4, StopSingle DEF IInv
  <1>5. QED
    BY <1>2, <1>3, <1>4 DEF Application

\* While no process dies of a signal and no pipe fails, a command never has two
\* processes: a restart comes after the end of the process it replaces.
THEOREM RunsOnce ==
  ASSUME Faults \subseteq {"syncFail"}
  PROVE  Spec => []OneProcessPerCommand
  <1> USE DEF Peaceful
  <1>1. Init => AllSingle
    BY DEF Init, AllSingle, single, Phases
  <1>2. IInv /\ AllSingle /\ [Next]_vars => AllSingle'
    <2> SUFFICES ASSUME IInv, AllSingle, [Next]_vars
                 PROVE  AllSingle'
      OBVIOUS
    <2>1. CASE UNCHANGED vars
      BY <2>1 DEF vars, localVars, AllSingle
    <2>2. QED
      BY <2>1, ApplicationSingle, ProcessEventSingle, DeletionSingle DEF Next, IInv
  <1>3. AllSingle /\ IInv => OneProcessPerCommand
    BY DEF AllSingle, single, OneProcessPerCommand, IInv, TypeOK, Phases
  <1>4. QED
    BY <1>1, <1>2, <1>3, Invariance, PTL DEF Spec

-----------------------------------------------------------------------------
(* The end of a command, on the same condition *)

saysEnd(state) == state \in {"Finished", "FailedToStart"}

\* A start that is said to have failed left nothing alive.
LEMMA StartEnd ==
  ASSUME NEW c \in Commands, NEW r \in [Phases -> Nat], NEW n \in {0, 1}, NEW f \in Nat,
         canFail(c, n, f), ~alive(r), NEW before
  PROVE  saysEnd(signalled(c, n, f, before)) => ~alive(startProcess(c, r, n, f))
  <1>1. CASE n = 0
    BY <1>1, StartProcess
  <1>2. CASE n = 1 /\ c \notin Restart /\ f = 1
    BY <1>2 DEF startProcess, alive, Phases
  <1>3. CASE n = 1 /\ (c \in Restart \/ f = 0)
    BY <1>3 DEF signalled, saysEnd
  <1>4. QED
    BY <1>1, <1>2, <1>3 DEF canFail

LEMMA StartCommandsEnd ==
  ASSUME NEW P, NEW ps \in [Commands -> [Phases -> Nat]],
         NEW cs, NEW failed \in Failures,
         \A c \in Commands : saysEnd(cs[c]) => ~alive(ps[c]),
         \A c \in Commands : Owner[c] \in P => ~alive(ps[c]),
         startCommands(P, ps, cs, failed)
  PROVE  \A c \in Commands : saysEnd(cmdState'[c]) => ~alive(procs'[c])
  <1> SUFFICES ASSUME NEW c \in Commands
               PROVE  saysEnd(cmdState'[c]) => ~alive(procs'[c])
    OBVIOUS
  <1>1. CASE Owner[c] \in P
    <2>1. canFail(c, 1, failed[c]) /\ failed[c] \in Nat /\ ps[c] \in [Phases -> Nat]
      BY <1>1, BoundsAssumption DEF startCommands, Failures
    <2>2. /\ procs'[c] = startProcess(c, ps[c], 1, failed[c])
          /\ cmdState'[c] = signalled(c, 1, failed[c], cs[c])
      BY <1>1 DEF startCommands
    <2>3. QED
      BY <1>1, <2>1, <2>2, StartEnd
  <1>2. CASE Owner[c] \notin P
    BY <1>2 DEF startCommands
  <1>3. QED
    BY <1>1, <1>2

LEMMA ProcessEventEnd ==
  ASSUME Peaceful, TypeOK, AllSingle, SignalledEndIsEnd, NEW c \in Commands, ProcessEvent(c)
  PROVE  SignalledEndIsEnd'
  <1>1. procs[c] \in [Phases -> Nat] /\ single(procs[c])
    BY DEF TypeOK, AllSingle
  <1>2. ASSUME NEW from \in {"starting", "running"}, procs[c][from] > 0, NEW report,
               ProcessStops(c, move(procs[c], from, "dead"), 1, report)
        PROVE  SignalledEndIsEnd'
    <2> DEFINE r == move(procs[c], from, "dead")
               n == restarts(c, 1)
    <2>1. r \in [Phases -> Nat] /\ ~alive(r)
      BY <1>1, <1>2 DEF move, alive, single, Phases
    <2>2. PICK f \in 0..MaxSyncFailures :
            /\ canFail(c, n, f)
            /\ procs' = [procs EXCEPT ![c] = startProcess(c, r, n, f)]
            /\ cmdState' = [cmdState EXCEPT ![c] = signalled(c, n, f, report)]
      BY <1>2 DEF ProcessStops
    <2>3. n \in {0, 1} /\ f \in Nat
      BY BoundsAssumption DEF restarts
    <2> HIDE DEF n, r
    <2>4. saysEnd(signalled(c, n, f, report)) => ~alive(startProcess(c, r, n, f))
      BY <2>1, <2>2, <2>3, StartEnd
    <2>5. QED
      BY <2>2, <2>4 DEF SignalledEndIsEnd, saysEnd, TypeOK
  <1>3. procs[c]["doomed"] = 0
    BY <1>1 DEF single
  <1>4. CASE ProcessStarted(c)
    BY <1>4 DEF ProcessStarted, SignalledEndIsEnd, TypeOK
  <1>5. CASE ProcessFailedToStart(c)
    BY <1>2, <1>5 DEF ProcessFailedToStart
  <1>6. CASE ProcessFinished(c)
    BY <1>2, <1>3, <1>6 DEF ProcessFinished
  <1>7. ~ProcessCrashed(c) /\ ~ProcessReadError(c)
    BY DEF Peaceful, ProcessCrashed, ProcessReadError
  <1>8. QED
    BY <1>4, <1>5, <1>6, <1>7 DEF ProcessEvent

LEMMA DeletionEnd ==
  ASSUME IInv, AllSingle, SignalledEndIsEnd, NEW c \in Commands, Deletion(c)
  PROVE  SignalledEndIsEnd'
  <1> DEFINE ps == [procs EXCEPT ![c]["dead"] = @ - 1]
  <1>1. /\ procs \in [Commands -> [Phases -> Nat]]
        /\ procs[c]["doomed"] = 0
    BY DEF IInv, TypeOK, AllSingle, single
  <1>2. procs[c]["dead"] > 0 /\ Destroyed(c, ps, cmdState)
    BY <1>1 DEF Deletion, DeleteDead, DeleteDoomed
  <1>3. /\ ps \in [Commands -> [Phases -> Nat]]
        /\ \A d \in Commands : alive(ps[d]) => alive(procs[d])
    BY <1>1, <1>2 DEF alive, Phases
  <1>4. \A d \in Commands : saysEnd(cmdState[d]) => ~alive(ps[d])
    BY <1>3 DEF SignalledEndIsEnd, saysEnd
  <1> HIDE DEF ps
  <1>5. CASE procs' = ps /\ cmdState' = cmdState
    BY <1>4, <1>5 DEF SignalledEndIsEnd, saysEnd
  <1>6. CASE /\ finishes(Owner[c], ps)
             /\ \E failed \in Failures : startCommands({Owner[c]}, ps, cmdState, failed)
    <2>1. \A d \in Commands : Owner[d] \in {Owner[c]} => ~alive(ps[d])
      BY <1>6 DEF finishes, active
    <2>2. \A d \in Commands : saysEnd(cmdState'[d]) => ~alive(procs'[d])
      BY <1>3, <1>4, <1>6, <2>1, StartCommandsEnd
    <2>3. QED
      BY <2>2 DEF SignalledEndIsEnd, saysEnd
  <1>7. QED
    BY <1>2, <1>5, <1>6 DEF Destroyed

LEMMA StopEnd ==
  ASSUME TypeOK, AllSingle, SignalledEndIsEnd, Stop
  PROVE  SignalledEndIsEnd'
  <1>1. ASSUME NEW c \in Commands, closes(c) PROVE ~alive(procs'[c])
    <2>1. procs'[c] = [procs[c] EXCEPT !["dead"] = @ + procs[c]["starting"],
                                       !["starting"] = 0]
      BY <1>1 DEF Stop
    <2>2. procs[c] \in [Phases -> Nat] /\ single(procs[c]) /\ procs[c]["starting"] > 0
      BY <1>1 DEF AllSingle, TypeOK, closes
    <2>3. QED
      BY <2>1, <2>2 DEF single, alive, Phases
  <1>2. ASSUME NEW c \in Commands, ~closes(c)
        PROVE  procs'[c] = procs[c] /\ cmdState'[c] = cmdState[c]
    BY <1>2 DEF Stop
  <1>3. QED
    BY <1>1, <1>2 DEF SignalledEndIsEnd

LEMMA ApplicationEnd ==
  ASSUME IInv, AllSingle, SignalledEndIsEnd, Application
  PROVE  SignalledEndIsEnd'
  <1>1. procs \in [Commands -> [Phases -> Nat]]
    BY DEF IInv, TypeOK
  <1>2. CASE UNCHANGED localVars
    BY <1>2 DEF localVars, SignalledEndIsEnd
  <1>3. CASE Start
    <2>1. \A c \in Commands : ~alive(procs[c])
      BY <1>3, StartsFromRest DEF Start
    <2>2. \A c \in Commands : saysEnd(cmdState'[c]) => ~alive(procs'[c])
      BY <1>1, <1>3, <2>1, StartCommandsEnd DEF Start
    <2>3. QED
      BY <2>2 DEF SignalledEndIsEnd, saysEnd
  <1>4. CASE Stop
    BY <1>4, StopEnd DEF IInv
  <1>5. QED
    BY <1>2, <1>3, <1>4 DEF Application

\* While no process dies of a signal and no pipe fails, a command whose end was
\* signalled last has no process.
THEOREM EndsAreTrue ==
  ASSUME Faults \subseteq {"syncFail"}
  PROVE  Spec => []SignalledEndIsEnd
  <1> USE DEF Peaceful
  <1> DEFINE I == AllSingle /\ SignalledEndIsEnd
  <1>1. Init => I
    BY DEF Init, AllSingle, single, Phases, SignalledEndIsEnd
  <1>2. IInv /\ I /\ [Next]_vars => I'
    <2> SUFFICES ASSUME IInv, I, [Next]_vars
                 PROVE  I'
      OBVIOUS
    <2>1. CASE UNCHANGED vars
      BY <2>1 DEF vars, localVars, AllSingle, SignalledEndIsEnd
    <2>2. QED
      BY <2>1, ApplicationSingle, ProcessEventSingle, DeletionSingle,
         ApplicationEnd, ProcessEventEnd, DeletionEnd DEF Next, IInv
  <1>3. QED
    BY <1>1, <1>2, Invariance, PTL DEF Spec

=============================================================================
