--------------------------- MODULE SshDaggyProofs ---------------------------
(***************************************************************************)
(* The safety of SshDaggy, for any providers, hosts, commands and bounds.  *)
(* CSsh is a CLocal that is started late and by somebody else, so that the *)
(* part of LocalDaggy's invariant that speaks of Core does not hold here;  *)
(* what the process handlers keep (LocalInv) does.                         *)
(***************************************************************************)
EXTENDS SshDaggy, LocalDaggyCommandProofs, LocalDaggyRefinement

\* Masters and check timers are only those of providers that prepare made.
MasterHasProvider ==
  \A p \in Providers : (master[p] # "none" \/ timers[p] > 0) => p \in prepared

\* The inductive invariant.
SshInv ==
  /\ LocalInv
  /\ SshTypeOK
  /\ AllSingle
  /\ MasterHasProvider
  /\ NoMasterWhileFinishing

-----------------------------------------------------------------------------
(* Masters *)

\* startMaster touches the masters and timers of its providers only.
LEMMA StartMaster ==
  ASSUME SshTypeOK, NEW P, startMaster(P)
  PROVE  /\ master' \in [Providers -> MasterStates]
         /\ timers' \in [Providers -> 0..MaxTimers]
         /\ \A p \in Providers \ P : master'[p] = master[p] /\ timers'[p] = timers[p]
  <1> DEFINE new == {p \in P : startsMaster(p)}
  <1>1. PICK failed \in SUBSET new :
          /\ master' = [p \in Providers |->
               IF p \in failed THEN "failed" ELSE IF p \in new THEN "connecting" ELSE master[p]]
          /\ timers' = [p \in Providers |-> timers[p] + (IF p \in new \ failed THEN 1 ELSE 0)]
          /\ \A p \in Providers : timers'[p] <= MaxTimers
    BY DEF startMaster
  <1>2. \A p \in Providers : timers[p] \in Nat
    BY SshAssumption DEF SshTypeOK
  <1>3. \A p \in Providers : timers'[p] \in 0..MaxTimers
    BY <1>1, <1>2, SshAssumption
  <1>4. master' \in [Providers -> MasterStates]
    BY <1>1 DEF MasterStates, SshTypeOK
  <1>5. \A p \in Providers \ P : p \notin new
    OBVIOUS
  <1> HIDE DEF new
  <1>6. \A p \in Providers \ P : master'[p] = master[p] /\ timers'[p] = timers[p]
    BY <1>1, <1>2, <1>5
  <1>7. QED
    BY <1>1, <1>3, <1>4, <1>6

\* A step that leaves Core, the providers and their processes alone, and does
\* not touch the masters unless there are some.
LEMMA MasterStep ==
  ASSUME SshInv, UNCHANGED vars,
         master' \in [Providers -> MasterStates],
         \A p \in Providers : master'[p] # "none" => master[p] # "none",
         UNCHANGED timers
  PROVE  SshInv'
  <1> USE DEF vars, coreVars, localVars
  <1>1. LocalInv'
    BY DEF SshInv, LocalInv, TypeOK, CoreTypeOK, LocalStates, NoOrphanProcess, EndIsNoticed,
           RestartKeepsAlive
  <1>2. SshTypeOK'
    BY <1>1 DEF SshInv, LocalInv, SshTypeOK
  <1>3. AllSingle' /\ MasterHasProvider' /\ NoMasterWhileFinishing'
    BY <1>2 DEF SshInv, AllSingle, MasterHasProvider, NoMasterWhileFinishing
  <1>4. QED
    BY <1>1, <1>2, <1>3 DEF SshInv

LEMMA MasterConnectsStep ==
  ASSUME SshInv, NEW p \in Providers, MasterConnects(p)
  PROVE  SshInv'
  BY MasterStep DEF MasterConnects, SshInv, SshTypeOK, MasterStates

LEMMA MasterEndsStep ==
  ASSUME SshInv, NEW p \in Providers, MasterEnds(p)
  PROVE  SshInv'
  <1>1. /\ master \in [Providers -> MasterStates]
        /\ master[p] # "none"
        /\ master' = controlTerminate(p, [master EXCEPT ![p] = "ended"])
        /\ UNCHANGED <<vars, timers>>
    BY DEF MasterEnds, SshInv, SshTypeOK
  <1>2. /\ master' \in [Providers -> MasterStates]
        /\ \A q \in Providers : master'[q] # "none" => master[q] # "none"
    BY <1>1 DEF controlTerminate, MasterStates
  <1>3. QED
    BY <1>1, <1>2, MasterStep

-----------------------------------------------------------------------------
(* The other steps *)

\* The check that finds the master connected, or that cannot be run, starts the
\* commands, unless the provider is active; the masters stay as they are.
LEMMA CheckMasterStep ==
  ASSUME SshInv, NEW p \in Providers, CheckMaster(p)
  PROVE  SshInv'
  <1>1. p \in prepared
    BY DEF CheckMaster, SshInv, MasterHasProvider
  <1>2. /\ master' = master /\ timers' = [timers EXCEPT ![p] = @ - 1]
        /\ timers' \in [Providers -> 0..MaxTimers]
        /\ \A q \in Providers : timers'[q] > 0 => q \in prepared
    BY <1>1, SshAssumption DEF CheckMaster, SshInv, SshTypeOK, MasterHasProvider
  <1>3. /\ UNCHANGED <<coreState, prepared>>
        /\ LocalInv' /\ AllSingle'
    <2>1. CASE UNCHANGED vars
      BY <2>1 DEF vars, coreVars, localVars, SshInv, LocalInv, TypeOK, CoreTypeOK, LocalStates,
                  NoOrphanProcess, EndIsNoticed, RestartKeepsAlive, AllSingle
    <2>2. CASE /\ ~isActiveProvider(pstate[p])
               /\ pstate' = [pstate EXCEPT ![p] = "Started"]
               /\ \E failed \in Failures : startCommands({p}, procs, cmdState, failed)
               /\ UNCHANGED <<coreState, prepared>>
      <3>1. PICK failed \in Failures : startCommands({p}, procs, cmdState, failed)
        BY <2>2
      <3>2. PICK c \in Commands : Owner[c] = p
        BY CommandsAssumption
      <3>3. \A d \in Commands : Owner[d] \in {p} => ~alive(procs[d])
        BY <2>2 DEF SshInv, LocalInv, NoOrphanProcess, isActiveProvider
      <3>4. /\ procs \in [Commands -> [Phases -> Nat]]
            /\ cmdState \in [Commands -> CommandStates]
            /\ \A d \in Commands : single(procs[d])
        BY DEF SshInv, LocalInv, TypeOK, AllSingle
      <3>5. Leaves(c, procs)
        BY <3>2, <3>4, <2>2 DEF Leaves, isActiveProvider
      <3>6. LocalInv'
        BY <1>1, <2>2, <3>1, <3>2, <3>4, <3>5, StartCommandsLocal DEF SshInv
      <3>7. AllSingle'
        BY <3>1, <3>3, <3>4, StartCommandsSingle
      <3>8. QED
        BY <2>2, <3>6, <3>7
    <2>3. QED
      BY <2>1, <2>2 DEF CheckMaster, StartLocal, vars, coreVars
  <1>4. SshTypeOK'
    BY <1>2, <1>3 DEF SshInv, SshTypeOK, LocalInv
  <1>5. MasterHasProvider' /\ NoMasterWhileFinishing'
    BY <1>1, <1>2, <1>3 DEF SshInv, MasterHasProvider, NoMasterWhileFinishing
  <1>6. QED
    BY <1>1, <1>3, <1>4, <1>5 DEF SshInv

LEMMA SlaveEventStep ==
  ASSUME SshInv, NEW c \in Commands, SlaveEvent(c)
  PROVE  SshInv'
  <1>1. ProcessEvent(c) /\ UNCHANGED coreVars /\ UNCHANGED masterVars
    BY DEF SlaveEvent, ProcessEvent, ProcessStarted, ProcessFailedToStart, ProcessFinished,
           ProcessStops
  <1>2. LocalInv' /\ AllSingle'
    BY <1>1, SshAssumption, ProcessEventLocal, ProcessEventSingle
       DEF SshInv, LocalInv, Peaceful
  <1>3. SshTypeOK'
    BY <1>1, <1>2 DEF SshInv, SshTypeOK, LocalInv, masterVars
  <1>4. MasterHasProvider' /\ NoMasterWhileFinishing'
    BY <1>1 DEF SshInv, MasterHasProvider, NoMasterWhileFinishing, masterVars, coreVars
  <1>5. QED
    BY <1>2, <1>3, <1>4 DEF SshInv

\* A provider that finishes may start its master again, but not under a Core
\* that is Finishing.
LEMMA SshDeletionStep ==
  ASSUME SshInv, NEW c \in Commands, SshDeletion(c)
  PROVE  SshInv'
  <1> DEFINE p    == Owner[c]
             left == [procs EXCEPT ![c]["dead"] = @ - 1]
  <1>1. /\ procs \in [Commands -> [Phases -> Nat]]
        /\ cmdState \in [Commands -> CommandStates]
        /\ pstate \in [Providers -> ProviderStates]
        /\ p \in Providers
    BY CommandsAssumption DEF SshInv, LocalInv, TypeOK, CoreTypeOK
  <1>2. /\ procs' = left /\ UNCHANGED <<prepared, cmdState>>
        /\ procs[c]["dead"] > 0
    BY DEF SshDeletion
  <1>3. /\ left \in [Commands -> [Phases -> Nat]]
        /\ \A d \in Commands : alive(left[d]) <=> alive(procs[d])
        /\ \A d \in Commands : single(procs[d]) => single(left[d])
    BY <1>1, <1>2 DEF Phases, alive, single
  <1>4. Leaves(c, left)
    BY <1>1, <1>3 DEF Leaves, SshInv, LocalInv, RestartKeepsAlive
  <1>5. AllSingle'
    BY <1>2, <1>3 DEF SshInv, AllSingle
  <1>6. CASE finishes(p, left)
    <2>1. /\ pstate' = [pstate EXCEPT ![p] = "Finished"]
          /\ coreState' = coreAfter(coreState, pstate')
          /\ startMaster(IF reconnects(coreState, p) THEN {p} ELSE {})
      BY <1>6 DEF SshDeletion
    <2>2. p \in prepared
      BY <1>1, <1>6 DEF finishes, SshInv, LocalInv, LocalStates
    <2> HIDE DEF left
    <2>3. LocalInv'
      BY <1>1, <1>2, <1>4, <1>6, <2>1, DestroyedFinishes DEF SshInv
    <2>4. /\ master' \in [Providers -> MasterStates]
          /\ timers' \in [Providers -> 0..MaxTimers]
          /\ \A q \in Providers \ {p} : master'[q] = master[q] /\ timers'[q] = timers[q]
          /\ ~reconnects(coreState, p) => master'[p] = master[p] /\ timers'[p] = timers[p]
      BY <1>1, <2>1, StartMaster DEF SshInv
    <2>5. SshTypeOK'
      BY <2>3, <2>4 DEF SshTypeOK, LocalInv
    <2>6. MasterHasProvider'
      BY <1>2, <2>2, <2>4 DEF SshInv, MasterHasProvider
    <2>7. NoMasterWhileFinishing'
      <3> SUFFICES ASSUME coreState' = "Finishing"
                   PROVE  \A q \in Providers : master'[q] = "none"
        BY DEF NoMasterWhileFinishing
      <3>1. coreState = "Finishing" /\ ~reconnects(coreState, p)
        BY <2>1 DEF coreAfter, reconnects
      <3>2. \A q \in Providers : master[q] = "none"
        BY <3>1 DEF SshInv, NoMasterWhileFinishing
      <3>3. QED
        BY <1>1, <2>1, <2>4, <3>1, <3>2
    <2>8. QED
      BY <1>5, <2>3, <2>5, <2>6, <2>7 DEF SshInv
  <1>7. CASE ~finishes(p, left)
    <2>1. UNCHANGED coreVars /\ UNCHANGED masterVars
      BY <1>7, <1>2 DEF SshDeletion, coreVars
    <2> HIDE DEF left
    <2>2. LocalInv'
      BY <1>1, <1>2, <1>4, <1>7, <2>1, DestroyedGoesOn DEF SshInv
    <2>3. SshTypeOK' /\ MasterHasProvider' /\ NoMasterWhileFinishing'
      BY <2>1, <2>2 DEF SshInv, SshTypeOK, LocalInv, MasterHasProvider, NoMasterWhileFinishing,
                        masterVars, coreVars
    <2>4. QED
      BY <1>5, <2>2, <2>3 DEF SshInv
  <1>8. QED
    BY <1>6, <1>7

LEMMA SshStopStep ==
  ASSUME SshInv, SshStop
  PROVE  SshInv'
  <1>1. /\ Stop
        /\ pstate' = [p \in Providers |-> terminated(p)]
        /\ coreState' = coreAfter("Finishing", pstate')
        /\ prepared' = prepared /\ timers' = timers
        /\ master' = IF activeProviders(pstate) = {} THEN master
                     ELSE [p \in Providers |-> stoppedMaster(p)]
    BY DEF SshStop, Stop
  <1>2. LocalInv'
    BY <1>1, StopLocal DEF SshInv
  <1>3. SshTypeOK'
    BY <1>1, <1>2 DEF SshInv, SshTypeOK, LocalInv, stoppedMaster, MasterStates
  <1>4. AllSingle'
    BY <1>1, StopSingle DEF SshInv, LocalInv
  <1>5. MasterHasProvider'
    BY <1>1 DEF SshInv, MasterHasProvider, stoppedMaster
  <1>6. NoMasterWhileFinishing'
    <2> SUFFICES ASSUME coreState' = "Finishing", NEW p \in Providers
                 PROVE  master'[p] = "none"
      BY DEF NoMasterWhileFinishing
    <2>1. activeProviders(pstate) # {}
      <3>1. PICK q \in prepared : isActiveProvider(pstate'[q])
        BY <1>1 DEF coreAfter, activeProviders
      <3>2. q \in Providers
        BY DEF SshInv, LocalInv, TypeOK, CoreTypeOK
      <3>3. isActiveProvider(pstate[q])
        BY <1>1, <3>1, <3>2 DEF terminated, isActiveProvider
      <3>4. QED
        BY <3>3 DEF activeProviders
    <2>2. QED
      BY <1>1, <2>1 DEF stoppedMaster, SshInv, MasterHasProvider
  <1>7. QED
    BY <1>2, <1>3, <1>4, <1>5, <1>6 DEF SshInv

LEMMA SshStartStep ==
  ASSUME SshInv, SshStart
  PROVE  SshInv'
  <1>1. /\ coreState' = "Started" /\ startMaster(prepared)
        /\ UNCHANGED <<prepared, pstate, procs, cmdState>>
    BY DEF SshStart, localVars
  <1>2. LocalInv'
    BY <1>1 DEF SshInv, LocalInv, TypeOK, CoreTypeOK, CoreStates, LocalStates,
                NoOrphanProcess, EndIsNoticed, RestartKeepsAlive
  <1>3. /\ master' \in [Providers -> MasterStates]
        /\ timers' \in [Providers -> 0..MaxTimers]
        /\ \A p \in Providers \ prepared : master'[p] = master[p] /\ timers'[p] = timers[p]
    BY <1>1, StartMaster DEF SshInv
  <1>4. SshTypeOK' /\ AllSingle'
    BY <1>1, <1>2, <1>3 DEF SshInv, SshTypeOK, LocalInv, AllSingle
  <1>5. MasterHasProvider' /\ NoMasterWhileFinishing'
    BY <1>1, <1>3 DEF SshInv, MasterHasProvider, NoMasterWhileFinishing
  <1>6. QED
    BY <1>2, <1>4, <1>5 DEF SshInv

\* prepare, and a start that finds no provider.
LEMMA SshPrepareStep ==
  ASSUME SshInv, prepared = {}, prepared' \subseteq Providers,
         coreState' \in {coreState, "Finished"},
         UNCHANGED <<pstate, localVars, masterVars>>
  PROVE  SshInv'
  <1> USE DEF localVars, masterVars
  <1>1. LocalInv'
    BY DEF SshInv, LocalInv, TypeOK, CoreTypeOK, CoreStates, LocalStates,
           NoOrphanProcess, EndIsNoticed, RestartKeepsAlive
  <1>2. SshTypeOK' /\ AllSingle'
    BY <1>1 DEF SshInv, SshTypeOK, LocalInv, AllSingle
  <1>3. MasterHasProvider' /\ NoMasterWhileFinishing'
    BY DEF SshInv, MasterHasProvider, NoMasterWhileFinishing
  <1>4. QED
    BY <1>1, <1>2, <1>3 DEF SshInv

LEMMA SshInitInv == SshInit => SshInv
  <1> SUFFICES ASSUME SshInit PROVE SshInv
    OBVIOUS
  <1>1. LocalInv
    BY InitIInv, LocalPart DEF SshInit
  <1>2. SshTypeOK
    BY <1>1, SshAssumption DEF SshInit, SshTypeOK, LocalInv, MasterStates
  <1>3. AllSingle
    BY DEF SshInit, Init, AllSingle, single, Phases
  <1>4. MasterHasProvider /\ NoMasterWhileFinishing
    BY DEF SshInit, Init, CoreInit, MasterHasProvider, NoMasterWhileFinishing
  <1>5. QED
    BY <1>1, <1>2, <1>3, <1>4 DEF SshInv

LEMMA SshPreservation ==
  ASSUME SshInv, [SshNext]_sshVars
  PROVE  SshInv'
  <1>1. CASE (PrepareSucceeds \/ PrepareThrows \/ StartWithoutProviders)
               /\ UNCHANGED <<localVars, masterVars>>
    BY <1>1, SshPrepareStep DEF PrepareSucceeds, PrepareThrows, StartWithoutProviders
  <1>2. CASE SshStart
    BY <1>2, SshStartStep
  <1>3. CASE SshStop
    BY <1>3, SshStopStep
  <1>4. ASSUME NEW p \in Providers, MasterEvent(p) PROVE SshInv'
    BY <1>4, MasterConnectsStep, MasterEndsStep, CheckMasterStep DEF MasterEvent
  <1>5. ASSUME NEW c \in Commands, SlaveEvent(c) \/ SshDeletion(c) PROVE SshInv'
    BY <1>5, SlaveEventStep, SshDeletionStep
  <1>6. CASE UNCHANGED sshVars
    BY <1>6, MasterStep DEF sshVars, masterVars, SshInv, SshTypeOK
  <1>7. QED
    BY <1>1, <1>2, <1>3, <1>4, <1>5, <1>6 DEF SshNext, SshApplication

-----------------------------------------------------------------------------
(* The theorems *)

\* The inductive invariant holds in every reachable state.
THEOREM SshInvariance == SshSpec => []SshInv
  <1>1. SshInv /\ [SshNext]_sshVars => SshInv'
    BY SshPreservation
  <1>2. QED
    BY SshInitInv, <1>1, PTL DEF SshSpec

\* Every variable has its type, and no provider has more timers than allowed.
THEOREM SshTypeCorrect == SshSpec => []SshTypeOK
  BY SshInvariance, PTL DEF SshInv

\* However late a check comes, and whatever was started meanwhile, a command of
\* an ssh source has one process at a time.
THEOREM SshRunsOnce == SshSpec => []OneProcessPerCommand
  <1>1. SshInv => OneProcessPerCommand
    BY DEF SshInv, AllSingle, single, OneProcessPerCommand, LocalInv, TypeOK, Phases
  <1>2. QED
    BY <1>1, SshInvariance, PTL

\* An aggregator that was told that a command of an ssh source ended is right,
\* although the checks of earlier sessions may start it again.
THEOREM SshEndsAreTrue == SshSpec => []SignalledEndIsEnd
  <1>1. SshInit => SignalledEndIsEnd
    BY DEF SshInit, Init, SignalledEndIsEnd
  <1>2. ASSUME SshInv, SignalledEndIsEnd, [SshNext]_sshVars
        PROVE  SignalledEndIsEnd'
    <2>1. TypeOK /\ AllSingle /\ procs \in [Commands -> [Phases -> Nat]]
      BY <1>2 DEF SshInv, LocalInv, TypeOK
    <2>2. CASE UNCHANGED localVars
      BY <1>2, <2>2 DEF localVars, SignalledEndIsEnd
    <2>3. CASE Stop
      BY <1>2, <2>1, <2>3, StopEnd
    <2>4. ASSUME NEW p \in Providers, CheckMaster(p)
          PROVE  SignalledEndIsEnd'
      <3>1. CASE UNCHANGED vars
        BY <2>2, <3>1 DEF vars, localVars
      <3>2. CASE /\ ~isActiveProvider(pstate[p])
                 /\ \E failed \in Failures : startCommands({p}, procs, cmdState, failed)
        <4>1. \A c \in Commands : Owner[c] \in {p} => ~alive(procs[c])
          BY <1>2, <3>2 DEF SshInv, LocalInv, NoOrphanProcess, isActiveProvider
        <4>2. \A c \in Commands : saysEnd(cmdState[c]) => ~alive(procs[c])
          BY <1>2 DEF SignalledEndIsEnd, saysEnd
        <4>3. \A c \in Commands : saysEnd(cmdState'[c]) => ~alive(procs'[c])
          BY <2>1, <3>2, <4>1, <4>2, StartCommandsEnd
        <4>4. QED
          BY <4>3 DEF SignalledEndIsEnd, saysEnd
      <3>3. QED
        BY <2>4, <3>1, <3>2 DEF CheckMaster, StartLocal
    <2>5. ASSUME NEW c \in Commands, SlaveEvent(c)
          PROVE  SignalledEndIsEnd'
      BY <1>2, <2>1, <2>5, SshAssumption, ProcessEventEnd DEF SlaveEvent, ProcessEvent, Peaceful
    <2>6. ASSUME NEW c \in Commands, SshDeletion(c)
          PROVE  SignalledEndIsEnd'
      <3>1. procs' = [procs EXCEPT ![c]["dead"] = @ - 1] /\ cmdState' = cmdState
        BY <2>6 DEF SshDeletion
      <3>2. \A d \in Commands : alive(procs'[d]) => alive(procs[d])
        BY <2>1, <3>1 DEF alive, Phases
      <3>3. QED
        BY <1>2, <3>1, <3>2 DEF SignalledEndIsEnd
    <2>7. QED
      BY <1>2, <2>2, <2>3, <2>4, <2>5, <2>6
      DEF SshNext, SshApplication, SshStart, SshStop, MasterEvent, MasterConnects, MasterEnds,
          sshVars, vars, localVars
  <1>3. QED
    BY <1>1, <1>2, SshInvariance, PTL DEF SshSpec

\* No `ssh` process of a command runs under a provider that is not active.
THEOREM SshNoOrphans == SshSpec => []NoOrphanProcess
  BY SshInvariance, PTL DEF SshInv, LocalInv

\* The end of the last command of an ssh source is noticed.
THEOREM SshEndsAreNoticed == SshSpec => []EndIsNoticed
  BY SshInvariance, PTL DEF SshInv, LocalInv

\* While Core waits for its providers there is no master that a check could find.
THEOREM StopEndsMasters == SshSpec => []NoMasterWhileFinishing
  BY SshInvariance, PTL DEF SshInv

\* Every ssh source keeps the promise of a session, however late its master
\* connects: only Core's state, which does not wait for it, is ahead of it.
THEOREM SshProvidersKeepPromise == SshSpec => KeepsProviderPromise
  <1>1. ASSUME SshInit
        PROVE  \A p \in Providers : ProviderPromise(p)!Init
    <2> SUFFICES ASSUME NEW p \in Providers
                 PROVE  ProviderPromise(p)!Init
      OBVIOUS
    <2>1. pstate[p] = "NotStarted"
      BY <1>1 DEF SshInit, Init, CoreInit
    <2>2. \A c \in Commands : Owner[c] = p => ~alive(procs[c])
      BY <1>1, <2>1, SshInitInv DEF SshInv, LocalInv, NoOrphanProcess
    <2>3. QED
      BY <2>1, <2>2 DEF ProviderPromise!Init
  <1>2. ASSUME SshInv, SshInv', [SshNext]_sshVars
        PROVE  [\A p \in Providers : [ProviderPromise(p)!Next]_(ProviderPromise(p)!vars)]_vars
    <2> SUFFICES ASSUME NEW p \in Providers
                 PROVE  [ProviderPromise(p)!Next]_(ProviderPromise(p)!vars)
      OBVIOUS
    <2>1. LocalInv /\ LocalInv'
      BY <1>2 DEF SshInv
    <2>2. CASE UNCHANGED <<pstate, procs>>
      BY <2>1, <2>2, StaysInShape, ShapeIsPromised
    <2>3. CASE Stop
      BY <2>1, <2>3, StoppingShape, ShapeIsPromised DEF LocalInv
    <2>4. ASSUME NEW q \in Providers, CheckMaster(q)
          PROVE  [ProviderPromise(p)!Next]_(ProviderPromise(p)!vars)
      <3>1. CASE UNCHANGED vars
        BY <2>2, <3>1 DEF vars, coreVars, localVars
      <3>2. CASE /\ ~isActiveProvider(pstate[q])
                 /\ pstate' = [pstate EXCEPT ![q] = "Started"]
                 /\ \E failed \in Failures : startCommands({q}, procs, cmdState, failed)
        <4>1. pstate \in [Providers -> ProviderStates]
          BY <2>1 DEF LocalInv, TypeOK, CoreTypeOK
        <4>2. \A s \in Providers : pstate'[s] = IF s \in {q} THEN "Started" ELSE pstate[s]
          BY <3>2, <4>1
        <4>3. QED
          BY <2>1, <3>2, <4>2, BeginningShape, ShapeIsPromised
      <3>3. QED
        BY <2>4, <3>1, <3>2 DEF CheckMaster, StartLocal
    <2>5. ASSUME NEW c \in Commands, SlaveEvent(c)
          PROVE  [ProviderPromise(p)!Next]_(ProviderPromise(p)!vars)
      BY <2>1, <2>5, EventShape, ShapeIsPromised DEF LocalInv, SlaveEvent, ProcessEvent
    <2>6. ASSUME NEW c \in Commands, SshDeletion(c)
          PROVE  [ProviderPromise(p)!Next]_(ProviderPromise(p)!vars)
      <3>1. /\ procs \in [Commands -> [Phases -> Nat]]
            /\ pstate \in [Providers -> ProviderStates]
        BY <2>1 DEF LocalInv, TypeOK, CoreTypeOK
      <3>2. procs' = [procs EXCEPT ![c]["dead"] = @ - 1]
        BY <2>6 DEF SshDeletion
      <3>3. \A d \in Commands : alive(procs'[d]) => alive(procs[d])
        BY <3>1, <3>2 DEF alive, Phases
      <3>4. pstate' = pstate \/ pstate' = [pstate EXCEPT ![Owner[c]] = "Finished"]
        BY <2>6 DEF SshDeletion
      <3>5. pstate'[p] \in {pstate[p], "Finished"}
        BY <3>1, <3>4
      <3>6. ProviderShape(p)
        BY <3>3, <3>5 DEF ProviderShape
      <3>7. QED
        BY <2>1, <3>6, ShapeIsPromised
    <2>7. QED
      BY <1>2, <2>2, <2>3, <2>4, <2>5, <2>6
      DEF SshNext, SshApplication, SshStart, SshStop, MasterEvent, MasterConnects, MasterEnds,
          PrepareSucceeds, PrepareThrows, StartWithoutProviders, sshVars, vars, coreVars, localVars
  <1>3. QED
    BY <1>1, <1>2, SshInvariance, PTL DEF SshSpec, KeepsProviderPromise
=============================================================================
