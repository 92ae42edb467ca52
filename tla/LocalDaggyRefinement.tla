------------------------ MODULE LocalDaggyRefinement ------------------------
(***************************************************************************)
(* LocalDaggy keeps the safety part of the Session promise, and starts no  *)
(* process after a stop: what a step may never do, proved from the         *)
(* inductive invariant of LocalDaggyProofs.                                *)
(***************************************************************************)
EXTENDS LocalDaggyProofs

\* Core starts restart commands and reconnecting sources only while Started.
LEMMA StartedProviderStartedCore ==
  ASSUME IInv, NEW p \in Providers, pstate[p] = "Started"
  PROVE  coreState = "Started" /\ p \in prepared
  <1>1. p \in activeProviders(pstate)
    BY DEF IInv, LocalStates, activeProviders, isActiveProvider
  <1>2. canStop
    BY <1>1 DEF IInv, PhaseMatchesProviders
  <1>3. QED
    BY <1>1, <1>2 DEF canStop, IInv, StopReachesAll, activeProviders

\* The objects that exist, those that are starting, and those that are alive
\* do not grow.
Shrinks(c) ==
  /\ objects(procs'[c]) <= objects(procs[c])
  /\ procs'[c]["starting"] <= procs[c]["starting"]
  /\ alive(procs'[c]) => alive(procs[c])

\* The shape of every step: how Core's state may change, and when processes
\* may be started.
StepShape ==
  /\ coreState' = "NotStarted" => coreState = "NotStarted"
  /\ coreState' = "Started" => coreState # "Finishing"
  /\ coreState' = "Finishing" => coreState \in {"Started", "Finishing"}
  /\ coreState' # "Started" => \A c \in Commands : Shrinks(c)

LEMMA MoveShrinks ==
  ASSUME NEW r \in [Phases -> Nat], NEW from \in {"starting", "running", "doomed"},
         NEW to \in Phases \ {"starting"}, r[from] > 0
  PROVE  /\ objects(move(r, from, to)) = objects(r) /\ alive(r)
         /\ move(r, from, to)["starting"] <= r["starting"]
  BY DEF move, objects, alive, Phases

\* Only a provider that is Started starts a process when one stops.
LEMMA ProcessStopsShrinks ==
  ASSUME TypeOK, NEW c \in Commands, NEW r \in [Phases -> Nat], NEW n \in {1, 2},
         NEW report, objects(r) = objects(procs[c]), alive(procs[c]),
         r["starting"] <= procs[c]["starting"],
         pstate[Owner[c]] # "Started",
         ProcessStops(c, r, n, report), NEW d \in Commands
  PROVE  Shrinks(d)
  <1>1. restarts(c, n) = 0
    BY DEF restarts
  <1>2. PICK f \in 0..MaxSyncFailures :
          canFail(c, 0, f) /\ procs' = [procs EXCEPT ![c] = startProcess(c, r, 0, f)]
    BY <1>1 DEF ProcessStops
  <1>3. startProcess(c, r, 0, f) = r
    BY <1>2, BoundsAssumption, StartProcess
  <1>4. procs \in [Commands -> [Phases -> Nat]]
    BY DEF TypeOK
  <1>5. procs'[d] = IF d = c THEN r ELSE procs[d]
    BY <1>2, <1>3, <1>4
  <1>6. objects(procs'[d]) <= objects(procs[d])
    <2>1. objects(procs[d]) \in Nat
      BY <1>4 DEF objects, Phases
    <2>2. QED
      BY <1>5, <2>1
  <1>7. procs'[d]["starting"] <= procs[d]["starting"]
    <2>1. procs[d]["starting"] \in Nat
      BY <1>4 DEF Phases
    <2>2. QED
      BY <1>5, <2>1
  <1>8. QED
    BY <1>5, <1>6, <1>7 DEF Shrinks

LEMMA ProcessEventShrinks ==
  ASSUME TypeOK, NEW c \in Commands, ProcessEvent(c), pstate[Owner[c]] # "Started",
         NEW d \in Commands
  PROVE  Shrinks(d)
  <1>1. procs \in [Commands -> [Phases -> Nat]]
    BY DEF TypeOK
  <1>2. ASSUME NEW from \in {"starting", "running", "doomed"}, procs[c][from] > 0,
               NEW to \in Phases \ {"starting"}
        PROVE  /\ move(procs[c], from, to) \in [Phases -> Nat]
               /\ objects(move(procs[c], from, to)) = objects(procs[c])
               /\ move(procs[c], from, to)["starting"] <= procs[c]["starting"]
               /\ alive(procs[c])
    BY <1>1, <1>2, Move, MoveShrinks DEF Phases
  <1>3. CASE ProcessStarted(c)
    <2>1. /\ procs[c]["starting"] > 0
          /\ procs' = [procs EXCEPT ![c] = move(procs[c], "starting", "running")]
      BY <1>3 DEF ProcessStarted
    <2>2. objects(procs'[d]) = objects(procs[d]) /\ objects(procs[d]) \in Nat
      BY <1>1, <1>2, <2>1 DEF Phases, objects
    <2>3. alive(procs'[d]) => alive(procs[d])
      BY <1>1, <1>2, <2>1 DEF Phases
    <2>4. procs'[d]["starting"] <= procs[d]["starting"]
      BY <1>1, <1>2, <2>1 DEF Phases
    <2>5. QED
      BY <2>2, <2>3, <2>4 DEF Shrinks
  <1>4. CASE ProcessFailedToStart(c)
    BY <1>2, <1>4, ProcessStopsShrinks DEF ProcessFailedToStart, Phases
  <1>5. CASE ProcessFinished(c)
    BY <1>2, <1>5, ProcessStopsShrinks DEF ProcessFinished, Phases
  <1>6. CASE ProcessCrashed(c)
    BY <1>2, <1>6, ProcessStopsShrinks DEF ProcessCrashed, Phases
  <1>7. CASE ProcessReadError(c)
    BY <1>2, <1>7, ProcessStopsShrinks DEF ProcessReadError, Phases
  <1>8. QED
    BY <1>3, <1>4, <1>5, <1>6, <1>7 DEF ProcessEvent

LEMMA ProcessEventShape ==
  ASSUME IInv, NEW c \in Commands, ProcessEvent(c)
  PROVE  StepShape
  <1>1. UNCHANGED coreState
    BY DEF ProcessEvent, ProcessStarted, ProcessFailedToStart, ProcessFinished,
           ProcessCrashed, ProcessReadError, ProcessStops, coreVars
  <1>2. ASSUME coreState # "Started" PROVE \A d \in Commands : Shrinks(d)
    <2>1. pstate[Owner[c]] # "Started"
      BY <1>2, StartedProviderStartedCore, CommandsAssumption
    <2>2. QED
      BY <2>1, ProcessEventShrinks DEF IInv
  <1>3. QED
    BY <1>1, <1>2 DEF StepShape

LEMMA DestroyedShape ==
  ASSUME IInv, NEW c \in Commands, NEW ps, NEW cs, Destroyed(c, ps, cs)
  PROVE  /\ coreState' \in {coreState, "Finished"}
         /\ coreState' # "Started" => procs' = ps
         /\ finishes(Owner[c], ps) \/ coreState' = coreState
  BY DEF Destroyed, coreVars, coreAfter, reconnects

LEMMA DeletionShape ==
  ASSUME IInv, NEW c \in Commands, Deletion(c)
  PROVE  StepShape
  <1>1. procs \in [Commands -> [Phases -> Nat]] /\ coreState \in CoreStates
    BY DEF IInv, TypeOK, CoreTypeOK
  <1>2. \A d \in Commands : objects(procs[d]) \in Nat
    BY <1>1 DEF objects, Phases
  <1>3. CASE DeleteDead(c)
    <2> DEFINE ps == [procs EXCEPT ![c]["dead"] = @ - 1]
    <2>1. Destroyed(c, ps, cmdState) /\ procs[c]["dead"] > 0
      BY <1>3 DEF DeleteDead
    <2>2. \A d \in Commands : objects(ps[d]) <= objects(procs[d])
      BY <1>1, <2>1 DEF objects, Phases
    <2>3. \A d \in Commands : /\ alive(ps[d]) => alive(procs[d])
                              /\ ps[d]["starting"] <= procs[d]["starting"]
      BY <1>1 DEF alive, Phases
    <2> HIDE DEF ps
    <2>4. QED
      BY <1>1, <2>1, <2>2, <2>3, DestroyedShape DEF StepShape, Shrinks, CoreStates
  <1>4. CASE DeleteDoomed(c)
    <2> DEFINE n == restarts(c, 2)
               left == [procs[c] EXCEPT !["doomed"] = @ - 1]
    <2>1. PICK f \in 0..MaxSyncFailures :
            /\ canFail(c, n, f)
            /\ Destroyed(c, [procs EXCEPT ![c] = startProcess(c, left, n, f)],
                         [cmdState EXCEPT ![c] = signalled(c, n, f, "Finished")])
      BY <1>4 DEF DeleteDoomed
    <2> DEFINE ps == [procs EXCEPT ![c] = startProcess(c, left, n, f)]
    <2>2. left \in [Phases -> Nat] /\ procs[c]["doomed"] > 0
      BY <1>1, <1>4 DEF DeleteDoomed, Phases
    <2>3. ASSUME n # 0 PROVE coreState = "Started" /\ ~finishes(Owner[c], ps)
      <3>1. c \in Restart /\ pstate[Owner[c]] = "Started"
        BY <2>3 DEF restarts
      <3>2. restarting(Owner[c])
        BY <3>1 DEF restarting
      <3>3. QED
        BY <3>1, <3>2, StartedProviderStartedCore, CommandsAssumption DEF finishes
    <2>4. ASSUME n = 0
          PROVE  \A d \in Commands : /\ objects(ps[d]) <= objects(procs[d])
                                     /\ ps[d]["starting"] <= procs[d]["starting"]
                                     /\ alive(ps[d]) => alive(procs[d])
      <3>1. startProcess(c, left, n, f) = left
        BY <2>1, <2>2, <2>4, BoundsAssumption, StartProcess
      <3>2. \A d \in Commands : ps[d] = IF d = c THEN left ELSE procs[d]
        BY <1>1, <3>1
      <3>3. /\ objects(left) <= objects(procs[c]) /\ alive(procs[c])
            /\ left["starting"] <= procs[c]["starting"]
        BY <1>1, <2>2 DEF objects, alive, Phases
      <3>4. \A d \in Commands : procs[d]["starting"] \in Nat
        BY <1>1 DEF Phases
      <3> HIDE DEF ps, left
      <3>5. QED
        BY <1>2, <3>2, <3>3, <3>4
    <2>5. Destroyed(c, ps, [cmdState EXCEPT ![c] = signalled(c, n, f, "Finished")])
      BY <2>1
    <2> HIDE DEF ps, n, left
    <2>6. QED
      BY <1>1, <2>3, <2>4, <2>5, DestroyedShape DEF StepShape, Shrinks, CoreStates
  <1>5. QED
    BY <1>3, <1>4 DEF Deletion

LEMMA StopShape ==
  ASSUME IInv, Stop
  PROVE  StepShape
  <1>1. procs \in [Commands -> [Phases -> Nat]]
    BY DEF IInv, TypeOK
  <1>2. \A c \in Commands : Shrinks(c)
    BY <1>1 DEF Stop, Shrinks, objects, alive, Phases
  <1>3. coreState' \in {"Finishing", "Finished"} /\ coreState \in {"Started", "Finishing"}
    BY DEF Stop, coreAfter, canStop
  <1>4. QED
    BY <1>2, <1>3 DEF StepShape

LEMMA StepHasShape ==
  ASSUME IInv, [Next]_vars
  PROVE  StepShape
  <1>1. \A c \in Commands : objects(procs[c]) \in Nat /\ procs[c]["starting"] \in Nat
    BY DEF IInv, TypeOK, objects, Phases
  <1>2. ASSUME UNCHANGED procs PROVE \A c \in Commands : Shrinks(c)
    BY <1>1, <1>2 DEF Shrinks
  <1>3. CASE UNCHANGED vars
    BY <1>2, <1>3 DEF vars, coreVars, localVars, StepShape
  <1>4. CASE (PrepareSucceeds \/ PrepareThrows \/ StartWithoutProviders) /\ UNCHANGED localVars
    BY <1>2, <1>4
       DEF PrepareSucceeds, PrepareThrows, StartWithoutProviders, canStart, localVars, StepShape
  <1>5. CASE Start
    BY <1>5 DEF Start, canStart, StepShape
  <1>6. CASE Stop
    BY <1>6, StopShape
  <1>7. ASSUME NEW c \in Commands, ProcessEvent(c) PROVE StepShape
    BY <1>7, ProcessEventShape
  <1>8. ASSUME NEW c \in Commands, Deletion(c) PROVE StepShape
    BY <1>8, DeletionShape
  <1>9. QED
    BY <1>3, <1>4, <1>5, <1>6, <1>7, <1>8 DEF Next, Application

-----------------------------------------------------------------------------

\* No handler starts a process once stop() was called.
THEOREM StartsNothingAfterStop == Spec => NothingStartsAfterStop
  <1>1. IInv /\ IInv' /\ [Next]_vars
          => [\A c \in Commands : begins(c) => coreState' = "Started"]_vars
    <2> SUFFICES ASSUME IInv, IInv', [Next]_vars, NEW c \in Commands,
                        begins(c), coreState' # "Started"
                 PROVE  FALSE
      OBVIOUS
    <2>1. Shrinks(c)
      BY StepHasShape DEF StepShape
    <2>2. /\ objects(procs[c]) \in Nat /\ objects(procs'[c]) \in Nat
          /\ procs[c]["starting"] \in Nat /\ procs'[c]["starting"] \in Nat
      BY DEF IInv, TypeOK, objects, Phases
    <2>3. QED
      BY <2>1, <2>2 DEF Shrinks, begins
  <1>2. QED
    BY <1>1, Invariance, PTL DEF Spec, NothingStartsAfterStop

\* When Core is not Started or Finishing nothing is at work.
LEMMA QuietPhases ==
  ASSUME IInv, coreState \notin {"Started", "Finishing"}
  PROVE  \A c \in Commands : ~alive(procs[c])
  BY CommandsAssumption
     DEF IInv, PhaseMatchesProviders, NoOrphanProcess, LocalStates, canStop,
         activeProviders, isActiveProvider

\* Core with CLocal implements the safety part of the session promise.
THEOREM Refinement == Spec => Promise!Spec
  <1> DEFINE W == {c \in Commands : alive(procs[c])}
  <1>1. Init => Promise!Init
    <2> SUFFICES ASSUME Init PROVE Promise!Init
      OBVIOUS
    <2>1. IInv /\ coreState = "NotStarted"
      BY InitIInv DEF Init, CoreInit
    <2>2. QED
      BY <2>1, QuietPhases DEF Promise!Init
  <1>2. IInv /\ IInv' /\ [Next]_vars => [Promise!Next]_(Promise!vars)
    <2> SUFFICES ASSUME IInv, IInv', [Next]_vars
                 PROVE  Promise!Next \/ UNCHANGED Promise!vars
      OBVIOUS
    <2> USE DEF Promise!Next, Promise!vars
    <2>1. StepShape
      BY StepHasShape
    <2>2. coreState \in CoreStates /\ coreState' \in CoreStates
      BY DEF IInv, TypeOK, CoreTypeOK
    <2>3. W \in SUBSET Commands /\ W' \in SUBSET Commands
      OBVIOUS
    <2>4. coreState \notin {"Started", "Finishing"} => W = {}
      BY QuietPhases
    <2>5. coreState' \notin {"Started", "Finishing"} => W' = {}
      BY CommandsAssumption
         DEF IInv, PhaseMatchesProviders, NoOrphanProcess, LocalStates, canStop,
             activeProviders, isActiveProvider
    <2>6. coreState' = "Finishing" => W' \subseteq W
      BY <2>1 DEF StepShape, Shrinks
    <2>7. CASE coreState' = "NotStarted"
      BY <2>1, <2>4, <2>5, <2>7 DEF StepShape
    <2>8. CASE coreState' = "Started"
      BY <2>1, <2>2, <2>3, <2>8 DEF StepShape, CoreStates, Promise!Begin, Promise!Work
    <2>9. CASE coreState' = "Finishing"
      BY <2>1, <2>6, <2>9 DEF StepShape, Promise!RequestStop, Promise!Drain
    <2>10. CASE coreState' = "Finished"
      BY <2>2, <2>4, <2>5, <2>10 DEF CoreStates, Promise!Complete, Promise!CarryOutStop
    <2>11. QED
      BY <2>2, <2>7, <2>8, <2>9, <2>10 DEF CoreStates
  <1>3. QED
    BY <1>1, <1>2, Invariance, PTL DEF Spec, Promise!Spec

-----------------------------------------------------------------------------
(* What each source promises *)

\* What may happen to the source p in a step of the event loop.
ProviderShape(p) ==
  /\ pstate'[p] = "NotStarted" => pstate[p] = "NotStarted"
  /\ pstate[p] = "Finishing" => pstate'[p] # "Started"
  /\ pstate'[p] = "Finishing" =>
       /\ pstate[p] \in {"Started", "Finishing"}
       /\ \A c \in Commands : Owner[c] = p /\ alive(procs'[c]) => alive(procs[c])

\* A step of that shape is one the promise allows.
LEMMA ShapeIsPromised ==
  ASSUME LocalInv, LocalInv', NEW p \in Providers, ProviderShape(p)
  PROVE  [ProviderPromise(p)!Next]_(ProviderPromise(p)!vars)
  <1>1. PICK f, g : f = pstate[p] /\ g = pstate'[p]
    OBVIOUS
  <1>2. PICK X, Y : /\ X = {c \in Commands : Owner[c] = p /\ alive(procs[c])}
                    /\ Y = {c \in Commands : Owner[c] = p /\ alive(procs'[c])}
    OBVIOUS
  <1>3. {c \in Commands : Owner[c] = p /\ alive(procs[c])}' = Y
    BY <1>2
  <1>4. /\ f \in {"NotStarted", "Started", "Finishing", "Finished"}
        /\ f \notin {"Started", "Finishing"} => X = {}
    BY <1>1, <1>2 DEF LocalInv, LocalStates, NoOrphanProcess
  <1>5. /\ g \in {"NotStarted", "Started", "Finishing", "Finished"}
        /\ g \notin {"Started", "Finishing"} => Y = {}
    BY <1>1, <1>2 DEF LocalInv, LocalStates, NoOrphanProcess
  <1>6. /\ g = "NotStarted" => f = "NotStarted"
        /\ f = "Finishing" => g # "Started"
        /\ g = "Finishing" => f \in {"Started", "Finishing"} /\ Y \subseteq X
    BY <1>1, <1>2 DEF ProviderShape
  <1>7. Y \in SUBSET {c \in Commands : Owner[c] = p}
    BY <1>2
  <1>8. \/ f \in {"NotStarted", "Finished"} /\ g = "Started"
        \/ f = "Started" /\ g = "Started"
        \/ f = "Started" /\ g = "Finishing" /\ Y \subseteq X
        \/ f = "Finishing" /\ g = "Finishing" /\ Y \subseteq X
        \/ f \in {"NotStarted", "Started"} /\ g = "Finished" /\ Y = {}
        \/ f = "Finishing" /\ g = "Finished" /\ Y = {}
        \/ f = g /\ X = Y
    BY <1>4, <1>5, <1>6
  <1>9. QED
    BY <1>1, <1>2, <1>3, <1>7, <1>8
    DEF ProviderPromise!Next, ProviderPromise!vars, ProviderPromise!Begin,
        ProviderPromise!Work, ProviderPromise!RequestStop, ProviderPromise!Drain,
        ProviderPromise!Complete, ProviderPromise!CarryOutStop

\* A step that leaves p and its processes alone.
LEMMA StaysInShape ==
  ASSUME NEW p \in Providers, pstate'[p] = pstate[p],
         \A c \in Commands : Owner[c] = p => procs'[c] = procs[c]
  PROVE  ProviderShape(p)
  BY DEF ProviderShape

\* CLocal::start, of providers that are not active.
LEMMA BeginningShape ==
  ASSUME NEW P \in SUBSET Providers, \A q \in P : ~isActiveProvider(pstate[q]),
         \A q \in Providers : pstate'[q] = IF q \in P THEN "Started" ELSE pstate[q],
         NEW failed, startCommands(P, procs, cmdState, failed), NEW p \in Providers
  PROVE  ProviderShape(p)
  <1>1. CASE p \in P
    BY <1>1 DEF ProviderShape, isActiveProvider
  <1>2. CASE p \notin P
    BY <1>2, StaysInShape DEF startCommands
  <1>3. QED
    BY <1>1, <1>2

\* A process that starts or stops is one of its own command, and only a source
\* that is Started starts another in its place.
LEMMA EventShape ==
  ASSUME TypeOK, NEW c \in Commands, ProcessEvent(c), NEW p \in Providers
  PROVE  ProviderShape(p)
  <1>1. pstate' = pstate
    BY DEF ProcessEvent, ProcessStarted, ProcessFailedToStart, ProcessFinished,
           ProcessCrashed, ProcessReadError, ProcessStops, coreVars
  <1>2. CASE Owner[c] = p /\ pstate[p] # "Started"
    BY <1>1, <1>2, ProcessEventShrinks DEF ProviderShape, Shrinks
  <1>3. CASE Owner[c] = p /\ pstate[p] = "Started"
    BY <1>1, <1>3 DEF ProviderShape
  <1>4. CASE Owner[c] # p
    <2>1. \E r : procs' = [procs EXCEPT ![c] = r]
      BY DEF ProcessEvent, ProcessStarted, ProcessFailedToStart, ProcessFinished,
             ProcessCrashed, ProcessReadError, ProcessStops
    <2>2. procs \in [Commands -> [Phases -> Nat]]
      BY DEF TypeOK
    <2>3. \A d \in Commands : Owner[d] = p => procs'[d] = procs[d]
      BY <1>4, <2>1, <2>2
    <2>4. QED
      BY <1>1, <2>3, StaysInShape
  <1>5. QED
    BY <1>2, <1>3, <1>4

\* terminateAll, on every provider.
LEMMA StoppingShape ==
  ASSUME TypeOK, LocalStates, Stop, NEW p \in Providers
  PROVE  ProviderShape(p)
  <1>1. pstate'[p] = terminated(p)
    BY DEF Stop
  <1>2. procs \in [Commands -> [Phases -> Nat]]
    BY DEF TypeOK
  <1>3. \A c \in Commands : alive(procs'[c]) => alive(procs[c])
    BY <1>2 DEF Stop, alive, Phases
  <1>4. QED
    BY <1>1, <1>3 DEF terminated, ProviderShape, LocalStates

\* The end of an object of the command c, which left ps: of a source that is
\* not Started nothing is begun.
LEMMA DestroyingShape ==
  ASSUME IInv, NEW c \in Commands, NEW ps, NEW cs, Destroyed(c, ps, cs),
         \A d \in Commands \ {c} : ps[d] = procs[d],
         pstate[Owner[c]] # "Started" => (alive(ps[c]) => alive(procs[c])),
         NEW p \in Providers
  PROVE  ProviderShape(p)
  <1>1. Owner[c] \in Providers /\ pstate \in [Providers -> ProviderStates]
    BY CommandsAssumption DEF IInv, TypeOK, CoreTypeOK
  <1>2. CASE pstate' = pstate /\ procs' = ps
    <2>1. CASE Owner[c] = p
      BY <1>2, <2>1 DEF ProviderShape
    <2>2. CASE Owner[c] # p
      BY <1>2, <2>2, StaysInShape
    <2>3. QED
      BY <2>1, <2>2
  <1>3. CASE pstate' = [pstate EXCEPT ![Owner[c]] = "Finished"] /\ procs' = ps
    <2>1. CASE Owner[c] = p
      BY <1>1, <1>3, <2>1 DEF ProviderShape
    <2>2. CASE Owner[c] # p
      BY <1>1, <1>3, <2>2, StaysInShape
    <2>3. QED
      BY <2>1, <2>2
  <1>4. CASE /\ finishes(Owner[c], ps) /\ reconnects(coreState, Owner[c])
             /\ pstate' = [pstate EXCEPT ![Owner[c]] = "Started"]
             /\ \E failed \in Failures : startCommands({Owner[c]}, ps, cs, failed)
    <2>1. CASE Owner[c] = p
      <3>1. pstate[p] # "Finishing"
        BY <1>4, <2>1 DEF reconnects, IInv, StopReachesAll
      <3>2. QED
        BY <1>1, <1>4, <2>1, <3>1 DEF ProviderShape
    <2>2. CASE Owner[c] # p
      <3>1. \A d \in Commands : Owner[d] = p => procs'[d] = procs[d]
        BY <1>4, <2>2 DEF startCommands
      <3>2. QED
        BY <1>1, <1>4, <2>2, <3>1, StaysInShape
    <2>3. QED
      BY <2>1, <2>2
  <1>5. QED
    BY <1>2, <1>3, <1>4 DEF Destroyed, coreVars

LEMMA DeletingShape ==
  ASSUME IInv, NEW c \in Commands, Deletion(c), NEW p \in Providers
  PROVE  ProviderShape(p)
  <1>1. procs \in [Commands -> [Phases -> Nat]]
    BY DEF IInv, TypeOK
  <1>2. CASE DeleteDead(c)
    <2>1. PICK ps : ps = [procs EXCEPT ![c]["dead"] = @ - 1]
      OBVIOUS
    <2>2. Destroyed(c, ps, cmdState)
      BY <1>2, <2>1 DEF DeleteDead
    <2>3. \A d \in Commands : alive(ps[d]) => alive(procs[d])
      BY <1>1, <2>1 DEF alive, Phases
    <2>4. \A d \in Commands \ {c} : ps[d] = procs[d]
      BY <1>1, <2>1
    <2>5. QED
      BY <2>2, <2>3, <2>4, DestroyingShape
  <1>3. CASE DeleteDoomed(c)
    <2>1. PICK n, left : n = restarts(c, 2) /\ left = [procs[c] EXCEPT !["doomed"] = @ - 1]
      OBVIOUS
    <2>2. PICK f \in 0..MaxSyncFailures :
            /\ canFail(c, n, f)
            /\ Destroyed(c, [procs EXCEPT ![c] = startProcess(c, left, n, f)],
                         [cmdState EXCEPT ![c] = signalled(c, n, f, "Finished")])
      BY <1>3, <2>1 DEF DeleteDoomed
    <2>3. PICK ps : ps = [procs EXCEPT ![c] = startProcess(c, left, n, f)]
      OBVIOUS
    <2>4. left \in [Phases -> Nat] /\ procs[c]["doomed"] > 0
      BY <1>1, <1>3, <2>1 DEF DeleteDoomed, Phases
    <2>5. \A d \in Commands \ {c} : ps[d] = procs[d]
      BY <1>1, <2>3
    <2>6. ASSUME pstate[Owner[c]] # "Started"
          PROVE  alive(procs[c])
      BY <1>1, <2>4 DEF alive, Phases
    <2>7. Destroyed(c, ps, [cmdState EXCEPT ![c] = signalled(c, n, f, "Finished")])
      BY <2>2, <2>3
    <2>8. QED
      BY <2>5, <2>6, <2>7, DestroyingShape
  <1>4. QED
    BY <1>2, <1>3 DEF Deletion

\* Every local source keeps, for itself, the promise of a session: also one that
\* reconnects and one whose commands restart begins nothing while it is stopped.
THEOREM ProvidersKeepPromise == Spec => KeepsProviderPromise
  <1>1. ASSUME Init
        PROVE  \A p \in Providers : ProviderPromise(p)!Init
    <2> SUFFICES ASSUME NEW p \in Providers
                 PROVE  ProviderPromise(p)!Init
      OBVIOUS
    <2>1. pstate[p] = "NotStarted"
      BY <1>1 DEF Init, CoreInit
    <2>2. \A c \in Commands : Owner[c] = p => ~alive(procs[c])
      BY <1>1, <2>1, InitIInv DEF IInv, NoOrphanProcess
    <2>3. QED
      BY <2>1, <2>2 DEF ProviderPromise!Init
  <1>2. ASSUME IInv, IInv', [Next]_vars
        PROVE  [\A p \in Providers : [ProviderPromise(p)!Next]_(ProviderPromise(p)!vars)]_vars
    <2> SUFFICES ASSUME NEW p \in Providers
                 PROVE  [ProviderPromise(p)!Next]_(ProviderPromise(p)!vars)
      OBVIOUS
    <2>1. LocalInv /\ LocalInv'
      BY <1>2 DEF IInv, LocalInv
    <2>2. CASE UNCHANGED <<pstate, procs>>
      BY <2>2, StaysInShape, ShapeIsPromised, <2>1
    <2>3. CASE Start
      <3>1. PICK failed \in Failures :
              startCommands({q \in prepared : ~isActiveProvider(pstate[q])}, procs, cmdState, failed)
        BY <2>3 DEF Start
      <3>2. prepared \subseteq Providers
        BY <2>1 DEF LocalInv, TypeOK, CoreTypeOK
      <3>3. QED
        BY <2>1, <2>3, <3>1, <3>2, BeginningShape, ShapeIsPromised DEF Start
    <2>4. CASE Stop
      BY <2>1, <2>4, StoppingShape, ShapeIsPromised DEF LocalInv
    <2>5. ASSUME NEW c \in Commands, ProcessEvent(c)
          PROVE  [ProviderPromise(p)!Next]_(ProviderPromise(p)!vars)
      BY <2>1, <2>5, EventShape, ShapeIsPromised DEF LocalInv
    <2>6. ASSUME NEW c \in Commands, Deletion(c)
          PROVE  [ProviderPromise(p)!Next]_(ProviderPromise(p)!vars)
      BY <1>2, <2>1, <2>6, DeletingShape, ShapeIsPromised
    <2>7. QED
      BY <1>2, <2>2, <2>3, <2>4, <2>5, <2>6
      DEF Next, Application, PrepareSucceeds, PrepareThrows, StartWithoutProviders,
          vars, coreVars, localVars
  <1>3. QED
    BY <1>1, <1>2, Invariance, PTL DEF Spec, KeepsProviderPromise
=============================================================================
