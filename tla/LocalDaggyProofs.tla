-------------------------- MODULE LocalDaggyProofs --------------------------
(***************************************************************************)
(* The safety of LocalDaggy, for any number of providers and commands, any *)
(* set of faults and any bounds.                                           *)
(***************************************************************************)
EXTENDS LocalDaggy, TLAPS

\* CLocal passes through four of the provider states, and only a provider that
\* prepare made leaves the first.
LocalStates ==
  \A p \in Providers :
    /\ pstate[p] \in {"NotStarted", "Started", "Finishing", "Finished"}
    /\ p \notin prepared => pstate[p] = "NotStarted"

\* What the handlers of processes preserve, whatever Core does with it: CSsh is
\* a CLocal under a Core that starts it otherwise, and has this part too.
LocalInv ==
  /\ TypeOK
  /\ LocalStates
  /\ NoOrphanProcess
  /\ EndIsNoticed
  /\ RestartKeepsAlive

\* The inductive invariant: the properties lean on each other.
IInv ==
  /\ TypeOK
  /\ LocalStates
  /\ PhaseMatchesProviders
  /\ NoOrphanProcess
  /\ StopReachesAll
  /\ EndIsNoticed
  /\ RestartKeepsAlive
  /\ ReconnectKeepsStarted

-----------------------------------------------------------------------------
(* What the helpers return *)

\* A call of startProcess keeps the counts natural numbers, adds objects only,
\* and leaves an object that is alive unless every start failed.
LEMMA StartProcess ==
  ASSUME NEW c \in Commands, NEW r \in [Phases -> Nat],
         NEW n \in Nat, NEW f \in Nat, canFail(c, n, f)
  PROVE  LET s == startProcess(c, r, n, f) IN
         /\ s \in [Phases -> Nat]
         /\ n = 0 => s = r
         /\ s["running"] = r["running"] /\ s["doomed"] = r["doomed"]
         /\ s["starting"] >= r["starting"]
         /\ s["dead"] >= r["dead"]
         /\ n > 0 => s["starting"] > 0 \/ s["dead"] > 0
         /\ n > 0 /\ c \in Restart => s["starting"] > 0
  BY DEF startProcess, canFail, Phases

\* Moving an object from one phase to another changes these two counts only.
LEMMA Move ==
  ASSUME NEW r \in [Phases -> Nat], NEW from \in Phases, NEW to \in Phases, r[from] > 0
  PROVE  /\ move(r, from, to) \in [Phases -> Nat]
         /\ move(r, from, to)[to] > 0
         /\ \A k \in Phases \ {from, to} : move(r, from, to)[k] = r[k]
  BY DEF move, Phases

\* startCommands gives every command of its providers an object, and every
\* restart command one that is alive.
LEMMA StartCommands ==
  ASSUME NEW P, NEW ps \in [Commands -> [Phases -> Nat]],
         NEW cs \in [Commands -> CommandStates], NEW failed \in Failures,
         startCommands(P, ps, cs, failed)
  PROVE  /\ procs' \in [Commands -> [Phases -> Nat]]
         /\ cmdState' \in [Commands -> CommandStates]
         /\ \A c \in Commands : Owner[c] \notin P => procs'[c] = ps[c]
         /\ \A c \in Commands : Owner[c] \in P => alive(procs'[c]) \/ procs'[c]["dead"] > 0
         /\ \A c \in Restart : Owner[c] \in P => alive(procs'[c])
  <1>1. ASSUME NEW c \in Commands, Owner[c] \in P
        PROVE  LET s == startProcess(c, ps[c], 1, failed[c]) IN
               /\ s \in [Phases -> Nat]
               /\ s["starting"] > 0 \/ s["dead"] > 0
               /\ c \in Restart => s["starting"] > 0
    <2>1. canFail(c, 1, failed[c])
      BY <1>1 DEF startCommands
    <2>2. failed[c] \in Nat /\ ps[c] \in [Phases -> Nat]
      BY BoundsAssumption DEF Failures
    <2>3. QED
      BY <2>1, <2>2, StartProcess
  <1>2. procs' = [c \in Commands |->
          IF Owner[c] \in P THEN startProcess(c, ps[c], 1, failed[c]) ELSE ps[c]]
    BY DEF startCommands
  <1>3. cmdState' \in [Commands -> CommandStates]
    <2>1. \A c \in Commands : signalled(c, 1, failed[c], cs[c]) \in CommandStates
      BY DEF signalled, CommandStates
    <2>2. QED
      BY <2>1 DEF startCommands
  <1>4. procs' \in [Commands -> [Phases -> Nat]]
    BY <1>1, <1>2
  <1>5. \A c \in Commands : Owner[c] \in P =>
          /\ alive(procs'[c]) \/ procs'[c]["dead"] > 0
          /\ c \in Restart => alive(procs'[c])
    BY <1>1, <1>2 DEF alive
  <1>6. QED
    BY <1>2, <1>3, <1>4, <1>5, CommandsAssumption

-----------------------------------------------------------------------------
(* The invariant holds initially and no action breaks it *)

\* IInv adds three conjuncts, of Core and the providers alone.
LEMMA LocalPart == IInv => LocalInv
  BY DEF IInv, LocalInv

LEMMA CoreUntouched ==
  ASSUME IInv, LocalInv', UNCHANGED coreVars
  PROVE  IInv'
  BY DEF coreVars, IInv, LocalInv, PhaseMatchesProviders, StopReachesAll,
         ReconnectKeepsStarted, canStop, activeProviders

LEMMA InitIInv == Init => IInv
  <1> SUFFICES ASSUME Init PROVE IInv
    OBVIOUS
  <1> USE DEF Init, CoreInit
  <1>1. TypeOK
    BY DEF TypeOK, CoreTypeOK, CoreStates, ProviderStates, CommandStates
  <1>2. \A c \in Commands : ~alive(procs[c])
    BY DEF alive, Phases
  <1>3. LocalStates /\ PhaseMatchesProviders /\ NoOrphanProcess
    BY <1>2 DEF LocalStates, PhaseMatchesProviders, NoOrphanProcess, canStop,
                activeProviders
  <1>4. StopReachesAll /\ EndIsNoticed /\ RestartKeepsAlive /\ ReconnectKeepsStarted
    BY CommandsAssumption, ProvidersAssumption
       DEF StopReachesAll, EndIsNoticed, RestartKeepsAlive, ReconnectKeepsStarted
  <1>5. QED
    BY <1>1, <1>3, <1>4 DEF IInv

\* A process handler that leaves Core and the providers as they are.
LEMMA ProcessStep ==
  ASSUME LocalInv, NEW c \in Commands,
         alive(procs[c]),
         procs' \in [Commands -> [Phases -> Nat]],
         \A d \in Commands \ {c} : procs'[d] = procs[d],
         alive(procs'[c]) \/ procs'[c]["dead"] > 0,
         c \in Restart /\ pstate[Owner[c]] = "Started" => alive(procs'[c]),
         cmdState' \in [Commands -> CommandStates],
         UNCHANGED coreVars
  PROVE  LocalInv'
  <1> USE DEF coreVars
  <1>1. TypeOK'
    BY DEF LocalInv, TypeOK, CoreTypeOK
  <1>2. LocalStates'
    BY DEF LocalInv, LocalStates
  <1>3. NoOrphanProcess'
    BY DEF LocalInv, NoOrphanProcess
  <1>4. EndIsNoticed'
    <2> SUFFICES ASSUME NEW p \in Providers,
                        ~active(p, procs'),
                        pstate[p] = "Finishing" \/ (pstate[p] = "Started" /\ ~restarting(p))
                 PROVE  \E d \in Commands : Owner[d] = p /\ procs'[d]["dead"] > 0
      BY DEF EndIsNoticed
    <2>1. CASE Owner[c] = p
      BY <2>1 DEF active
    <2>2. CASE Owner[c] # p
      <3>1. \A d \in Commands : Owner[d] = p => procs'[d] = procs[d]
        BY <2>2
      <3>2. ~active(p, procs)
        BY <3>1 DEF active
      <3>3. QED
        BY <3>1, <3>2 DEF LocalInv, EndIsNoticed
    <2>3. QED
      BY <2>1, <2>2
  <1>5. RestartKeepsAlive'
    BY CommandsAssumption DEF LocalInv, RestartKeepsAlive
  <1>6. QED
    BY <1>1, <1>2, <1>3, <1>4, <1>5 DEF LocalInv

LEMMA ProcessStopsStep ==
  ASSUME LocalInv, NEW c \in Commands,
         NEW r \in [Phases -> Nat],
         NEW n \in {1, 2},
         NEW report \in CommandStates,
         alive(procs[c]),
         alive(r) \/ r["dead"] > 0,
         ProcessStops(c, r, n, report)
  PROVE  LocalInv'
  <1>1. PICK f \in 0..MaxSyncFailures :
          /\ canFail(c, restarts(c, n), f)
          /\ procs' = [procs EXCEPT ![c] = startProcess(c, r, restarts(c, n), f)]
          /\ cmdState' = [cmdState EXCEPT ![c] = signalled(c, restarts(c, n), f, report)]
          /\ UNCHANGED coreVars
    BY DEF ProcessStops
  <1> DEFINE m == restarts(c, n)
             s == startProcess(c, r, m, f)
  <1>2. m \in Nat /\ f \in Nat
    BY BoundsAssumption DEF restarts
  <1>3. c \in Restart /\ pstate[Owner[c]] = "Started" => m > 0
    BY DEF restarts
  <1>4. /\ s \in [Phases -> Nat]
        /\ s["running"] = r["running"] /\ s["doomed"] = r["doomed"]
        /\ s["starting"] >= r["starting"]
        /\ s["dead"] >= r["dead"]
        /\ m > 0 /\ c \in Restart => s["starting"] > 0
    BY <1>1, <1>2, StartProcess
  <1> HIDE DEF m, s
  <1>5. alive(s) \/ s["dead"] > 0
    BY <1>4 DEF alive, Phases
  <1>6. c \in Restart /\ pstate[Owner[c]] = "Started" => alive(s)
    BY <1>3, <1>4 DEF alive
  <1>7. /\ procs' = [procs EXCEPT ![c] = s]
        /\ UNCHANGED coreVars
    BY <1>1 DEF m, s
  <1>8. /\ procs' \in [Commands -> [Phases -> Nat]]
        /\ \A d \in Commands \ {c} : procs'[d] = procs[d]
        /\ procs'[c] = s
    BY <1>4, <1>7 DEF LocalInv, TypeOK
  <1>9. cmdState' \in [Commands -> CommandStates]
    <2>1. signalled(c, m, f, report) \in CommandStates
      BY <1>2 DEF signalled, CommandStates
    <2>2. cmdState' = [cmdState EXCEPT ![c] = signalled(c, m, f, report)]
      BY <1>1 DEF m
    <2>3. QED
      BY <2>1, <2>2 DEF LocalInv, TypeOK
  <1>10. QED
    BY <1>5, <1>6, <1>7, <1>8, <1>9, ProcessStep

LEMMA ProcessEventLocal ==
  ASSUME LocalInv, NEW c \in Commands, ProcessEvent(c)
  PROVE  LocalInv'
  <1>1. procs[c] \in [Phases -> Nat] /\ cmdState[c] \in CommandStates
    BY DEF LocalInv, TypeOK
  <1>2. CASE ProcessStarted(c)
    <2>1. /\ procs[c]["starting"] > 0
          /\ procs' = [procs EXCEPT ![c] = move(procs[c], "starting", "running")]
          /\ cmdState' = [cmdState EXCEPT ![c] = "Started"]
          /\ UNCHANGED coreVars
      BY <1>2 DEF ProcessStarted
    <2>2. /\ move(procs[c], "starting", "running") \in [Phases -> Nat]
          /\ move(procs[c], "starting", "running")["running"] > 0
      BY <1>1, <2>1, Move DEF Phases
    <2>3. alive(procs[c]) /\ alive(procs'[c])
      BY <2>1, <2>2 DEF alive, LocalInv, TypeOK
    <2>4. /\ procs' \in [Commands -> [Phases -> Nat]]
          /\ \A d \in Commands \ {c} : procs'[d] = procs[d]
          /\ cmdState' \in [Commands -> CommandStates]
      BY <2>1, <2>2 DEF LocalInv, TypeOK, CommandStates
    <2>5. QED
      BY <2>1, <2>3, <2>4, ProcessStep
  <1>3. ASSUME NEW from \in {"starting", "running", "doomed"}, procs[c][from] > 0,
               NEW to \in {"doomed", "dead"}
        PROVE  /\ move(procs[c], from, to) \in [Phases -> Nat]
               /\ alive(procs[c])
               /\ alive(move(procs[c], from, to)) \/ move(procs[c], from, to)["dead"] > 0
    <2>1. /\ move(procs[c], from, to) \in [Phases -> Nat]
          /\ move(procs[c], from, to)[to] > 0
      BY <1>1, <1>3, Move DEF Phases
    <2>2. QED
      BY <1>3, <2>1 DEF alive
  <1>4. CASE ProcessFailedToStart(c)
    BY <1>3, <1>4, ProcessStopsStep DEF ProcessFailedToStart, CommandStates
  <1>5. CASE ProcessFinished(c)
    BY <1>3, <1>5, ProcessStopsStep DEF ProcessFinished, CommandStates
  <1>6. CASE ProcessCrashed(c)
    BY <1>3, <1>6, ProcessStopsStep DEF ProcessCrashed, CommandStates
  <1>7. CASE ProcessReadError(c)
    BY <1>1, <1>3, <1>7, ProcessStopsStep DEF ProcessReadError
  <1>8. QED
    BY <1>2, <1>4, <1>5, <1>6, <1>7 DEF ProcessEvent

LEMMA ProcessEventStep ==
  ASSUME IInv, NEW c \in Commands, ProcessEvent(c)
  PROVE  IInv'
  <1>1. UNCHANGED coreVars
    BY DEF ProcessEvent, ProcessStarted, ProcessFailedToStart, ProcessFinished,
           ProcessCrashed, ProcessReadError, ProcessStops
  <1>2. LocalInv'
    BY LocalPart, ProcessEventLocal
  <1>3. QED
    BY <1>1, <1>2, CoreUntouched

\* What a destructor may do to the objects of c before it signals `destroyed`.
Leaves(c, ps) ==
  /\ ps \in [Commands -> [Phases -> Nat]]
  /\ \A d \in Commands \ {c} : ps[d] = procs[d]
  /\ alive(ps[c]) => alive(procs[c])
  /\ c \in Restart /\ pstate[Owner[c]] = "Started" => alive(ps[c])

LEMMA LeavesOthers ==
  ASSUME LocalInv, NEW c \in Commands, NEW ps, Leaves(c, ps)
  PROVE  /\ Owner[c] \in Providers
         /\ \A d \in Commands : alive(ps[d]) => pstate[Owner[d]] \in {"Started", "Finishing"}
         /\ \A d \in Restart : pstate[Owner[d]] = "Started" => alive(ps[d])
         /\ \A q \in Providers \ {Owner[c]} :
              (~active(q, ps) /\ (pstate[q] = "Finishing" \/ (pstate[q] = "Started" /\ ~restarting(q))))
                => \E d \in Commands : Owner[d] = q /\ ps[d]["dead"] > 0
  <1>1. /\ Owner[c] \in Providers
        /\ \A d \in Commands : alive(ps[d]) => pstate[Owner[d]] \in {"Started", "Finishing"}
        /\ \A d \in Restart : pstate[Owner[d]] = "Started" => alive(ps[d])
    BY CommandsAssumption DEF Leaves, LocalInv, TypeOK, NoOrphanProcess, RestartKeepsAlive
  <1>2. ASSUME NEW q \in Providers \ {Owner[c]}, ~active(q, ps),
               pstate[q] = "Finishing" \/ (pstate[q] = "Started" /\ ~restarting(q))
        PROVE  \E d \in Commands : Owner[d] = q /\ ps[d]["dead"] > 0
    <2>1. \A d \in Commands : Owner[d] = q => ps[d] = procs[d]
      BY DEF Leaves
    <2>2. ~active(q, procs)
      BY <1>2, <2>1 DEF active
    <2>3. QED
      BY <1>2, <2>1, <2>2 DEF LocalInv, EndIsNoticed
  <1>3. QED
    BY <1>1, <1>2

\* The signal finds a provider that is not at its end.
LEMMA DestroyedGoesOn ==
  ASSUME LocalInv, NEW c \in Commands, NEW ps, NEW cs \in [Commands -> CommandStates],
         Leaves(c, ps), ~finishes(Owner[c], ps),
         procs' = ps, cmdState' = cs, UNCHANGED coreVars
  PROVE  LocalInv'
  <1> USE DEF coreVars
  <1>1. TypeOK' /\ LocalStates'
    BY DEF LocalInv, TypeOK, CoreTypeOK, LocalStates, Leaves
  <1>2. NoOrphanProcess' /\ RestartKeepsAlive'
    BY LeavesOthers DEF NoOrphanProcess, RestartKeepsAlive
  <1>3. EndIsNoticed'
    <2>1. Owner[c] \in Providers /\ pstate[Owner[c]] \in ProviderStates
      BY LeavesOthers DEF LocalInv, TypeOK, CoreTypeOK
    <2>2. QED
      BY <2>1, LeavesOthers DEF EndIsNoticed, finishes
  <1>4. QED
    BY <1>1, <1>2, <1>3 DEF LocalInv

\* The signal finishes the provider.
LEMMA DestroyedFinishes ==
  ASSUME LocalInv, NEW c \in Commands, NEW ps, NEW cs \in [Commands -> CommandStates],
         Leaves(c, ps), finishes(Owner[c], ps),
         procs' = ps, cmdState' = cs,
         pstate' = [pstate EXCEPT ![Owner[c]] = "Finished"],
         coreState' = coreAfter(coreState, pstate'),
         UNCHANGED prepared
  PROVE  LocalInv'
  <1> DEFINE p == Owner[c]
  <1>1. /\ p \in prepared
        /\ pstate' \in [Providers -> ProviderStates]
        /\ pstate'[p] = "Finished"
        /\ \A q \in Providers \ {p} : pstate'[q] = pstate[q]
    BY LeavesOthers DEF finishes, LocalInv, TypeOK, CoreTypeOK, LocalStates, ProviderStates
  <1>2. TypeOK' /\ LocalStates'
    BY <1>1 DEF LocalInv, TypeOK, CoreTypeOK, CoreStates, coreAfter, LocalStates, Leaves
  <1>3. NoOrphanProcess'
    <2>1. \A d \in Commands : Owner[d] = p => ~alive(ps[d])
      BY DEF finishes, active
    <2>2. QED
      BY <1>1, <2>1, LeavesOthers, CommandsAssumption DEF NoOrphanProcess
  <1>4. EndIsNoticed'
    BY <1>1, LeavesOthers DEF EndIsNoticed
  <1>5. RestartKeepsAlive'
    BY <1>1, LeavesOthers, CommandsAssumption DEF RestartKeepsAlive
  <1>6. QED
    BY <1>2, <1>3, <1>4, <1>5 DEF LocalInv

\* startCommands of one provider that is not active, or was until now.
LEMMA StartCommandsLocal ==
  ASSUME LocalInv, NEW c \in Commands, NEW ps, NEW cs \in [Commands -> CommandStates],
         Leaves(c, ps), NEW failed \in Failures,
         startCommands({Owner[c]}, ps, cs, failed),
         pstate' = [pstate EXCEPT ![Owner[c]] = "Started"],
         Owner[c] \in prepared,
         UNCHANGED <<coreState, prepared>>
  PROVE  LocalInv'
  <1> DEFINE p == Owner[c]
  <1>1. /\ procs' \in [Commands -> [Phases -> Nat]]
        /\ cmdState' \in [Commands -> CommandStates]
        /\ \A d \in Commands : Owner[d] # p => procs'[d] = ps[d]
        /\ \A d \in Commands : Owner[d] = p => alive(procs'[d]) \/ procs'[d]["dead"] > 0
        /\ \A d \in Restart : Owner[d] = p => alive(procs'[d])
    <2> DEFINE P == {p}
    <2>1. \A d \in Commands : Owner[d] \in P <=> Owner[d] = p
      OBVIOUS
    <2>2. startCommands(P, ps, cs, failed) /\ ps \in [Commands -> [Phases -> Nat]]
      BY DEF Leaves
    <2> HIDE DEF P
    <2>3. /\ procs' \in [Commands -> [Phases -> Nat]]
          /\ cmdState' \in [Commands -> CommandStates]
          /\ \A d \in Commands : Owner[d] \notin P => procs'[d] = ps[d]
          /\ \A d \in Commands : Owner[d] \in P => alive(procs'[d]) \/ procs'[d]["dead"] > 0
          /\ \A d \in Restart : Owner[d] \in P => alive(procs'[d])
      BY <2>2, StartCommands
    <2>4. QED
      BY <2>1, <2>3, CommandsAssumption
  <1>2. /\ p \in Providers
        /\ pstate' \in [Providers -> ProviderStates]
        /\ pstate'[p] = "Started"
        /\ \A q \in Providers \ {p} : pstate'[q] = pstate[q]
    BY LeavesOthers DEF LocalInv, TypeOK, CoreTypeOK, ProviderStates
  <1>3. TypeOK' /\ LocalStates'
    BY <1>1, <1>2 DEF LocalInv, TypeOK, CoreTypeOK, LocalStates
  <1>4. NoOrphanProcess' /\ RestartKeepsAlive'
    <2>1. /\ \A d \in Commands : alive(ps[d]) => pstate[Owner[d]] \in {"Started", "Finishing"}
          /\ \A d \in Restart : pstate[Owner[d]] = "Started" => alive(ps[d])
      BY LeavesOthers
    <2>2. NoOrphanProcess'
      BY <1>1, <1>2, <2>1, CommandsAssumption DEF NoOrphanProcess
    <2>3. RestartKeepsAlive'
      BY <1>1, <1>2, <2>1, CommandsAssumption DEF RestartKeepsAlive
    <2>4. QED
      BY <2>2, <2>3
  <1>5. EndIsNoticed'
    <2>1. \E d \in Commands : Owner[d] = p
      BY <1>2, CommandsAssumption
    <2>2. ~active(p, procs') => \E d \in Commands : Owner[d] = p /\ procs'[d]["dead"] > 0
      BY <1>1, <2>1 DEF active
    <2>3. \A q \in Providers \ {p} : active(q, procs') <=> active(q, ps)
      BY <1>1 DEF active
    <2>4. \A q \in Providers \ {p} :
            (~active(q, procs') /\ (pstate'[q] = "Finishing" \/ (pstate'[q] = "Started" /\ ~restarting(q))))
              => \E d \in Commands : Owner[d] = q /\ procs'[d]["dead"] > 0
      BY <1>1, <1>2, <2>3, LeavesOthers
    <2>5. QED
      BY <2>2, <2>4 DEF EndIsNoticed
  <1>6. QED
    BY <1>3, <1>4, <1>5 DEF LocalInv

\* The `destroyed` signal of an object of c, whatever its destructor did to
\* the objects of c.
LEMMA DestroyedStep ==
  ASSUME IInv, NEW c \in Commands, NEW ps, NEW cs \in [Commands -> CommandStates],
         Leaves(c, ps), Destroyed(c, ps, cs)
  PROVE  IInv'
  <1> DEFINE p == Owner[c]
  <1>1. LocalInv /\ p \in Providers /\ pstate \in [Providers -> ProviderStates]
    BY LocalPart, LeavesOthers DEF IInv, TypeOK, CoreTypeOK
  <1>2. CASE ~finishes(p, ps) /\ procs' = ps /\ cmdState' = cs /\ UNCHANGED coreVars
    <2>1. LocalInv'
      BY <1>1, <1>2, DestroyedGoesOn
    <2>2. QED
      BY <1>2, <2>1, CoreUntouched
  <1>3. CASE /\ finishes(p, ps) /\ ~reconnects(coreState, p)
             /\ procs' = ps /\ cmdState' = cs
             /\ pstate' = [pstate EXCEPT ![p] = "Finished"]
             /\ coreState' = coreAfter(coreState, pstate')
             /\ UNCHANGED prepared
    <2>1. LocalInv'
      BY <1>1, <1>3, DestroyedFinishes
    <2>2. /\ pstate[p] \in {"Started", "Finishing"} /\ p \in prepared
          /\ pstate'[p] = "Finished"
          /\ \A q \in Providers \ {p} : pstate'[q] = pstate[q]
      BY <1>1, <1>3 DEF finishes, IInv, LocalStates
    <2>3. canStop
      BY <1>1, <2>2 DEF IInv, PhaseMatchesProviders, activeProviders, isActiveProvider
    <2>4. PhaseMatchesProviders'
      <3>1. activeProviders(pstate)' = activeProviders(pstate')
        BY <1>3 DEF activeProviders
      <3>2. canStop' <=> activeProviders(pstate') # {}
        BY <1>3, <2>3 DEF canStop, coreAfter
      <3>3. QED
        BY <3>1, <3>2 DEF PhaseMatchesProviders
    <2>5. StopReachesAll'
      <3>1. ASSUME NEW q \in Providers, pstate'[q] = "Finishing"
            PROVE  coreState' = "Finishing"
        <4>1. q # p /\ pstate[q] = "Finishing"
          BY <2>2, <3>1
        <4>2. q \in activeProviders(pstate')
          BY <3>1, <4>1 DEF IInv, LocalStates, activeProviders, isActiveProvider
        <4>3. QED
          BY <1>3, <4>1, <4>2 DEF coreAfter, IInv, StopReachesAll
      <3>2. \A q \in Providers : coreState' = "Finishing" => pstate'[q] # "Started"
        BY <1>3, <2>2 DEF coreAfter, IInv, StopReachesAll
      <3>3. QED
        BY <3>1, <3>2 DEF StopReachesAll
    <2>6. ReconnectKeepsStarted'
      BY <1>3, <2>2, ProvidersAssumption
         DEF IInv, ReconnectKeepsStarted, reconnects, coreAfter
    <2>7. QED
      BY <2>1, <2>4, <2>5, <2>6 DEF IInv, LocalInv
  <1>4. CASE /\ finishes(p, ps) /\ reconnects(coreState, p)
             /\ pstate' = [pstate EXCEPT ![p] = "Started"]
             /\ \E failed \in Failures : startCommands({p}, ps, cs, failed)
             /\ UNCHANGED <<coreState, prepared>>
    <2>1. pstate[p] \in {"Started", "Finishing"}
      BY <1>1, <1>4 DEF finishes, IInv, LocalStates
    <2>2. pstate' = pstate /\ p \in prepared
      BY <1>1, <1>4, <2>1 DEF reconnects, IInv, StopReachesAll, LocalStates
    <2>3. LocalInv'
      BY <1>1, <1>4, <2>2, StartCommandsLocal
    <2>4. QED
      BY <1>4, <2>2, <2>3, CoreUntouched DEF coreVars
  <1>5. QED
    BY <1>2, <1>3, <1>4 DEF Destroyed

LEMMA DeletionStep ==
  ASSUME IInv, NEW c \in Commands, Deletion(c)
  PROVE  IInv'
  <1>1. /\ procs \in [Commands -> [Phases -> Nat]]
        /\ cmdState \in [Commands -> CommandStates]
        /\ c \in Restart /\ pstate[Owner[c]] = "Started" => alive(procs[c])
    BY DEF IInv, TypeOK, RestartKeepsAlive
  <1>2. CASE DeleteDead(c)
    <2> DEFINE ps == [procs EXCEPT ![c]["dead"] = @ - 1]
    <2>1. ps \in [Commands -> [Phases -> Nat]]
      BY <1>1, <1>2 DEF DeleteDead, Phases
    <2>2. \A d \in Commands \ {c} : ps[d] = procs[d]
      BY <1>1
    <2>3. alive(ps[c]) <=> alive(procs[c])
      BY <1>1 DEF alive, Phases
    <2>4. Destroyed(c, ps, cmdState)
      BY <1>2 DEF DeleteDead
    <2> HIDE DEF ps
    <2>5. Leaves(c, ps)
      BY <1>1, <2>1, <2>2, <2>3 DEF Leaves
    <2>6. QED
      BY <1>1, <2>4, <2>5, DestroyedStep
  <1>3. CASE DeleteDoomed(c)
    <2> DEFINE n == restarts(c, 2)
               left == [procs[c] EXCEPT !["doomed"] = @ - 1]
    <2>1. PICK f \in 0..MaxSyncFailures :
            /\ canFail(c, n, f)
            /\ Destroyed(c, [procs EXCEPT ![c] = startProcess(c, left, n, f)],
                         [cmdState EXCEPT ![c] = signalled(c, n, f, "Finished")])
      BY <1>3 DEF DeleteDoomed
    <2> DEFINE s == startProcess(c, left, n, f)
               ps == [procs EXCEPT ![c] = s]
               cs == [cmdState EXCEPT ![c] = signalled(c, n, f, "Finished")]
    <2>2. n \in Nat /\ f \in Nat /\ (n = 0 \/ (c \in Restart /\ pstate[Owner[c]] = "Started"))
      BY BoundsAssumption DEF restarts
    <2>3. left \in [Phases -> Nat] /\ procs[c]["doomed"] > 0
      BY <1>1, <1>3 DEF DeleteDoomed, Phases
    <2>4. /\ s \in [Phases -> Nat]
          /\ n > 0 /\ c \in Restart => s["starting"] > 0
      BY <2>1, <2>2, <2>3, StartProcess
    <2>5. c \in Restart /\ pstate[Owner[c]] = "Started" => alive(s)
      BY <2>4 DEF restarts, alive
    <2>6. alive(procs[c])
      BY <2>3 DEF alive
    <2>7. signalled(c, n, f, "Finished") \in CommandStates
      BY <2>2 DEF signalled, CommandStates
    <2>8. Destroyed(c, ps, cs)
      BY <2>1
    <2> HIDE DEF s, n, left
    <2>9. /\ ps \in [Commands -> [Phases -> Nat]]
          /\ \A d \in Commands \ {c} : ps[d] = procs[d]
          /\ ps[c] = s
          /\ cs \in [Commands -> CommandStates]
      BY <1>1, <2>4, <2>7
    <2> HIDE DEF ps, cs
    <2>10. Leaves(c, ps)
      BY <1>1, <2>5, <2>6, <2>9 DEF Leaves
    <2>11. QED
      BY <2>8, <2>9, <2>10, DestroyedStep
  <1>4. QED
    BY <1>2, <1>3 DEF Deletion

LEMMA StartStep ==
  ASSUME IInv, Start
  PROVE  IInv'
  <1> DEFINE P == {p \in prepared : ~isActiveProvider(pstate[p])}
  <1>1. PICK failed \in Failures : startCommands(P, procs, cmdState, failed)
    BY DEF Start
  <1>2. /\ canStart /\ prepared # {} /\ prepared' = prepared
        /\ coreState' = "Started"
        /\ pstate' = [p \in Providers |-> IF p \in P THEN "Started" ELSE pstate[p]]
    BY DEF Start
  <1>3. /\ prepared \subseteq Providers
        /\ pstate \in [Providers -> ProviderStates]
        /\ procs \in [Commands -> [Phases -> Nat]]
        /\ cmdState \in [Commands -> CommandStates]
    BY DEF IInv, TypeOK, CoreTypeOK
  <1>4. activeProviders(pstate) = {}
    BY <1>2 DEF canStart, canStop, IInv, PhaseMatchesProviders
  <1>5. P = prepared
    BY <1>4 DEF activeProviders
  <1>6. \A c \in Commands : ~alive(procs[c])
    BY <1>3, <1>4, CommandsAssumption
       DEF activeProviders, isActiveProvider, IInv, NoOrphanProcess, LocalStates
  <1>7. /\ procs' \in [Commands -> [Phases -> Nat]]
        /\ cmdState' \in [Commands -> CommandStates]
        /\ \A c \in Commands : Owner[c] \notin prepared => procs'[c] = procs[c]
        /\ \A c \in Commands : Owner[c] \in prepared => alive(procs'[c]) \/ procs'[c]["dead"] > 0
        /\ \A c \in Restart : Owner[c] \in prepared => alive(procs'[c])
    BY <1>1, <1>3, <1>5, StartCommands
  <1>8. /\ \A p \in prepared : pstate'[p] = "Started"
        /\ \A p \in Providers \ prepared : pstate'[p] = "NotStarted"
        /\ pstate' \in [Providers -> ProviderStates]
    BY <1>2, <1>3, <1>5 DEF IInv, LocalStates, ProviderStates
  <1> HIDE DEF P
  <1>9. TypeOK' /\ LocalStates'
    BY <1>2, <1>3, <1>7, <1>8 DEF TypeOK, CoreTypeOK, LocalStates, CoreStates
  <1>10. PhaseMatchesProviders' /\ StopReachesAll' /\ ReconnectKeepsStarted'
    BY <1>2, <1>3, <1>8
       DEF PhaseMatchesProviders, StopReachesAll, ReconnectKeepsStarted, canStop,
           activeProviders, isActiveProvider
  <1>11. NoOrphanProcess' /\ RestartKeepsAlive'
    BY <1>6, <1>7, <1>8, CommandsAssumption DEF NoOrphanProcess, RestartKeepsAlive
  <1>12. EndIsNoticed'
    <2> SUFFICES ASSUME NEW p \in Providers, ~active(p, procs'), pstate'[p] = "Started"
                 PROVE  \E c \in Commands : Owner[c] = p /\ procs'[c]["dead"] > 0
      BY <1>8 DEF EndIsNoticed
    <2>1. p \in prepared
      BY <1>8
    <2>2. PICK c \in Commands : Owner[c] = p
      BY CommandsAssumption
    <2>3. QED
      BY <1>7, <2>1, <2>2 DEF active
  <1>13. QED
    BY <1>9, <1>10, <1>11, <1>12 DEF IInv

LEMMA StopLocal ==
  ASSUME LocalInv, Stop
  PROVE  LocalInv'
  <1>1. /\ prepared' = prepared
        /\ pstate' = [p \in Providers |-> terminated(p)]
        /\ coreState' = coreAfter("Finishing", pstate')
        /\ procs' = [c \in Commands |->
             IF closes(c)
             THEN [procs[c] EXCEPT !["dead"] = @ + procs[c]["starting"], !["starting"] = 0]
             ELSE procs[c]]
        /\ \E last \in [Commands -> {"Finished", "FailedToStart"}] :
             cmdState' = [c \in Commands |-> IF closes(c) THEN last[c] ELSE cmdState[c]]
    BY DEF Stop
  <1>2. /\ prepared \subseteq Providers
        /\ pstate \in [Providers -> ProviderStates]
        /\ procs \in [Commands -> [Phases -> Nat]]
        /\ cmdState \in [Commands -> CommandStates]
    BY DEF LocalInv, TypeOK, CoreTypeOK
  <1>3. \A c \in Commands :
          /\ procs'[c] \in [Phases -> Nat]
          /\ alive(procs'[c]) => alive(procs[c])
          /\ alive(procs[c]) => alive(procs'[c]) \/ procs'[c]["dead"] > 0
          /\ procs'[c]["dead"] >= procs[c]["dead"]
    BY <1>1, <1>2 DEF alive, Phases, closes
  <1>4. \A p \in Providers :
          /\ pstate[p] # "Started" => pstate'[p] = pstate[p]
          /\ pstate[p] = "Started" => /\ active(p, procs) => pstate'[p] = "Finishing"
                                      /\ ~active(p, procs) => pstate'[p] = "Finished"
    BY <1>1, <1>2 DEF terminated, LocalInv, LocalStates
  <1>5. procs' \in [Commands -> [Phases -> Nat]]
    BY <1>1, <1>3
  <1>6. /\ coreState' \in {"Finishing", "Finished"}
        /\ coreState' = "Finishing" <=> activeProviders(pstate') # {}
    BY <1>1 DEF coreAfter
  <1>7. TypeOK'
    <2>1. pstate' \in [Providers -> ProviderStates]
      BY <1>1, <1>2, <1>4 DEF ProviderStates
    <2>2. cmdState' \in [Commands -> CommandStates]
      BY <1>1, <1>2 DEF CommandStates
    <2>3. QED
      BY <1>1, <1>2, <1>5, <1>6, <2>1, <2>2 DEF TypeOK, CoreTypeOK, CoreStates
  <1>8. LocalStates'
    BY <1>1, <1>4 DEF LocalInv, LocalStates
  <1>9. NoOrphanProcess'
    <2> SUFFICES ASSUME NEW c \in Commands, alive(procs'[c])
                 PROVE  pstate'[Owner[c]] \in {"Started", "Finishing"}
      BY DEF NoOrphanProcess
    <2>1. /\ Owner[c] \in Providers
          /\ pstate[Owner[c]] \in {"Started", "Finishing"}
          /\ active(Owner[c], procs)
      BY <1>3, CommandsAssumption DEF LocalInv, NoOrphanProcess, active
    <2>2. QED
      BY <1>4, <2>1
  <1>10. EndIsNoticed'
    <2> SUFFICES ASSUME NEW p \in Providers, ~active(p, procs'), pstate'[p] = "Finishing"
                 PROVE  \E c \in Commands : Owner[c] = p /\ procs'[c]["dead"] > 0
      BY <1>4 DEF EndIsNoticed
    <2>1. CASE active(p, procs)
      BY <1>3, <2>1 DEF active
    <2>2. CASE ~active(p, procs)
      <3>1. \E c \in Commands : Owner[c] = p /\ procs[c]["dead"] > 0
        BY <1>4, <2>2 DEF LocalInv, EndIsNoticed
      <3>2. QED
        BY <1>2, <1>3, <1>5, <3>1 DEF Phases
    <2>3. QED
      BY <2>1, <2>2
  <1>11. RestartKeepsAlive'
    BY <1>4, CommandsAssumption DEF RestartKeepsAlive
  <1>12. QED
    BY <1>7, <1>8, <1>9, <1>10, <1>11 DEF LocalInv

LEMMA StopStep ==
  ASSUME IInv, Stop
  PROVE  IInv'
  <1>1. LocalInv'
    BY LocalPart, StopLocal
  <1>2. /\ pstate' = [p \in Providers |-> terminated(p)]
        /\ coreState' = coreAfter("Finishing", pstate')
        /\ prepared' = prepared
    BY DEF Stop
  <1>3. \A p \in Providers :
          /\ pstate'[p] # "Started"
          /\ pstate'[p] = "Finishing" => p \in activeProviders(pstate')
    BY <1>2 DEF terminated, IInv, LocalStates, activeProviders, isActiveProvider
  <1>4. /\ coreState' \in {"Finishing", "Finished"}
        /\ coreState' = "Finishing" <=> activeProviders(pstate') # {}
    BY <1>2 DEF coreAfter
  <1>5. PhaseMatchesProviders'
    BY <1>2, <1>4 DEF PhaseMatchesProviders, canStop, activeProviders
  <1>6. StopReachesAll'
    BY <1>3, <1>4 DEF StopReachesAll
  <1>7. ReconnectKeepsStarted'
    BY <1>4 DEF ReconnectKeepsStarted
  <1>8. QED
    BY <1>1, <1>5, <1>6, <1>7 DEF IInv, LocalInv

\* prepare, and a start that finds no provider.
LEMMA PrepareStep ==
  ASSUME IInv, prepared = {}, prepared' \subseteq Providers,
         coreState' \in {coreState, "Finished"},
         UNCHANGED <<pstate, localVars>>
  PROVE  IInv'
  <1> USE DEF localVars
  <1>1. TypeOK'
    BY DEF IInv, TypeOK, CoreTypeOK, CoreStates
  <1>2. LocalStates'
    BY DEF IInv, LocalStates
  <1>3. \A p \in Providers : pstate[p] = "NotStarted"
    BY DEF IInv, LocalStates
  <1>4. coreState \notin {"Started", "Finishing"}
    BY DEF IInv, PhaseMatchesProviders, canStop, activeProviders
  <1>5. PhaseMatchesProviders' /\ StopReachesAll' /\ ReconnectKeepsStarted'
    BY <1>3, <1>4
       DEF PhaseMatchesProviders, StopReachesAll, ReconnectKeepsStarted, canStop,
           activeProviders, isActiveProvider
  <1>6. NoOrphanProcess' /\ EndIsNoticed' /\ RestartKeepsAlive'
    BY DEF IInv, NoOrphanProcess, EndIsNoticed, RestartKeepsAlive
  <1>7. QED
    BY <1>1, <1>2, <1>5, <1>6 DEF IInv

\* Every step keeps the invariant.
LEMMA Preservation ==
  ASSUME IInv, [Next]_vars
  PROVE  IInv'
  <1>1. CASE PrepareSucceeds /\ UNCHANGED localVars
    BY <1>1, PrepareStep DEF PrepareSucceeds
  <1>2. CASE PrepareThrows /\ UNCHANGED localVars
    BY <1>2, PrepareStep DEF PrepareThrows
  <1>3. CASE StartWithoutProviders /\ UNCHANGED localVars
    BY <1>3, PrepareStep DEF StartWithoutProviders
  <1>4. CASE Start
    BY <1>4, StartStep
  <1>5. CASE Stop
    BY <1>5, StopStep
  <1>6. ASSUME NEW c \in Commands, ProcessEvent(c) PROVE IInv'
    BY <1>6, ProcessEventStep
  <1>7. ASSUME NEW c \in Commands, Deletion(c) PROVE IInv'
    BY <1>7, DeletionStep
  <1>8. CASE UNCHANGED vars
    BY <1>8 DEF vars, coreVars, localVars, IInv, TypeOK, CoreTypeOK, LocalStates,
         PhaseMatchesProviders, NoOrphanProcess, StopReachesAll, EndIsNoticed,
         RestartKeepsAlive, ReconnectKeepsStarted, canStop, activeProviders
  <1>9. QED
    BY <1>1, <1>2, <1>3, <1>4, <1>5, <1>6, <1>7, <1>8 DEF Next, Application

-----------------------------------------------------------------------------
(* The theorems *)

\* The inductive invariant holds in every reachable state.
THEOREM Invariance == Spec => []IInv
  <1>1. IInv /\ [Next]_vars => IInv'
    BY Preservation
  <1>2. QED
    BY InitIInv, <1>1, PTL DEF Spec

\* Every variable has its type.
THEOREM TypeCorrect == Spec => []TypeOK
  BY Invariance, PTL DEF IInv

\* Core is Started or Finishing exactly while a provider is active.
THEOREM PhaseIsRight == Spec => []PhaseMatchesProviders
  BY Invariance, PTL DEF IInv

\* No child process outlives the session that started it.
THEOREM NoOrphans == Spec => []NoOrphanProcess
  BY Invariance, PTL DEF IInv

\* A stop request reaches every provider.
THEOREM StopIsComplete == Spec => []StopReachesAll
  BY Invariance, PTL DEF IInv

\* The end of a provider's last process never goes unnoticed.
THEOREM EndsAreNoticed == Spec => []EndIsNoticed
  BY Invariance, PTL DEF IInv

\* restart keeps a command alive while its provider is Started.
THEOREM RestartWorks == Spec => []RestartKeepsAlive
  BY Invariance, PTL DEF IInv

\* reconnect keeps a local source Started for the whole session.
THEOREM ReconnectWorks == Spec => []ReconnectKeepsStarted
  BY Invariance, PTL DEF IInv

=============================================================================
