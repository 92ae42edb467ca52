-------------------------------- MODULE Core --------------------------------
(***************************************************************************)
(* daggy::Core: the object an application owns.  It builds one provider    *)
(* per source (prepare), starts and stops all of them, and follows their   *)
(* state signals.  Signals are direct Qt connections on one thread, so a   *)
(* provider's state change and Core's reaction to it are one step; this    *)
(* module holds Core's state and its part of such a step, and the modules  *)
(* that add a kind of provider compose it into whole steps.                *)
(***************************************************************************)
EXTENDS Naturals

CONSTANTS
  Providers,   \* the sources of the session, one provider each
  Reconnect    \* those whose source has reconnect: true

ASSUME ProvidersAssumption == Providers # {} /\ Reconnect \subseteq Providers

VARIABLES
  coreState,   \* Core::state_
  prepared,    \* the providers that are children of the Core object
  pstate       \* IProvider::state_ of every provider

coreVars == <<coreState, prepared, pstate>>

CoreStates == {"NotStarted", "Started", "Finishing", "Finished"}
ProviderStates ==
  {"NotStarted", "Starting", "Started", "FailedToStart", "Finishing", "Finished"}

CoreTypeOK ==
  /\ coreState \in CoreStates
  /\ prepared \subseteq Providers
  /\ pstate \in [Providers -> ProviderStates]

CoreInit ==
  /\ coreState = "NotStarted"
  /\ prepared = {}
  /\ pstate = [p \in Providers |-> "NotStarted"]

\* The state of a provider in the terms of Session: one that comes up or that
\* failed has, like one that is Finished, nothing at work.
promised(state) == IF state \in {"Starting", "FailedToStart"} THEN "Finished" ELSE state

-----------------------------------------------------------------------------

isActiveProvider(state) == state \notin {"NotStarted", "FailedToStart", "Finished"}

\* The providers activeDataProvidersCount counts when the states are ps.
activeProviders(ps) == {p \in prepared : isActiveProvider(ps[p])}

\* Mutant of coreAfter: the last provider's end is not noticed.
coreStays(cs, ps) == cs

\* The last test of onDataProviderStateChanged, once the states are ps.
coreAfter(cs, ps) == IF activeProviders(ps) = {} THEN "Finished" ELSE cs

\* Mutant of reconnects: the reconnect waits for a Core that is being stopped.
reconnectsWhenFinishing(cs, p) == p \in Reconnect /\ cs = "Finishing"

\* A provider that reports Finished to a Core in state cs is started again at once.
reconnects(cs, p) == p \in Reconnect /\ cs = "Started"

\* A source type that no fabric makes, or a fabric that returns an error,
\* throws std::system_error: prepare then deletes every provider it built,
\* and leaves the state it found.  A second prepare, too, changes nothing.
PrepareSucceeds ==
  /\ prepared = {}
  /\ prepared' = Providers
  /\ UNCHANGED <<coreState, pstate>>

\* Any other exception (std::bad_alloc, one of an application's fabric) is
\* reported without the clean-up: the providers built so far stay.
PrepareThrows ==
  /\ prepared = {}
  /\ prepared' \in (SUBSET Providers) \ {{}, Providers}
  /\ UNCHANGED <<coreState, pstate>>

\* start() has work to do; in the other states it returns AlreadyStarted.
canStart == coreState \in {"NotStarted", "Finished"}

StartWithoutProviders ==
  /\ canStart
  /\ prepared = {}
  /\ coreState' = "Finished"
  /\ UNCHANGED <<prepared, pstate>>

\* stop() has work to do; in the other states it returns AlreadyFinished.
canStop == coreState \in {"Started", "Finishing"}
=============================================================================
