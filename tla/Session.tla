------------------------------ MODULE Session ------------------------------
(***************************************************************************)
(* What daggy promises an application: a session in which commands work.   *)
(* Work begins only while the session is Started; a stop request lets what *)
(* works drain, admits nothing new, and is carried out; and a session that *)
(* is Finished has left nothing at work.                                   *)
(***************************************************************************)
CONSTANT Commands
VARIABLES
  phase,     \* the state Core signals
  working    \* the commands that have a process

vars == <<phase, working>>

Init == phase = "NotStarted" /\ working = {}

Begin ==
  /\ phase \in {"NotStarted", "Finished"}
  /\ phase' = "Started"
  /\ working' \in SUBSET Commands

Work ==
  /\ phase = "Started"
  /\ phase' = "Started"
  /\ working' \in SUBSET Commands

RequestStop ==
  /\ phase = "Started"
  /\ phase' = "Finishing"
  /\ working' \subseteq working

Drain ==
  /\ phase = "Finishing"
  /\ phase' = "Finishing"
  /\ working' \subseteq working

\* Everything ended by itself, or there was nothing to start.
Complete ==
  /\ phase \in {"NotStarted", "Started"}
  /\ phase' = "Finished"
  /\ working' = {}

CarryOutStop ==
  /\ phase = "Finishing"
  /\ phase' = "Finished"
  /\ working' = {}

Next == Begin \/ Work \/ RequestStop \/ Drain \/ Complete \/ CarryOutStop

Spec == Init /\ [][Next]_vars
FairSpec == Spec /\ WF_vars(CarryOutStop)
=============================================================================
