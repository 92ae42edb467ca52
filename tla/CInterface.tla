----------------------------- MODULE CInterface -----------------------------
(***************************************************************************)
(* A program written against the C interface (Core.h): it makes an         *)
(* application and a Core, starts it, and runs the event loop.  Its calls  *)
(* come from outside the loop, from a callback inside it, and, for the     *)
(* request to stop the application, from a function that runs in a thread. *)
(* Without an application there is no Core to be made.                     *)
(***************************************************************************)
EXTENDS Programs

\* A Core the program has a handle of.
given == stage = "prepared"

libdaggy_app_create ==
  /\ loop = "none"
  /\ loop' = "made"
  /\ UNCHANGED <<program, stage, text, format, sources, providers, coreState, work, awaited>>

\* The call reads the text, and Convert and Prepare are its next two steps.
libdaggy_core_create ==
  /\ stage = "none"
  /\ loop \in {"made", "looping"}
  /\ \E f \in Formats : Read(f)

\* In any state of the application, one that is gone included.
libdaggy_core_start ==
  /\ given /\ startable
  /\ CoreStarts
  /\ UNCHANGED <<program, stage, text, format, sources, providers, loop>>

libdaggy_core_stop ==
  /\ given
  /\ coreState' = coreStopped
  /\ UNCHANGED <<program, stage, text, format, sources, providers, work, awaited, loop>>

\* Not from a callback, which Core itself calls.
libdaggy_core_destroy ==
  /\ given /\ loop \in {"made", "ended"}
  /\ coreState' = "none" /\ work' = {} /\ awaited' = {}
  /\ providers' = NoFields
  /\ stage' = "none"
  /\ UNCHANGED <<program, text, format, sources, loop>>

libdaggy_app_exec ==
  /\ loop = "made" /\ stage \in {"none", "prepared"}
  /\ loop' = "looping"
  /\ UNCHANGED <<program, stage, text, format, sources, providers, coreState, work, awaited>>

\* A call of the program, or of a function given to libdaggy_run_in_thread:
\* quit() posts the request to the loop.
libdaggy_app_stop ==
  /\ loop = "looping"
  /\ loop' = "exiting"
  /\ UNCHANGED <<program, stage, text, format, sources, providers, coreState, work, awaited>>

\* aboutToQuit stops the Core, and exec deletes the application.
ExecReturns ==
  /\ loop = "exiting" /\ stage \in {"none", "prepared"}
  /\ loop' = "ended"
  /\ coreState' = coreStopped
  /\ UNCHANGED <<program, stage, text, format, sources, providers, work, awaited>>

CSourceEvent ==
  /\ loop \in {"looping", "exiting"}
  /\ \E id \in work \cup awaited : SourceEvent(id)
  /\ UNCHANGED <<program, stage, text, format, sources, providers, loop>>

CNext ==
  /\ program = "c"
  /\ \/ libdaggy_app_create \/ libdaggy_app_exec \/ libdaggy_app_stop
     \/ libdaggy_core_create \/ Convert \/ Prepare
     \/ libdaggy_core_start \/ libdaggy_core_stop \/ libdaggy_core_destroy
     \/ ExecReturns \/ CSourceEvent
=============================================================================
