---------------------------- MODULE ConsoleDaggy ----------------------------
(***************************************************************************)
(* The console application: main, CConsoleDaggy, and what they own besides *)
(* a Core: the signal handler and the timer that polls it, and the timeout *)
(* of -t.  The file thread is FileAggregator's; what -x does with its      *)
(* files when the event loop has returned is left out.                     *)
(*                                                                         *)
(* Before exec all is one call chain; in the loop an action is one event.  *)
(* exit() only sets a flag: events of the same pass over the event sources *)
(* are still delivered, and a timer fires once in a pass.                  *)
(***************************************************************************)
EXTENDS Programs

VARIABLES
  signal,      \* signal_status is SIGINT
  hard,        \* need_hard_stop_
  timeout,     \* "unset", or where the single shot is
  polled       \* the poll timer fired in this pass

consoleVars == <<signal, hard, timeout, polled>>

ConsoleTypeOK ==
  /\ TypeOK
  /\ {signal, hard, polled} \subseteq BOOLEAN
  /\ timeout \in {"unset", "set", "armed", "fired"}

ConsoleInit ==
  /\ signal = FALSE /\ hard = FALSE /\ polled = FALSE
  /\ timeout = "unset"

-----------------------------------------------------------------------------
(* Before the event loop *)

\* The format option is taken for a file name, and its suffix is looked at:
\* it has none.
suffixOf(option) == ""
textFormatType(suffix) == IF suffix \in {"yml", "yaml"} THEN "yaml" ELSE "json"

\* parse: with -f the format is that of the option, else that of the file.
Parse ==
  /\ stage = "none"
  /\ \/ \E suffix \in {"yaml", "json"} : Read(textFormatType(suffix))
     \/ \E option \in Formats : Read(textFormatType(suffixOf(option)))
  /\ timeout' \in {"unset", "set"}
  /\ UNCHANGED <<signal, hard, polled>>

\* A wrong option, or a file that cannot be read or is empty.
ParseFails ==
  /\ stage = "none"
  /\ Fail
  /\ UNCHANGED <<text, consoleVars>>

\* start() and exec().  A Core without sources returns an error from start,
\* and a handler that cannot be installed ends the program before.
Start ==
  /\ stage = "prepared"
  /\ \/ /\ providers # NoFields
        /\ CoreStarts
        /\ stage' = "running"
        /\ loop' = "looping"
        /\ timeout' = IF timeout = "set" THEN "armed" ELSE timeout
     \/ /\ stage' = "failed"
        /\ coreState' = "none"
        /\ UNCHANGED <<work, awaited, loop, timeout>>
  /\ UNCHANGED <<program, text, format, sources, providers>>
  /\ UNCHANGED <<signal, hard, polled>>

-----------------------------------------------------------------------------
(* The event loop *)

inLoop == loop \in {"looping", "exiting"}

CtrlC ==
  /\ inLoop \/ loop = "returned"
  /\ ~signal
  /\ signal' = TRUE
  /\ UNCHANGED <<sharedVars, hard, timeout, polled>>

\* Mutant of loopAfter: the loop waits for another state.
loopAfterStop(state) == IF state = "Finishing" THEN "exiting" ELSE loop

\* onDaggyCoreStateChanged
loopAfter(state) == IF state = "Finished" THEN "exiting" ELSE loop

\* Mutant of hardStop: the loop goes on without a Core.
hardStopInLoop ==
  /\ hard
  /\ IF coreState = "deleted"
     THEN coreState' = "corrupt" /\ UNCHANGED <<work, awaited>>
     ELSE CoreDeleted
  /\ UNCHANGED <<loop, hard>>

\* The second request deletes Core; the pointer stays set, and the next request
\* deletes what is gone.
hardStop ==
  /\ hard
  /\ IF coreState = "deleted"
     THEN coreState' = "corrupt" /\ UNCHANGED <<work, awaited>>
     ELSE CoreDeleted
  /\ loop' = "exiting"
  /\ UNCHANGED hard

stop ==
  /\ coreState # "corrupt"
  /\ UNCHANGED <<program, stage, text, format, sources, providers>>
  /\ \/ hardStop
     \/ /\ ~hard
        /\ coreState' = coreStopped
        /\ hard' = TRUE
        /\ loop' = loopAfter(coreState')
        /\ UNCHANGED <<work, awaited>>

\* checkSignalStatus, every 100 ms.
CheckSignalStatus ==
  /\ inLoop /\ ~polled
  /\ signal
  /\ stop
  /\ signal' = FALSE
  /\ polled' = TRUE
  /\ UNCHANGED timeout

Timeout ==
  /\ inLoop
  /\ timeout = "armed"
  /\ stop
  /\ timeout' = "fired"
  /\ UNCHANGED <<signal, polled>>

NewPass ==
  /\ loop = "looping" /\ polled
  /\ polled' = FALSE
  /\ UNCHANGED <<sharedVars, signal, hard, timeout>>

ConsoleSourceEvent(id) ==
  /\ inLoop
  /\ SourceEvent(id)
  /\ loop' = loopAfter(coreState')
  /\ UNCHANGED <<program, stage, text, format, sources, providers, consoleVars>>

-----------------------------------------------------------------------------
(* After the event loop *)

LoopReturns ==
  /\ loop = "exiting"
  /\ loop' = "returned"
  /\ UNCHANGED <<program, stage, text, format, sources, providers, coreState, work, awaited>>
  /\ UNCHANGED consoleVars

\* ~QCoreApplication deletes CConsoleDaggy, which ends the file thread first
\* and deletes Core, if it is still there, as its child.
ProgramEnds ==
  /\ loop = "returned"
  /\ loop' = "ended"
  /\ work' = {} /\ awaited' = {}
  /\ coreState' = IF coreState = "corrupt" THEN coreState ELSE "deleted"
  /\ UNCHANGED <<program, stage, text, format, sources, providers, consoleVars>>

-----------------------------------------------------------------------------

ConsoleNext ==
  /\ program = "console"
  /\ \/ Parse \/ ParseFails
     \/ (Convert \/ Prepare) /\ UNCHANGED consoleVars
     \/ Start
     \/ CtrlC \/ CheckSignalStatus \/ Timeout \/ NewPass
     \/ \E id \in work \cup awaited : ConsoleSourceEvent(id)
     \/ LoopReturns \/ ProgramEnds

\* A stop kills the processes of the local sources, and they end.
LocalSourceEnds ==
  /\ program = "console" /\ coreState = "Finishing"
  /\ \E id \in work : isLocal(id) /\ ConsoleSourceEvent(id)

\* The loop polls and returns, main goes on to its end, and a local source that
\* is being stopped ends.  Any other source may work for ever.
ConsoleFairness ==
  LET all == <<sharedVars, consoleVars>> IN
  /\ WF_all(program = "console" /\ CheckSignalStatus)
  /\ WF_all(program = "console" /\ NewPass)
  /\ WF_all(LocalSourceEnds)
  /\ WF_all(program = "console" /\ (LoopReturns \/ ProgramEnds))
-----------------------------------------------------------------------------
(* Properties *)

\* CTRL+C ends the program if all its sources are local: it is polled, the sources
\* are stopped, their end ends the loop, and main runs to its end.  A request after
\* a first one, of CTRL+C or of the timeout, ends it whatever its sources do.
InterruptEnds ==
  (signal /\ loop = "looping" /\ (hard \/ \A id \in DOMAIN providers : isLocal(id)))
    ~> (loop = "ended")

\* A Finished that comes before exec() or that nobody hears of would leave a
\* program that waits for ever: while the loop goes on its Core is Started, or
\* waits for a source that is active.
FinishIsSeen ==
  (program = "console" /\ loop = "looping") =>
    coreState = "Started" \/ (coreState = "Finishing" /\ work # {})

\* However often CTRL+C is pressed Core is deleted once.  Only the timeout can
\* make a third request in the pass of the second.
OneDeletion == coreState = "corrupt" => timeout = "fired"
=============================================================================
