--------------------------- MODULE FrontEndsProofs ---------------------------
(***************************************************************************)
(* The safety of the two programs, for any documents.                      *)
(***************************************************************************)
EXTENDS FrontEnds, TLAPS

\* The console application has a loop when it has started its sources.
ConsoleStages == program = "console" => (loop # "none" <=> stage = "running")

\* Sources work, or are awaited, for a Core that was prepared, and in the console
\* application started.
PreparedWorks ==
  work \cup awaited # {} => stage = IF program = "console" THEN "running" ELSE "prepared"

\* Only the console application deletes Core while its loop is there, and the
\* loop is then about to return; a request of the same pass comes from the timeout.
DeletedInLoop ==
  /\ coreState \in {"deleted", "corrupt"}
       => program = "console" /\ loop \in {"exiting", "returned", "ended"}
  /\ coreState = "deleted" /\ loop = "exiting" => polled \/ timeout = "fired"

\* The inductive invariant.
FrontInv ==
  /\ ConsoleTypeOK /\ ConsoleStages /\ PreparedWorks /\ DeletedInLoop
  /\ OneDeletion /\ FinishIsSeen

-----------------------------------------------------------------------------
(* Sources and providers *)

\* Commands that are accepted are at least one, and each has a restart.
LEMMA CommandsAreWellFormed ==
  ASSUME NEW m, commandsAccepted(m)
  PROVE  /\ DOMAIN getCommands(m) # {}
         /\ \A id \in DOMAIN getCommands(m) : getCommands(m)[id].restart \in BOOLEAN
  BY DEF commandsAccepted, getCommands

\* Whatever a convertor accepts becomes a map of sources that have commands.
LEMMA ConvertedIsWellFormed ==
  ASSUME NEW f \in Formats, NEW root, accepts(f, root),
         NEW id \in DOMAIN convert(f, root)
  PROVE  WellFormed(convert(f, root)[id])
  <1>1. CASE f = "json"
    <2> DEFINE m == toVariant("json", root).at["sources"].at
    <2>1. /\ convert(f, root) = [x \in DOMAIN m |-> jsonSource(m[x].at)]
          /\ id \in DOMAIN m /\ jsonSourceAccepted(m[id])
      BY <1>1 DEF accepts, convert, jsonAccepts, json
    <2> HIDE DEF m
    <2>2. commandsAccepted(m[id].at["commands"].at)
      BY <2>1 DEF jsonSourceAccepted
    <2>3. WellFormed(jsonSource(m[id].at))
      BY <2>2, CommandsAreWellFormed DEF WellFormed, jsonSource
    <2>4. QED
      BY <2>1, <2>3
  <1>2. CASE f = "yaml"
    <2> DEFINE m == root.at["sources"].at
    <2>1. /\ convert(f, root) = [x \in DOMAIN m |-> yamlSource(m[x].at)]
          /\ id \in DOMAIN m /\ yamlSourceAccepted(m[id])
      BY <1>2 DEF accepts, convert, yamlAccepts, yaml
    <2> HIDE DEF m
    <2>2. commandsAccepted(variants(m[id].at["commands"]))
      BY <2>1 DEF yamlSourceAccepted
    <2>3. WellFormed(yamlSource(m[id].at))
      BY <2>2, CommandsAreWellFormed DEF WellFormed, yamlSource
    <2>4. QED
      BY <2>1, <2>3
  <1>3. QED
    BY <1>1, <1>2 DEF Formats

\* What the fabrics make of sources that are well formed.
LEMMA ProvidersAreWellFormed ==
  ASSUME NEW s, prepares(s), NEW id \in DOMAIN providersOf(s), WellFormed(s[id])
  PROVE  /\ providersOf(s)[id].type \in {"local", "ssh", "ssh2"}
         /\ providersOf(s)[id].commands # {}
         /\ providersOf(s)[id].host = "" => providersOf(s)[id].type = "local" \/ id = ""
  <1>1. id \in DOMAIN s /\ providersOf(s)[id] = createProvider(id, s[id]) /\ fabricCreates(s[id])
    BY DEF providersOf, prepares
  <1>2. s[id].type \in {"local", "ssh", "ssh2"}
    BY <1>1 DEF fabricCreates
  <1>3. createProvider(id, s[id]).type = s[id].type
    BY DEF createProvider
  <1>4. createProvider(id, s[id]).commands # {}
    BY DEF createProvider, WellFormed
  <1>5. createProvider(id, s[id]).host = "" => s[id].type = "local" \/ id = ""
    BY <1>2 DEF createProvider, sshHost, ssh2Host
  <1>6. QED
    BY <1>1, <1>2, <1>3, <1>4, <1>5

\* Without sources there is nothing to be said about them, nor about providers.
LEMMA TypesKept ==
  ASSUME TypeOK, sources' \in {sources, NoFields}, providers' \in {providers, NoFields}
  PROVE  /\ \A id \in DOMAIN sources' : WellFormed(sources'[id])
         /\ \A id \in DOMAIN providers' :
              /\ providers'[id].type \in {"local", "ssh", "ssh2"}
              /\ providers'[id].commands # {}
              /\ providers'[id].host = "" => providers'[id].type = "local" \/ id = ""
  <1>1. DOMAIN NoFields = {}
    BY DEF NoFields
  <1>2. QED
    BY <1>1 DEF TypeOK

-----------------------------------------------------------------------------
(* What both programs do *)

\* The program goes on without a Core, as far as it was in its loop.
LEMMA FailStep ==
  ASSUME FrontInv, Fail, stage # "running", text' \in Documents \cup {NullNode},
         UNCHANGED consoleVars,
         work = {}, awaited = {}
  PROVE  FrontInv'
  <1>1. /\ sources' = NoFields /\ UNCHANGED <<program, format, providers, work, awaited, loop>>
        /\ coreState' = "none" /\ stage' = IF program = "console" THEN "failed" ELSE "none"
        /\ UNCHANGED <<signal, hard, timeout, polled>>
    BY DEF Fail, consoleVars
  <1>2. TypeOK'
    BY <1>1, TypesKept DEF FrontInv, ConsoleTypeOK, TypeOK
  <1>3. ConsoleTypeOK'
    BY <1>1, <1>2 DEF FrontInv, ConsoleTypeOK
  <1>4. ConsoleStages' /\ PreparedWorks' /\ DeletedInLoop' /\ OneDeletion' /\ FinishIsSeen'
    BY <1>1 DEF FrontInv, ConsoleStages, PreparedWorks, DeletedInLoop, OneDeletion, FinishIsSeen
  <1>5. QED
    BY <1>3, <1>4 DEF FrontInv

LEMMA ConvertStep ==
  ASSUME FrontInv, Convert, UNCHANGED consoleVars
  PROVE  FrontInv'
  <1>1. stage = "read" /\ text' = NullNode /\ work = {} /\ awaited = {}
    BY DEF Convert, FrontInv, PreparedWorks
  <1>2. CASE accepts(format, text)
    <2>1. /\ sources' = convert(format, text) /\ stage' = "converted" /\ coreState' = "NotStarted"
          /\ UNCHANGED <<program, format, providers, work, awaited, loop>>
          /\ UNCHANGED <<signal, hard, timeout, polled>>
      BY <1>2 DEF Convert, consoleVars
    <2>2. \A id \in DOMAIN sources' : WellFormed(sources'[id])
      BY <1>2, <2>1, ConvertedIsWellFormed DEF FrontInv, ConsoleTypeOK, TypeOK
    <2>3. TypeOK'
      BY <1>1, <2>1, <2>2 DEF FrontInv, ConsoleTypeOK, TypeOK
    <2>4. ConsoleTypeOK'
      BY <2>1, <2>3 DEF FrontInv, ConsoleTypeOK
    <2>5. ConsoleStages' /\ PreparedWorks' /\ DeletedInLoop' /\ OneDeletion' /\ FinishIsSeen'
      BY <1>1, <2>1
      DEF FrontInv, ConsoleStages, PreparedWorks, DeletedInLoop, OneDeletion, FinishIsSeen
    <2>6. QED
      BY <2>4, <2>5 DEF FrontInv
  <1>3. CASE ~accepts(format, text)
    BY <1>1, <1>3, FailStep DEF Convert
  <1>4. QED
    BY <1>2, <1>3

LEMMA PrepareStep ==
  ASSUME FrontInv, Prepare, UNCHANGED consoleVars
  PROVE  FrontInv'
  <1>1. stage = "converted" /\ text' = text /\ work = {} /\ awaited = {}
    BY DEF Prepare, FrontInv, PreparedWorks
  <1>2. CASE prepares(sources)
    <2>1. /\ providers' = providersOf(sources) /\ sources' = NoFields /\ stage' = "prepared"
          /\ UNCHANGED <<program, format, coreState, work, awaited, loop>>
          /\ UNCHANGED <<signal, hard, timeout, polled>>
      BY <1>2 DEF Prepare, consoleVars
    <2>2. \A id \in DOMAIN providers' :
            /\ providers'[id].type \in {"local", "ssh", "ssh2"}
            /\ providers'[id].commands # {}
            /\ providers'[id].host = "" => providers'[id].type = "local" \/ id = ""
      <3>1. DOMAIN providersOf(sources) = DOMAIN sources
        BY DEF providersOf
      <3>2. \A id \in DOMAIN sources : WellFormed(sources[id])
        BY DEF FrontInv, ConsoleTypeOK, TypeOK
      <3>3. QED
        BY <1>2, <2>1, <3>1, <3>2, ProvidersAreWellFormed
    <2>3. DOMAIN sources' = {}
      BY <2>1 DEF NoFields
    <2>4. work' \subseteq DOMAIN providers' /\ awaited' \subseteq DOMAIN providers'
      BY <1>1, <2>1
    <2>5. TypeOK'
      BY <1>1, <2>1, <2>2, <2>3, <2>4 DEF FrontInv, ConsoleTypeOK, TypeOK
    <2>6. ConsoleTypeOK'
      BY <2>1, <2>5 DEF FrontInv, ConsoleTypeOK
    <2>7. ConsoleStages' /\ PreparedWorks' /\ DeletedInLoop' /\ OneDeletion' /\ FinishIsSeen'
      BY <1>1, <2>1
      DEF FrontInv, ConsoleStages, PreparedWorks, DeletedInLoop, OneDeletion, FinishIsSeen
    <2>8. QED
      BY <2>6, <2>7 DEF FrontInv
  <1>3. CASE ~prepares(sources)
    BY <1>1, <1>3, FailStep DEF Prepare, FrontInv, ConsoleTypeOK, TypeOK
  <1>4. QED
    BY <1>2, <1>3

\* A start puts only providers to work, and awaits only such.
LEMMA StartedAreProviders ==
  ASSUME FrontInv, CoreStarts
  PROVE  /\ work' \subseteq DOMAIN providers /\ awaited' \subseteq DOMAIN providers
         /\ coreState' = IF providers = NoFields THEN "Finished" ELSE "Started"
  BY DEF CoreStarts, FrontInv, ConsoleTypeOK, TypeOK

\* What an event of a source does to Core.
LEMMA SourceEventDoes ==
  ASSUME FrontInv, NEW id \in work \cup awaited, SourceEvent(id)
  PROVE  /\ work' \subseteq DOMAIN providers /\ awaited' \subseteq DOMAIN providers
         /\ work # {} => work' # {} \/ coreState' = "Finished"
         /\ coreState' \in {coreState, "Finished"}
  <1>1. work \subseteq DOMAIN providers /\ awaited \subseteq DOMAIN providers
    BY DEF FrontInv, ConsoleTypeOK, TypeOK
  <1>2. CASE SourceComesUp(id)
    BY <1>1, <1>2 DEF SourceComesUp
  <1>3. CASE SourceFails(id)
    BY <1>1, <1>3 DEF SourceFails, coreAfter
  <1>4. CASE SourceEnds(id) /\ work' # {}
    BY <1>1, <1>4 DEF SourceEnds, coreAfter
  <1>5. CASE SourceEnds(id) /\ work' = {}
    BY <1>1, <1>5 DEF SourceEnds, coreAfter
  <1>6. QED
    BY <1>2, <1>3, <1>4, <1>5 DEF SourceEvent

-----------------------------------------------------------------------------
(* The console application *)

LEMMA ParseStep ==
  ASSUME FrontInv, program = "console", Parse
  PROVE  FrontInv'
  <1>1. /\ stage = "none" /\ stage' = "read" /\ text' \in Documents /\ format' \in Formats
        /\ UNCHANGED <<program, sources, providers, coreState, work, awaited, loop>>
        /\ timeout' \in {"unset", "set"}
        /\ UNCHANGED <<signal, hard, polled>>
    BY DEF Parse, Read, textFormatType, suffixOf, Formats
  <1>2. /\ loop = "none" /\ work = {} /\ awaited = {}
        /\ coreState \notin {"deleted", "corrupt"}
    BY <1>1 DEF FrontInv, ConsoleStages, PreparedWorks, DeletedInLoop
  <1>3. ConsoleTypeOK'
    BY <1>1 DEF FrontInv, ConsoleTypeOK, TypeOK
  <1>4. ConsoleStages' /\ PreparedWorks' /\ DeletedInLoop' /\ OneDeletion' /\ FinishIsSeen'
    BY <1>1, <1>2 DEF FrontInv, ConsoleStages, PreparedWorks, DeletedInLoop, OneDeletion, FinishIsSeen
  <1>5. QED
    BY <1>3, <1>4 DEF FrontInv

LEMMA StartStep ==
  ASSUME FrontInv, program = "console", Start
  PROVE  FrontInv'
  <1>1. /\ stage = "prepared" /\ UNCHANGED <<program, text, format, sources, providers>>
        /\ UNCHANGED <<signal, hard, polled>>
        /\ \/ /\ providers # NoFields /\ CoreStarts /\ stage' = "running" /\ loop' = "looping"
              /\ timeout' = IF timeout = "set" THEN "armed" ELSE timeout
           \/ /\ stage' = "failed" /\ coreState' = "none"
              /\ UNCHANGED <<work, awaited, loop, timeout>>
    BY DEF Start
  <1>2. loop = "none" /\ work = {} /\ awaited = {}
    BY <1>1 DEF FrontInv, ConsoleStages, PreparedWorks
  <1>3. /\ work' \subseteq DOMAIN providers /\ awaited' \subseteq DOMAIN providers
        /\ \/ coreState' = "Started" /\ stage' = "running" /\ loop' = "looping"
           \/ /\ coreState' = "none" /\ stage' = "failed" /\ loop' = "none"
              /\ work' = {} /\ awaited' = {}
        /\ timeout' \in {"armed", timeout}
    BY <1>1, <1>2, StartedAreProviders
  <1>4. ConsoleTypeOK'
    <2>1. TypeOK'
      BY <1>1, <1>3 DEF FrontInv, ConsoleTypeOK, TypeOK
    <2>2. QED
      BY <1>1, <1>3, <2>1 DEF FrontInv, ConsoleTypeOK
  <1>5. ConsoleStages' /\ PreparedWorks' /\ DeletedInLoop' /\ OneDeletion' /\ FinishIsSeen'
    BY <1>1, <1>3 DEF FrontInv, ConsoleStages, PreparedWorks, DeletedInLoop, OneDeletion, FinishIsSeen
  <1>6. QED
    BY <1>4, <1>5 DEF FrontInv

\* In and after its loop the console application converts and prepares nothing
\* more: what is left to show of a step there.
LEMMA LoopKeeps ==
  ASSUME FrontInv, program = "console", stage = "running",
         UNCHANGED <<program, stage, text, format, sources, providers>>,
         work' \subseteq DOMAIN providers, awaited' \subseteq DOMAIN providers,
         coreState' \in {"Started", "Finishing", "Finished", "deleted", "corrupt", coreState},
         loop' \in {"looping", "exiting", "returned", "ended"},
         {signal', hard', polled'} \subseteq BOOLEAN,
         timeout' \in {"unset", "set", "armed", "fired"}
  PROVE  ConsoleTypeOK' /\ ConsoleStages' /\ PreparedWorks'
  <1>1. TypeOK'
    BY DEF FrontInv, ConsoleTypeOK, TypeOK
  <1>2. QED
    BY <1>1 DEF FrontInv, ConsoleTypeOK, ConsoleStages, PreparedWorks

\* What a step in the loop may rely on.
LEMMA LoopTypes ==
  ASSUME FrontInv
  PROVE  /\ {signal, hard, polled} \subseteq BOOLEAN
         /\ timeout \in {"unset", "set", "armed", "fired"}
         /\ work \subseteq DOMAIN providers /\ awaited \subseteq DOMAIN providers
  BY DEF FrontInv, ConsoleTypeOK, TypeOK

\* A stop request, of the poll or of the timeout.
LEMMA StopRequest ==
  ASSUME FrontInv, program = "console", inLoop, stop,
         signal' \in BOOLEAN, polled' \in BOOLEAN, timeout' \in {timeout, "fired"},
         timeout' = "fired" \/ (~polled /\ polled')
  PROVE  FrontInv'
  <1>1. /\ UNCHANGED <<program, stage, text, format, sources, providers>>
        /\ coreState # "corrupt" /\ stage = "running"
        /\ loop \in {"looping", "exiting"}
    BY DEF stop, FrontInv, ConsoleStages, inLoop
  <1>2. CASE hardStop /\ coreState = "deleted"
    <2>1. /\ loop' = "exiting" /\ hard' = hard
          /\ coreState' = "corrupt" /\ work' = work /\ awaited' = awaited
      BY <1>2 DEF hardStop
    <2>2. loop = "exiting" /\ (polled \/ timeout = "fired")
      BY <1>1, <1>2 DEF FrontInv, DeletedInLoop
    <2>3. timeout' = "fired"
      BY <2>2
    <2>4. ConsoleTypeOK' /\ ConsoleStages' /\ PreparedWorks'
      BY <1>1, <2>1, <2>3, LoopTypes, LoopKeeps
    <2>5. DeletedInLoop' /\ OneDeletion' /\ FinishIsSeen'
      BY <1>1, <2>1, <2>3 DEF DeletedInLoop, OneDeletion, FinishIsSeen
    <2>6. QED
      BY <2>4, <2>5 DEF FrontInv
  <1>3. CASE hardStop /\ coreState # "deleted"
    <2>1. /\ loop' = "exiting" /\ hard' = hard
          /\ coreState' = "deleted" /\ work' = {} /\ awaited' = {}
      BY <1>3 DEF hardStop, CoreDeleted
    <2>2. ConsoleTypeOK' /\ ConsoleStages' /\ PreparedWorks'
      BY <1>1, <2>1, LoopTypes, LoopKeeps
    <2>3. DeletedInLoop' /\ OneDeletion' /\ FinishIsSeen'
      BY <1>1, <2>1 DEF DeletedInLoop, OneDeletion, FinishIsSeen
    <2>4. QED
      BY <2>2, <2>3 DEF FrontInv
  <1>4. CASE ~hardStop
    <2>1. /\ coreState' = coreStopped /\ hard' = TRUE /\ loop' = loopAfter(coreState')
          /\ UNCHANGED <<work, awaited>>
      BY <1>4 DEF stop
    <2>2. /\ coreState' \in {"Finishing", "Finished", coreState}
          /\ loop' \in {"exiting", loop}
          /\ coreState' = "Finished" => loop' = "exiting"
          /\ coreState' \in {"deleted", "corrupt"} => coreState' = coreState
          /\ coreState \in {"Started", "Finishing"} /\ loop' = "looping"
               => coreState' = "Finishing" /\ work # {}
      BY <2>1 DEF coreStopped, loopAfter
    <2>3. ConsoleTypeOK' /\ ConsoleStages' /\ PreparedWorks'
      BY <1>1, <2>1, <2>2, LoopTypes, LoopKeeps
    <2>4. DeletedInLoop' /\ OneDeletion'
      BY <1>1, <2>1, <2>2 DEF FrontInv, DeletedInLoop, OneDeletion
    <2>5. FinishIsSeen'
      BY <1>1, <2>1, <2>2 DEF FrontInv, FinishIsSeen
    <2>6. QED
      BY <2>3, <2>4, <2>5 DEF FrontInv
  <1>5. QED
    BY <1>2, <1>3, <1>4

LEMMA CtrlCStep ==
  ASSUME FrontInv, program = "console", CtrlC \/ NewPass
  PROVE  FrontInv'
  <1>1. /\ UNCHANGED sharedVars /\ UNCHANGED <<hard, timeout>>
        /\ signal' \in BOOLEAN /\ polled' \in BOOLEAN
        /\ polled' = polled \/ loop = "looping"
        /\ loop \in {"looping", "exiting", "returned"}
    BY LoopTypes DEF CtrlC, NewPass, inLoop
  <1>2. UNCHANGED <<program, stage, text, format, sources, providers, coreState, work, awaited, loop>>
    BY <1>1 DEF sharedVars
  <1>3. stage = "running"
    BY <1>1 DEF FrontInv, ConsoleStages
  <1>4. ConsoleTypeOK' /\ ConsoleStages' /\ PreparedWorks'
    BY <1>1, <1>2, <1>3, LoopTypes, LoopKeeps
  <1>5. DeletedInLoop' /\ OneDeletion' /\ FinishIsSeen'
    BY <1>1, <1>2 DEF FrontInv, DeletedInLoop, OneDeletion, FinishIsSeen
  <1>6. QED
    BY <1>4, <1>5 DEF FrontInv

LEMMA SourceEventStep ==
  ASSUME FrontInv, program = "console", NEW id \in work \cup awaited, ConsoleSourceEvent(id)
  PROVE  FrontInv'
  <1>1. /\ UNCHANGED <<program, stage, text, format, sources, providers>>
        /\ UNCHANGED <<signal, hard, timeout, polled>>
        /\ SourceEvent(id) /\ loop' = loopAfter(coreState')
        /\ loop \in {"looping", "exiting"}
    BY DEF ConsoleSourceEvent, consoleVars, inLoop
  <1>2. /\ stage = "running" /\ loop' \in {loop, "exiting"}
        /\ coreState' = "Finished" => loop' = "exiting"
    BY <1>1 DEF FrontInv, ConsoleStages, loopAfter
  <1>3. /\ work' \subseteq DOMAIN providers /\ awaited' \subseteq DOMAIN providers
        /\ work # {} => work' # {} \/ coreState' = "Finished"
        /\ coreState' \in {coreState, "Finished"}
    BY <1>1, SourceEventDoes
  <1>4. ConsoleTypeOK' /\ ConsoleStages' /\ PreparedWorks'
    BY <1>1, <1>2, <1>3, LoopTypes, LoopKeeps
  <1>5. DeletedInLoop' /\ OneDeletion'
    BY <1>1, <1>2, <1>3 DEF FrontInv, DeletedInLoop, OneDeletion
  <1>6. FinishIsSeen'
    BY <1>1, <1>2, <1>3 DEF FrontInv, FinishIsSeen
  <1>7. QED
    BY <1>4, <1>5, <1>6 DEF FrontInv

\* After the loop.
LEMMA ReturnStep ==
  ASSUME FrontInv, program = "console", LoopReturns \/ ProgramEnds
  PROVE  FrontInv'
  <1>1. /\ \/ /\ loop = "exiting" /\ loop' = "returned"
              /\ UNCHANGED <<coreState, work, awaited>>
           \/ /\ loop = "returned" /\ loop' = "ended" /\ work' = {} /\ awaited' = {}
              /\ coreState' = IF coreState = "corrupt" THEN coreState ELSE "deleted"
        /\ UNCHANGED <<program, stage, text, format, sources, providers>>
        /\ UNCHANGED <<signal, hard, timeout, polled>>
    BY DEF LoopReturns, ProgramEnds, consoleVars
  <1>2. stage = "running"
    BY <1>1 DEF FrontInv, ConsoleStages
  <1>3. ConsoleTypeOK' /\ ConsoleStages' /\ PreparedWorks'
    BY <1>1, <1>2, LoopTypes, LoopKeeps
  <1>4. DeletedInLoop' /\ OneDeletion' /\ FinishIsSeen'
    BY <1>1 DEF FrontInv, DeletedInLoop, OneDeletion, FinishIsSeen
  <1>5. QED
    BY <1>3, <1>4 DEF FrontInv

LEMMA ConsoleStep ==
  ASSUME FrontInv, ConsoleNext
  PROVE  FrontInv'
  <1>1. program = "console"
    BY DEF ConsoleNext
  <1>2. CASE Parse
    BY <1>1, <1>2, ParseStep
  <1>3. CASE ParseFails
    <2>1. stage = "none" /\ Fail /\ text' = text /\ UNCHANGED consoleVars
      BY <1>3 DEF ParseFails
    <2>2. work = {} /\ awaited = {} /\ text \in Documents \cup {NullNode}
      BY <2>1 DEF FrontInv, PreparedWorks, ConsoleTypeOK, TypeOK
    <2>3. QED
      BY <2>1, <2>2, FailStep
  <1>4. CASE (Convert \/ Prepare) /\ UNCHANGED consoleVars
    BY <1>4, ConvertStep, PrepareStep
  <1>5. CASE Start
    BY <1>1, <1>5, StartStep
  <1>6. CASE CheckSignalStatus
    <2>1. /\ inLoop /\ stop /\ ~polled /\ polled' = TRUE /\ signal' = FALSE /\ timeout' = timeout
      BY <1>6 DEF CheckSignalStatus
    <2>2. QED
      BY <1>1, <2>1, StopRequest
  <1>7. CASE Timeout
    <2>1. inLoop /\ stop /\ timeout' = "fired" /\ polled' = polled /\ signal' = signal
      BY <1>7 DEF Timeout
    <2>2. QED
      BY <1>1, <2>1, StopRequest, LoopTypes
  <1>8. CASE CtrlC \/ NewPass
    BY <1>1, <1>8, CtrlCStep
  <1>9. CASE \E id \in work \cup awaited : ConsoleSourceEvent(id)
    BY <1>1, <1>9, SourceEventStep
  <1>10. CASE LoopReturns \/ ProgramEnds
    BY <1>1, <1>10, ReturnStep
  <1>11. QED
    BY <1>2, <1>3, <1>4, <1>5, <1>6, <1>7, <1>8, <1>9, <1>10 DEF ConsoleNext

-----------------------------------------------------------------------------
(* The program that uses the C interface *)

\* What is left to show of a step that leaves the documents alone.
LEMMA CallKeeps ==
  ASSUME FrontInv, program = "c", UNCHANGED consoleVars,
         UNCHANGED <<program, text, format, sources>>,
         providers' \in {providers, NoFields},
         stage' \in {"none", "prepared", stage},
         coreState' \in {"none", "Started", "Finishing", "Finished", coreState},
         loop' \in {"made", "looping", "exiting", "ended", loop},
         work' \subseteq DOMAIN providers', awaited' \subseteq DOMAIN providers',
         work' \cup awaited' # {} => stage' = "prepared"
  PROVE  FrontInv'
  <1>1. UNCHANGED <<signal, hard, timeout, polled>>
    BY DEF consoleVars
  <1>2. TypeOK'
    <2>1. TypeOK
      BY DEF FrontInv, ConsoleTypeOK
    <2>2. /\ program' = program /\ text' = text /\ format' = format /\ sources' = sources
          /\ providers' \in {providers, NoFields} /\ sources' \in {sources, NoFields}
      OBVIOUS
    <2>3. /\ program' \in {"console", "c"} /\ text' \in Documents \cup {NullNode}
          /\ format' \in Formats
      BY <2>1, <2>2 DEF TypeOK
    <2>4. stage' \in {"none", "read", "converted", "prepared", "running", "failed"}
      BY <2>1 DEF TypeOK
    <2>5. coreState' \in {"none", "NotStarted", "Started", "Finishing", "Finished",
                          "deleted", "corrupt"}
      BY <2>1 DEF TypeOK
    <2>6. loop' \in {"none", "made", "looping", "exiting", "returned", "ended"}
      BY <2>1 DEF TypeOK
    <2>7. /\ \A id \in DOMAIN sources' : WellFormed(sources'[id])
          /\ \A id \in DOMAIN providers' :
               /\ providers'[id].type \in {"local", "ssh", "ssh2"}
               /\ providers'[id].commands # {}
               /\ providers'[id].host = "" => providers'[id].type = "local" \/ id = ""
      BY <2>1, <2>2, TypesKept
    <2>8. QED
      BY <2>3, <2>4, <2>5, <2>6, <2>7 DEF TypeOK, WellFormed
  <1>3. ConsoleTypeOK'
    BY <1>1, <1>2 DEF FrontInv, ConsoleTypeOK
  <1>4. ConsoleStages' /\ PreparedWorks' /\ FinishIsSeen'
    BY DEF ConsoleStages, PreparedWorks, FinishIsSeen
  <1>5. DeletedInLoop' /\ OneDeletion'
    BY DEF FrontInv, DeletedInLoop, OneDeletion
  <1>6. QED
    BY <1>3, <1>4, <1>5 DEF FrontInv

LEMMA CStep ==
  ASSUME FrontInv, CNext, UNCHANGED consoleVars
  PROVE  FrontInv'
  <1>1. program = "c"
    BY DEF CNext
  <1>2. /\ work \subseteq DOMAIN providers /\ awaited \subseteq DOMAIN providers
        /\ work \cup awaited # {} => stage = "prepared"
    BY <1>1 DEF FrontInv, PreparedWorks, ConsoleTypeOK, TypeOK
  <1>3. CASE libdaggy_app_create \/ libdaggy_app_exec \/ libdaggy_app_stop
    <2>1. /\ UNCHANGED <<program, stage, text, format, sources, providers, coreState, work, awaited>>
          /\ loop' \in {"made", "looping", "exiting"}
      BY <1>3 DEF libdaggy_app_create, libdaggy_app_exec, libdaggy_app_stop
    <2>2. QED
      BY <1>1, <1>2, <2>1, CallKeeps
  <1>4. CASE libdaggy_core_create
    <2>1. /\ stage = "none" /\ loop \in {"made", "looping"}
          /\ stage' = "read" /\ text' \in Documents /\ format' \in Formats
          /\ UNCHANGED <<program, sources, providers, coreState, work, awaited, loop>>
          /\ UNCHANGED <<signal, hard, timeout, polled>>
      BY <1>4 DEF libdaggy_core_create, Read, consoleVars
    <2>2. work = {} /\ awaited = {}
      BY <1>2, <2>1
    <2>3. ConsoleTypeOK'
      BY <2>1 DEF FrontInv, ConsoleTypeOK, TypeOK
    <2>4. ConsoleStages' /\ PreparedWorks' /\ FinishIsSeen' /\ DeletedInLoop' /\ OneDeletion'
      BY <1>1, <2>1, <2>2
      DEF FrontInv, ConsoleStages, PreparedWorks, FinishIsSeen, DeletedInLoop, OneDeletion
    <2>5. QED
      BY <2>3, <2>4 DEF FrontInv
  <1>5. CASE Convert \/ Prepare
    BY <1>5, ConvertStep, PrepareStep
  <1>6. CASE libdaggy_core_start
    <2>1. /\ stage = "prepared" /\ CoreStarts
          /\ UNCHANGED <<program, stage, text, format, sources, providers, loop>>
      BY <1>6 DEF libdaggy_core_start, given
    <2>2. QED
      BY <1>1, <2>1, StartedAreProviders, CallKeeps
  <1>7. CASE libdaggy_core_stop \/ ExecReturns
    <2>1. /\ coreState' \in {"Finishing", "Finished", coreState} /\ loop' \in {loop, "ended"}
          /\ UNCHANGED <<program, stage, text, format, sources, providers, work, awaited>>
      BY <1>7 DEF libdaggy_core_stop, ExecReturns, coreStopped
    <2>2. QED
      BY <1>1, <1>2, <2>1, CallKeeps
  <1>8. CASE libdaggy_core_destroy
    <2>1. /\ coreState' = "none" /\ work' = {} /\ awaited' = {}
          /\ providers' = NoFields /\ stage' = "none"
          /\ UNCHANGED <<program, text, format, sources, loop>>
      BY <1>8 DEF libdaggy_core_destroy
    <2>2. QED
      BY <1>1, <2>1, CallKeeps
  <1>9. CASE CSourceEvent
    <2>1. PICK id \in work \cup awaited : SourceEvent(id)
      BY <1>9 DEF CSourceEvent
    <2>2. /\ UNCHANGED <<program, stage, text, format, sources, providers, loop>>
          /\ stage = "prepared"
      BY <1>2, <1>9 DEF CSourceEvent
    <2>3. QED
      BY <1>1, <2>1, <2>2, SourceEventDoes, CallKeeps
  <1>10. QED
    BY <1>3, <1>4, <1>5, <1>6, <1>7, <1>8, <1>9 DEF CNext

-----------------------------------------------------------------------------
(* The invariant *)

LEMMA InitFrontInv ==
  ASSUME FrontInit
  PROVE  FrontInv
  <1>1. /\ program \in {"console", "c"} /\ stage = "none" /\ text = NullNode /\ format = "json"
        /\ sources = NoFields /\ providers = NoFields /\ coreState = "none"
        /\ work = {} /\ awaited = {} /\ loop = "none"
        /\ signal = FALSE /\ hard = FALSE /\ polled = FALSE /\ timeout = "unset"
    BY DEF FrontInit, SharedInit, ConsoleInit
  <1>2. DOMAIN NoFields = {}
    BY DEF NoFields
  <1>3. TypeOK
    BY <1>1, <1>2 DEF TypeOK, Formats
  <1>4. ConsoleTypeOK
    BY <1>1, <1>3 DEF ConsoleTypeOK
  <1>5. ConsoleStages /\ PreparedWorks /\ DeletedInLoop /\ OneDeletion /\ FinishIsSeen
    BY <1>1 DEF ConsoleStages, PreparedWorks, DeletedInLoop, OneDeletion, FinishIsSeen
  <1>6. QED
    BY <1>4, <1>5 DEF FrontInv

LEMMA FrontPreservation ==
  ASSUME FrontInv, [FrontNext]_frontVars
  PROVE  FrontInv'
  <1>1. CASE ConsoleNext
    BY <1>1, ConsoleStep
  <1>2. CASE CNext /\ UNCHANGED consoleVars
    BY <1>2, CStep
  <1>3. CASE UNCHANGED frontVars
    <2>1. /\ UNCHANGED <<program, stage, text, format, sources, providers, coreState, work, awaited, loop>>
          /\ UNCHANGED <<signal, hard, timeout, polled>>
      BY <1>3 DEF frontVars, sharedVars, consoleVars
    <2>2. TypeOK'
      BY <2>1 DEF FrontInv, ConsoleTypeOK, TypeOK, WellFormed
    <2>3. ConsoleTypeOK'
      BY <2>1, <2>2 DEF FrontInv, ConsoleTypeOK
    <2>4. ConsoleStages' /\ PreparedWorks' /\ DeletedInLoop' /\ OneDeletion' /\ FinishIsSeen'
      BY <2>1 DEF FrontInv, ConsoleStages, PreparedWorks, DeletedInLoop, OneDeletion, FinishIsSeen
    <2>5. QED
      BY <2>3, <2>4 DEF FrontInv
  <1>4. QED
    BY <1>1, <1>2, <1>3 DEF FrontNext

\* FrontInv is an invariant of either program.
THEOREM FrontInvariance == FrontSpec => []FrontInv
  <1>1. FrontInit => FrontInv
    BY InitFrontInv
  <1>2. FrontInv /\ [FrontNext]_frontVars => FrontInv'
    BY FrontPreservation
  <1>3. QED
    BY <1>1, <1>2, PTL DEF FrontSpec

\* The variables keep their types: what a convertor accepts has commands, what a
\* fabric makes has a type, commands and a host, and only providers work.
THEOREM FrontTypeCorrect == FrontSpec => []ConsoleTypeOK
  <1>1. FrontInv => ConsoleTypeOK
    BY DEF FrontInv
  <1>2. QED
    BY <1>1, FrontInvariance, PTL

\* The console application never loops beyond the end of its Core, nor beside one
\* that waits for nobody.
THEOREM FinishIsAlwaysSeen == FrontSpec => []FinishIsSeen
  <1>1. FrontInv => FinishIsSeen
    BY DEF FrontInv
  <1>2. QED
    BY <1>1, FrontInvariance, PTL

\* Stop requests, however they come, delete Core twice only with a timeout among them.
THEOREM CoreIsDeletedOnce == FrontSpec => []OneDeletion
  <1>1. FrontInv => OneDeletion
    BY DEF FrontInv
  <1>2. QED
    BY <1>1, FrontInvariance, PTL
=============================================================================
