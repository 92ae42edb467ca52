------------------------------ MODULE Programs ------------------------------
(***************************************************************************)
(* A program that owns one Core: the console application (ConsoleDaggy) or *)
(* one written against the C interface (CInterface).  This module holds    *)
(* what the two share: a document becomes sources, sources become the      *)
(* providers of a Core, and the Core is started, stopped and deleted by    *)
(* calls and events of one thread.  Of a source it has what Core looks at: *)
(* whether it is active.  A local source is so from start() until it ends; *)
(* one with a connection to make is awaited first, and may not come.       *)
(***************************************************************************)
EXTENDS Naturals, Fabrics

CONSTANT Documents   \* the documents a program may be given

ASSUME DocumentsAssumption ==
  Documents # {} /\ Documents \subseteq Nodes /\ NullNode \notin Documents

VARIABLES
  program,     \* "console" or "c"
  stage,       \* how far the making of the Core has come
  text,        \* the document that is being converted
  format,      \* as what
  sources,     \* the result, until prepare has used it
  providers,   \* the providers of the Core, by source
  coreState,   \* Core::state_; "none", or "deleted", or "corrupt" if deleted twice
  work,        \* the active sources
  awaited,     \* the sources that a connection or a check may still make active
  loop         \* where QCoreApplication::exec is

sharedVars == <<program, stage, text, format, sources, providers, coreState, work, awaited, loop>>

Formats == {"json", "yaml"}

\* Whatever was accepted has commands, so that every source has work to do.
WellFormed(source) ==
  /\ DOMAIN source.commands # {}
  /\ \A id \in DOMAIN source.commands : source.commands[id].restart \in BOOLEAN
  /\ source.reconnect \in BOOLEAN

TypeOK ==
  /\ program \in {"console", "c"}
  /\ stage \in {"none", "read", "converted", "prepared", "running", "failed"}
  /\ text \in Documents \cup {NullNode}
  /\ format \in Formats
  /\ \A id \in DOMAIN sources : WellFormed(sources[id])
  /\ \A id \in DOMAIN providers :
       /\ providers[id].type \in {"local", "ssh", "ssh2"}
       /\ providers[id].commands # {}
       /\ providers[id].host = "" => providers[id].type = "local" \/ id = ""
  /\ coreState \in {"none", "NotStarted", "Started", "Finishing", "Finished",
                    "deleted", "corrupt"}
  /\ work \subseteq DOMAIN providers /\ awaited \subseteq DOMAIN providers
  /\ loop \in {"none", "made", "looping", "exiting", "returned", "ended"}

SharedInit ==
  /\ program \in {"console", "c"}
  /\ stage = "none"
  /\ text = NullNode /\ format = "json"
  /\ sources = NoFields /\ providers = NoFields
  /\ coreState = "none" /\ work = {} /\ awaited = {}
  /\ loop = "none"

-----------------------------------------------------------------------------

\* A text arrives at a convertor.
Read(f) ==
  /\ stage' = "read"
  /\ text' \in Documents
  /\ format' = f
  /\ UNCHANGED <<program, sources, providers, coreState, work, awaited, loop>>

\* An exception: main ends with it, and safe_call makes it an error code.
Fail ==
  /\ stage' = IF program = "console" THEN "failed" ELSE "none"
  /\ sources' = NoFields
  /\ coreState' = "none"
  /\ UNCHANGED <<program, format, providers, work, awaited, loop>>

\* The convertors that throw what the others return as an error.
Convert ==
  /\ stage = "read"
  /\ text' = NullNode
  /\ \/ /\ accepts(format, text)
        /\ sources' = convert(format, text)
        /\ stage' = "converted"
        /\ coreState' = "NotStarted"
        /\ UNCHANGED <<program, format, providers, work, awaited, loop>>
     \/ /\ ~accepts(format, text)
        /\ Fail

\* Core::prepare.  The Core of a C program that fails here is never deleted;
\* it has no provider, and nobody can name it.
Prepare ==
  /\ stage = "converted"
  /\ UNCHANGED text
  /\ \/ /\ prepares(sources)
        /\ providers' = providersOf(sources)
        /\ sources' = NoFields
        /\ stage' = "prepared"
        /\ UNCHANGED <<program, format, coreState, work, awaited, loop>>
     \/ /\ ~prepares(sources)
        /\ Fail

-----------------------------------------------------------------------------

isLocal(id) == providers[id].type = "local"

\* An ssh source that names a control path has no master to wait for.
connects(id) ==
  \/ providers[id].type = "ssh2"
  \/ providers[id].type = "ssh" /\ providers[id].settings["control"] \in {"default", ""}

startable == coreState \in {"NotStarted", "Finished"}

\* Mutant of coreAfter: the last source that ends is not noticed.
coreStays(active) == coreState

\* The last test of onDataProviderStateChanged.
coreAfter(active) == IF active = {} THEN "Finished" ELSE coreState

\* Core::start; with no provider it reports Finished, and returns an error.  A
\* master that cannot be executed is not awaited.
CoreStarts ==
  /\ coreState' = IF providers = NoFields THEN "Finished" ELSE "Started"
  /\ work' = work \cup {id \in DOMAIN providers : isLocal(id)}
  /\ \E failed \in SUBSET {id \in DOMAIN providers : providers[id].type = "ssh"} :
       awaited' = awaited \cup {id \in DOMAIN providers \ (work \cup failed) : connects(id)}

\* Core::stop.  It ends no connection that is being made.
coreStopped ==
  IF coreState \in {"Started", "Finishing"}
  THEN IF work = {} THEN "Finished" ELSE "Finishing"
  ELSE coreState

\* A connection or a check gets on.  A second check timer, or the timeout of a
\* connection, may have something to say yet.
SourceComesUp(id) ==
  /\ id \in awaited
  /\ work' = work \cup {id}
  /\ awaited' \in {awaited, awaited \ {id}}
  /\ UNCHANGED coreState

\* A connection fails before it is anything to Core.
SourceFails(id) ==
  /\ id \in awaited \ work /\ providers[id].type = "ssh2"
  /\ awaited' \in {awaited, awaited \ {id}}
  /\ coreState' = coreAfter(work)
  /\ UNCHANGED work

\* The last source that ends makes Core report Finished.  One to reconnect is
\* started again: a local one is active at once, one over ssh2 awaited, and an
\* ssh one has its master already.
SourceEnds(id) ==
  LET again == coreState = "Started" /\ providers[id].reconnect IN
  /\ id \in work
  /\ ~(again /\ isLocal(id))
  /\ work' = work \ {id}
  /\ awaited' \in IF again /\ providers[id].type = "ssh2" THEN {awaited, awaited \cup {id}}
                   ELSE {awaited}
  /\ coreState' = coreAfter(work')

\* An event of a source, in the loop.
SourceEvent(id) == SourceComesUp(id) \/ SourceFails(id) \/ SourceEnds(id)

\* delete core: every source is killed and waited for.
CoreDeleted ==
  /\ work' = {} /\ awaited' = {}
  /\ coreState' = "deleted"
=============================================================================
