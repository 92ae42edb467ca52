----------------------------- MODULE FrontEnds -----------------------------
(***************************************************************************)
(* Either program, given any document in either format.                    *)
(***************************************************************************)
EXTENDS ConsoleDaggy, CInterface

frontVars == <<sharedVars, consoleVars>>

FrontInit == SharedInit /\ ConsoleInit

FrontNext == ConsoleNext \/ (CNext /\ UNCHANGED consoleVars)

FrontSpec == FrontInit /\ [][FrontNext]_frontVars /\ ConsoleFairness

-----------------------------------------------------------------------------
(* Properties *)

\* No quoted text that YAML takes for something else.
quotesWords[n \in Nodes] ==
  /\ n.kind = "map" => \A k \in DOMAIN n.at : quotesWords[n.at[k]]
  /\ n.kind = "scalar" /\ n.quoted
       => n.text \notin TrueTexts \cup FalseTexts \cup IntegerTexts \cup {""}

quotes(m, field, texts) ==
  has(m, field) /\ isScalar(m[field]) /\ m[field].quoted /\ m[field].text \in texts

sameParameters(m, j, y) ==
  (has(m, "parameters") => quotesWords[m["parameters"]]) => j.parameters = y.parameters

\* A command with the fields m, converted as JSON and as YAML.
sameCommand(m, j, y) ==
  /\ j.exec = y.exec /\ j.extension = y.extension
  /\ j.restart # y.restart <=> quotes(m, "restart", TrueTexts \cup {""})
  /\ sameParameters(m, j, y)

\* A source with the fields m.
sameSource(m, j, y) ==
  /\ j.type = y.type /\ j.host = y.host
  /\ j.reconnect # y.reconnect <=> quotes(m, "reconnect", NoTexts \ {"false"})
  /\ sameParameters(m, j, y)
  /\ DOMAIN j.commands = DOMAIN y.commands
  /\ \A id \in DOMAIN y.commands :
       sameCommand(m["commands"].at[id].at, j.commands[id], y.commands[id])

\* A document that both convertors accept gives the same sources, to the last
\* field, but for quoted texts that YAML does not take for texts: a quoted "true"
\* or "" restarts a command in YAML only, a quoted "no" reconnects a source in JSON
\* only, and parameters that quote such a text have other types.
FormatsAgree ==
  (text # NullNode /\ jsonAccepts(text) /\ yamlAccepts(text))
    => LET m == text.at["sources"].at IN
       /\ DOMAIN json(text) = DOMAIN m /\ DOMAIN yaml(text) = DOMAIN m
       /\ \A id \in DOMAIN m : sameSource(m[id].at, json(text)[id], yaml(text)[id])
=============================================================================
