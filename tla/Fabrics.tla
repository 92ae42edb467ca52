------------------------------ MODULE Fabrics ------------------------------
(***************************************************************************)
(* What Core::prepare makes of the sources: each is given to the fabric of *)
(* its type, which converts the parameters into the provider's settings.   *)
(* All sources get a provider, or none does.                               *)
(***************************************************************************)
EXTENDS Sources

\* The fields each fabric looks for, and the metaType it asks for.
sshFields == [f \in {"config", "passphrase", "control"} |-> "QString"]
ssh2Fields ==
  [f \in {"user", "port", "passphrase", "key", "keyphrase", "knownhosts", "timeout"} |->
     IF f \in {"port", "timeout"} THEN "UInt" ELSE "QString"]

parametersAccepted(fields, m) ==
  \A f \in DOMAIN fields \cap DOMAIN m : m[f].type = fields[f]

\* A field that is absent has a default of the fabric or of Ssh2Settings.
settings(fields, m) ==
  [f \in DOMAIN fields |-> IF has(m, f) THEN m[f].text ELSE "default"]

\* Core finds a fabric for the type, and the fabric returns a provider.
fabricCreates(source) ==
  \/ source.type = "local"
  \/ source.type = "ssh" /\ parametersAccepted(sshFields, source.parameters)
  \/ source.type = "ssh2" /\ parametersAccepted(ssh2Fields, source.parameters)

sshHost(id, source) == IF source.host = "" THEN id ELSE source.host
ssh2Host(source) == IF source.host = "" THEN "localhost" ELSE source.host

sshSettings(m) == settings(sshFields, m)
ssh2Settings(m) == settings(ssh2Fields, m)

\* reconnect stays with Core, which keeps the sources.
createProvider(id, source) ==
  [type     |-> source.type,
   commands |-> DOMAIN source.commands,
   reconnect |-> source.reconnect,
   host     |-> CASE source.type = "local" -> ""
                  [] source.type = "ssh"   -> sshHost(id, source)
                  [] source.type = "ssh2"  -> ssh2Host(source),
   settings |-> CASE source.type = "local" -> NoFields
                  [] source.type = "ssh"   -> sshSettings(source.parameters)
                  [] source.type = "ssh2"  -> ssh2Settings(source.parameters)]

prepares(sources) == \A id \in DOMAIN sources : fabricCreates(sources[id])
providersOf(sources) == [id \in DOMAIN sources |-> createProvider(id, sources[id])]
=============================================================================
