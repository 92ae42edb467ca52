----------------------------- MODULE MCSshDaggy -----------------------------
(***************************************************************************)
(* Two ssh sources of one host, one with a plain command and reconnect and *)
(* one with a command to restart; a third names a control path of its own. *)
(***************************************************************************)
EXTENDS SshDaggy

CONSTANTS p1, p2, p3, a, b, r, h1, h2

MCProviders == {p1, p2, p3}
MCCommands == {a, b, r}
MCOwner == [c \in MCCommands |-> IF c = a THEN p1 ELSE IF c = r THEN p2 ELSE p3]
MCHost == [p \in MCProviders |-> IF p = p3 THEN h2 ELSE h1]
=============================================================================
