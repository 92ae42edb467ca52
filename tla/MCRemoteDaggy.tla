--------------------------- MODULE MCRemoteDaggy ---------------------------
(***************************************************************************)
(* Two ssh2 sources: one with a plain command and one with restart, one    *)
(* with a plain command and reconnect; or one source with two commands.     *)
(***************************************************************************)
EXTENDS RemoteDaggy

CONSTANTS p1, p2, a, b, r

MCProviders == {p1, p2}
MCCommands == {a, b, r}
MCOneProvider == {p1}
MCPlain == {a, b}
MCPlainOwner == [c \in MCPlain |-> p1]
MCWithRestart == {a, r}
MCWithRestartOwner == [c \in MCWithRestart |-> p1]
MCOwner == [c \in MCCommands |-> IF c = b THEN p2 ELSE p1]
=============================================================================
