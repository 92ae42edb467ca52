---------------------------- MODULE MCLocalDaggy ----------------------------
(***************************************************************************)
(* Three local sources with a command each: a plain one, one whose source  *)
(* has reconnect, and one with restart; or two sources, one of which has   *)
(* both a plain command and one with restart.                              *)
(***************************************************************************)
EXTENDS LocalDaggy

CONSTANTS p1, p2, p3, a, b, r

MCProviders == {p1, p2, p3}
MCCommands == {a, b, r}
MCOwner == [c \in MCCommands |-> IF c = a THEN p1 ELSE IF c = b THEN p2 ELSE p3]

MCTwoProviders == {p1, p2}
MCTwoOwner == [c \in MCCommands |-> IF c = a THEN p1 ELSE p2]
=============================================================================
