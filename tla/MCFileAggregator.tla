-------------------------- MODULE MCFileAggregator --------------------------
(***************************************************************************)
(* Three streams: two commands' standard output, which go to a file each,  *)
(* and one whose file name is that of the first.                           *)
(***************************************************************************)
EXTENDS FileAggregator

CONSTANTS s1, s2, s3, f1, f2

MCStreams == {s1, s2, s3}
MCFileOf == [s \in MCStreams |-> IF s = s2 THEN f2 ELSE f1]
MCTwoStreams == {s1, s2}
MCTwoFileOf == [s \in MCTwoStreams |-> IF s = s2 THEN f2 ELSE f1]
=============================================================================
