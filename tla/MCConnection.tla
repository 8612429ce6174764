---------------------------- MODULE MCConnection ----------------------------
(***************************************************************************)
(* The connection pipeline on a few streams.  One CONNECT is of the        *)
(* server's version, one of another and one is rejected.                   *)
(***************************************************************************)
EXTENDS Connection, TLC

CONSTANTS hello, stale, denied

MCVersion == [f \in {hello, stale, denied} |-> IF f = stale THEN 2 ELSE 1]

Interchangeable == Permutations(Stream)

=============================================================================
