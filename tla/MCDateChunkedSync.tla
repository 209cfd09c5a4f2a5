-------------------------- MODULE MCDateChunkedSync --------------------------
(* Days of two instants, in UTC.                                           *)
EXTENDS DateChunkedSync

UtcMidnights == {2 * d : d \in -2 .. 3}
=============================================================================
