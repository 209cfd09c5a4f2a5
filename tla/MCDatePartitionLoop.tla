------------------------- MODULE MCDatePartitionLoop -------------------------
(***************************************************************************)
(* A calendar of days three units long, so that 24 hours are three units,  *)
(* in which the day that starts at 3 is one unit short, as when a zone     *)
(* moves to summer time.                                                   *)
(***************************************************************************)
EXTENDS DatePartitionLoop

ShortDayMidnights == {-6, -3, 0, 3, 5, 8, 11}
=============================================================================
