--------------------------- MODULE DatePartitioner ---------------------------
(***************************************************************************)
(* The partition list of src/datasync/chunk/partitioner.go as a function   *)
(* of the instant: the loop of Partitions in closed form.  DatePartition-  *)
(* Loop runs the loop itself and checks that the two agree.                *)
(***************************************************************************)
LOCAL INSTANCE Integers
LOCAL INSTANCE FiniteSetsExt

CONSTANT Midnights   \* the instants at which a calendar day begins in Loc

AlignToMidnight(t) == Max({m \in Midnights : m <= t})

WindowUnaligned(n, lookBack) == n - lookBack

(* The window starts at the midnight before n - lookBack. *)
WindowStart(n, lookBack) == AlignToMidnight(n - lookBack)

(* end.After(now): the last partition ends at n. *)
EndClamped(end, n) == IF end > n THEN n ELSE end

(* Iteration i of the loop emits [cur, cur + chunk), clamped. *)
DatePartitions(n, lookBack, chunk) ==
  LET start == WindowStart(n, lookBack)
      count == (n - start + chunk - 1) \div chunk
  IN  [i \in 1 .. count |->
         [start |-> start + (i - 1) * chunk, end |-> EndClamped(start + i * chunk, n)]]
=============================================================================
