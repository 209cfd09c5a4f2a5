-------------------------- MODULE DatePartitionLoop --------------------------
(***************************************************************************)
(* DatePartitioner.Partitions (src/datasync/chunk/partitioner.go:48-78),   *)
(* one iteration of its loop per step, for every instant, window and chunk *)
(* size of a small range.                                                  *)
(***************************************************************************)
EXTENDS Integers, Sequences, FiniteSetsExt, DatePartitioner

CONSTANTS
  MaxNow,    \* bound: the latest instant asked about
  MaxLen,    \* bound: the longest LookBack and ChunkSize, 0 being rejected
  DayLength  \* 24 hours

ASSUME BoundsAssumption ==
  /\ MaxNow \in Nat
  /\ MaxLen \in Nat
  /\ DayLength \in Int

(* A calendar has a day for every instant that a window can start at.      *)
ASSUME CalendarAssumption ==
  /\ Midnights \subseteq Int
  /\ \E m \in Midnights : m <= -MaxLen

VARIABLES
  n,         \* now, read once at the start
  lookBack,
  chunk,
  cur,       \* the loop variable
  out,       \* the list built so far
  outcome    \* "running", "listed" or "rejected"

vars == <<n, lookBack, chunk, cur, out, outcome>>

TypeOK ==
  /\ n \in 0 .. MaxNow
  /\ lookBack \in 0 .. MaxLen /\ chunk \in 0 .. MaxLen
  /\ cur \in Int
  /\ out \in Seq([start : Int, end : Int])
  /\ outcome \in {"running", "listed", "rejected"}
  /\ outcome # "rejected" => lookBack > 0 /\ chunk > 0

(* Both lengths must be positive, or an error is returned.                 *)
Valid == lookBack > 0 /\ chunk > 0

Init ==
  /\ n \in 0 .. MaxNow
  /\ lookBack \in 0 .. MaxLen
  /\ chunk \in 0 .. MaxLen
  /\ cur = WindowStart(n, lookBack)
  /\ out = <<>>
  /\ outcome = IF Valid THEN "running" ELSE "rejected"

ClampMissing(end) == end

Clamp(end) == IF end > n THEN n ELSE end

Emit ==
  /\ outcome = "running"
  /\ cur < n
  /\ out' = Append(out, [start |-> cur, end |-> Clamp(cur + chunk)])
  /\ cur' = cur + chunk
  /\ UNCHANGED <<n, lookBack, chunk, outcome>>

LoopMayEndEarly == cur + chunk >= n

LoopEnds == cur >= n

Return ==
  /\ outcome = "running"
  /\ LoopEnds
  /\ outcome' = "listed"
  /\ UNCHANGED <<n, lookBack, chunk, cur, out>>

Next == Emit \/ Return

Spec == Init /\ [][Next]_vars /\ WF_vars(Next)
-----------------------------------------------------------------------------
(* The list tiles [window start, n): no gap, no overlap, no empty range,   *)
(* nothing beyond the present, and all of [n - LookBack, n) is in it       *)
(* ("covering [now-LookBack, now)", partitioner.go:22).                    *)
Tiles ==
  outcome = "listed" =>
    /\ \A i \in DOMAIN out : out[i].start < out[i].end
    /\ \A i \in 1 .. Len(out) - 1 : out[i].end = out[i + 1].start
    /\ out # <<>> /\ out[1].start <= n - lookBack /\ out[Len(out)].end = n

(* The closed form that DateChunkedSync uses is what the loop returns.     *)
ClosedForm == outcome = "listed" => out = DatePartitions(n, lookBack, chunk)

(* "Start of the range is aligned to the most recent midnight in Loc so a  *)
(* 24h ChunkSize yields a single calendar day per partition"               *)
(* (partitioner.go:22-24): it does for a window in which every day has 24  *)
(* hours.  A clock change in the window shifts every partition behind it   *)
(* off midnight.                                                           *)
WholeDays ==
  /\ chunk = DayLength
  /\ \A t \in n - lookBack .. n - 1 :
       LET m == AlignToMidnight(t)
       IN  {k \in Midnights : m < k /\ k <= m + DayLength} = {m + DayLength}

CalendarDays ==
  outcome = "listed" /\ WholeDays
    => \A i \in DOMAIN out : \A k \in out[i].start .. out[i].end - 1 :
         AlignToMidnight(k) = AlignToMidnight(out[i].start)
=============================================================================
