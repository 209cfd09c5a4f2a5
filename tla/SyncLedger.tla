----------------------------- MODULE SyncLedger -----------------------------
(***************************************************************************)
(* What a resumable chunked sync promises, without executions, activities  *)
(* or retries.  Three facts are visible from outside: the time, the keys   *)
(* that have reached the sink, and the cursor of the ProgressTracker       *)
(* (src/datasync/chunk/tracker.go).  Records only accumulate, and the      *)
(* cursor moves forward only over ranges that have been delivered: a run   *)
(* skips whatever lies behind the cursor, so nothing behind it may still   *)
(* be missing.  An operator may remove the cursor (pgtracker Reset).       *)
(***************************************************************************)
EXTENDS Integers, Sequences

CONSTANTS
  Partitions(_),  \* what the Partitioner lists at an instant
  MaxNow          \* the last instant of the clock

VARIABLES
  now,     \* the instant
  sink,    \* keys of the records the sink holds
  cursor   \* [exists, at]: the value ProgressTracker.Cursor returns

vars == <<now, sink, cursor>>

Instants == 0 .. MaxNow

NoCursor == [exists |-> FALSE, at |-> 0]

(* The keys of a half-open partition [start, end). *)
Keys(p) == p.start .. (p.end - 1)

Synced(p) == Keys(p) \subseteq sink

(* Every partition the partitioner lists from now on and that ends at or   *)
(* before k is in the sink.  Runs never look behind the cursor again.      *)
Covered(k) ==
  \A m \in now .. MaxNow :
    \A i \in DOMAIN Partitions(m) :
      Partitions(m)[i].end <= k => Synced(Partitions(m)[i])

-----------------------------------------------------------------------------
Init ==
  /\ now \in Instants
  /\ sink = {}
  /\ cursor = NoCursor

Tick ==
  /\ now' \in Instants
  /\ now' > now
  /\ UNCHANGED <<sink, cursor>>

Deliver ==
  /\ sink \subseteq sink'
  /\ UNCHANGED <<now, cursor>>

Commit ==
  /\ cursor'.exists
  /\ cursor.exists => cursor'.at >= cursor.at
  /\ Covered(cursor'.at)
  /\ UNCHANGED <<now, sink>>

Forget ==
  /\ cursor' = NoCursor
  /\ UNCHANGED <<now, sink>>

Next == Tick \/ Deliver \/ Commit \/ Forget

Spec == Init /\ [][Next]_vars
=============================================================================
