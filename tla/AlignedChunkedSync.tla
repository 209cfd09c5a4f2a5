------------------------- MODULE AlignedChunkedSync -------------------------
(***************************************************************************)
(* A chunked sync whose partitioner cuts the key line at the same places   *)
(* whenever it is asked, lists only ranges that are complete, and whose    *)
(* window only slides forward.  These are the conditions under which the   *)
(* cursor filter of the workflow (sync.go:318-326) is right; the           *)
(* partitioner the library ships does not meet the first one, see          *)
(* DateChunkedSync.                                                        *)
(***************************************************************************)
EXTENDS ChunkedSync

(* No partition, listed now or later, straddles the end of another one.    *)
ASSUME AlignedBoundaries ==
  \A n, m \in Instants :
    \A i \in DOMAIN Partitions(n), j \in DOMAIN Partitions(m) :
      Partitions(m)[j].start < Partitions(n)[i].end
        => Partitions(m)[j].end <= Partitions(n)[i].end

(* A partition is listed once all its records exist.                       *)
ASSUME CompleteRanges ==
  \A n \in Instants : \A i \in DOMAIN Partitions(n) : Partitions(n)[i].end <= n

(* What is listed later behind a listed partition was listed with it.      *)
ASSUME ForwardWindow ==
  \A n \in Instants : \A m \in n .. MaxNow :
    \A i \in DOMAIN Partitions(n), j \in DOMAIN Partitions(m) :
      Partitions(m)[j].end <= Partitions(n)[i].end
        => \E k \in DOMAIN Partitions(n) : Partitions(n)[k] = Partitions(m)[j]
-----------------------------------------------------------------------------
(* The strengthening that makes CursorCovered inductive.  The predicates   *)
(* take the instant n and the sink S they speak of as parameters.          *)

(* c is where a partition listed by n ends. *)
IsBoundary(c, n) ==
  \E m \in 0 .. n : \E i \in DOMAIN Partitions(m) : Partitions(m)[i].end = c

(* A cursor at c is justified: runs may skip everything behind it.         *)
Justified(c, n, S) == CoveredIn(c, n, S) /\ IsBoundary(c, n)

(* A run that waits at p with list L and indices T works on a list the     *)
(* partitioner returned earlier, has a stretch of it without holes still   *)
(* to do, and everything before its current partition is delivered.        *)
OnTrack(p, L, T, n, S) ==
  /\ p \in {"cursor", "run", "advance"} => \E m \in 0 .. n : L = Partitions(m)
  /\ \A i, k \in T : i .. k \subseteq T
  /\ p = "run" => CoveredIn(L[Min(T)].start, n, S)
  /\ p = "advance" => CoveredIn(L[Min(T)].end, n, S)

CursorInv == cursor.exists => Justified(cursor.at, now, sink)

(* An Advance that is still on its way is already justified.               *)
LateInv == \A c \in late : Justified(c, now, sink)

RunInv == \A e \in Executions : OnTrack(pc[e], parts[e], todo[e], now, sink)

IndInv == TypeOK /\ CursorInv /\ LateInv /\ RunInv
=============================================================================
