---------------------------- MODULE MCChunkedSync ----------------------------
(***************************************************************************)
(* A partitioner on a fixed grid: at instant n it lists the chunks         *)
(* [ChunkSize * k, ChunkSize * (k + 1)) that are complete and no older     *)
(* than Window chunks.                                                     *)
(***************************************************************************)
EXTENDS AlignedChunkedSync

CONSTANTS ChunkSize, Window

GridPartitions(n) ==
  LET complete == n \div ChunkSize
      first    == IF complete > Window THEN complete - Window ELSE 0
  IN  [i \in 1 .. complete - first |->
         [start |-> ChunkSize * (first + i - 1), end |-> ChunkSize * (first + i)]]
=============================================================================
