--------------------------- MODULE DateChunkedSync ---------------------------
(***************************************************************************)
(* DateChunkedSync (src/datasync/chunk/date_sync.go): the chunked sync     *)
(* whose partitioner is DatePartitioner.  Its last partition ends at the   *)
(* instant of the listing, so the boundaries of two listings differ.       *)
(***************************************************************************)
EXTENDS ChunkedSync, DatePartitioner

CONSTANTS LookBack, ChunkSize

Listed(n) == DatePartitions(n, LookBack, ChunkSize)
=============================================================================
