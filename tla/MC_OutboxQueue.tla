--------------------------- MODULE MC_OutboxQueue ---------------------------
(* Small instances of OutboxQueue: partitions p and q, threads t1 and t2.  *)
EXTENDS OutboxQueue
CONSTANTS p, q, t1, t2
=============================================================================
