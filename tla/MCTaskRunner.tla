---------------------------- MODULE MCTaskRunner ----------------------------
(* Instances of TaskRunner for TLC. *)
EXTENDS TaskRunner, TLC

CONSTANTS t1, t2, b1

(* One task on its own: every event, overlapping ticks and executions. *)
OneBatchId    == t1 :> NoBatch
OneGroup      == t1 :> 0

(* A batch of two groups. *)
PairBatchId   == (t1 :> b1) @@ (t2 :> b1)
PairGroup     == (t1 :> 0) @@ (t2 :> 1)

Interchangeable == Permutations(Tick) \cup Permutations(Job)
=============================================================================
