---------------------------- MODULE MCBatchQueue ----------------------------
(* Model checking of BatchQueue: two readers, two consumers, batches of 2. *)
EXTENDS BatchQueue
=============================================================================
