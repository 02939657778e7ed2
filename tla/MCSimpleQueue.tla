---------------------------- MODULE MCSimpleQueue ----------------------------
(* Model checking of SimpleQueue.                                           *)
EXTENDS SimpleQueue
=============================================================================
