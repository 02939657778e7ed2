---------------------------- MODULE MCRowStream -----------------------------
(* Model checking of RowStream: short result sets, small chunks.           *)
EXTENDS RowStream
=============================================================================
