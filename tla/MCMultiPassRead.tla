--------------------------- MODULE MCMultiPassRead ---------------------------
(* Model checking of MultiPassRead.                                         *)
EXTENDS MultiPassRead
=============================================================================
