--------------------------- MODULE MCStreamingRead ---------------------------
(* Model checking of StreamingRead.                                         *)
EXTENDS StreamingRead
=============================================================================
