-------------------------- MODULE MCMultiPassQueue --------------------------
(* Creation and point reads for all small inputs.                          *)
EXTENDS MultiPassQueue

\* In the order of their keys the rows have two, four and three bytes: a chunk of six
\* takes the first two of them, one of three the first or the last.
MCRowSizes == <<3, 4, 2>>

MCRowIdSets == {{}, {0}, {2}, {0, 3}, {1, 2, 3}}
=============================================================================
