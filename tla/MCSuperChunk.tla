---------------------------- MODULE MCSuperChunk ----------------------------
(* Model checking of SuperChunk: schemas of up to three columns.           *)
EXTENDS SuperChunk

column(type, size) == [type |-> type, size |-> size]

MCSchemas ==
    {<<column("Variable", 0)>>,
     <<column("Int32", 4), column("Variable", 0)>>,
     <<column("Variable", 0), column("Double", 8), column("Variable", 0)>>,
     <<column("Fixed", 3), column("Int64", 8)>>,
     <<column("Fixed", 0), column("Variable", 0)>>}
=============================================================================
