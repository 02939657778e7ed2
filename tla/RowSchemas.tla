----------------------------- MODULE RowSchemas -----------------------------
(***************************************************************************)
(* The two ways to the schema of a row (utils.cpp): from the fields of a   *)
(* result set (FieldsToRowSchema, for QueryGetQueue and                    *)
(* GetTableRowSchema), and from the text of an EXPLAIN                     *)
(* (ExplainToRowSchema, for parallel reads).                               *)
(*                                                                         *)
(* A column of the database is the record of the name of its type, its     *)
(* length in characters and whether its character set is utf8mb4.  A name  *)
(* is the sequence of the words it is made of, because the second way      *)
(* compares prefixes: "datetime" is <<"date", "time">>.                    *)
(***************************************************************************)
EXTENDS Integers, SequencesExt

\* What the server sends as the type of a column in a result set.  A name of the
\* server that is not listed is not covered; an ENUM or a SET is sent as a STRING.
protocolType ==
    << [name |-> <<"big", "int">>,    type |-> "LONGLONG"],
       [name |-> <<"int">>,           type |-> "LONG"],
       [name |-> <<"small", "int">>,  type |-> "SHORT"],
       [name |-> <<"double">>,        type |-> "DOUBLE"],
       [name |-> <<"decimal">>,       type |-> "NEWDECIMAL"],
       [name |-> <<"char">>,          type |-> "STRING"],
       [name |-> <<"binary">>,        type |-> "STRING"],
       [name |-> <<"var", "char">>,   type |-> "VAR_STRING"],
       [name |-> <<"var", "binary">>, type |-> "VAR_STRING"],
       [name |-> <<"text">>,          type |-> "BLOB"],
       [name |-> <<"blob">>,          type |-> "BLOB"],
       [name |-> <<"long", "text">>,  type |-> "LONG_BLOB"],
       [name |-> <<"long", "blob">>,  type |-> "LONG_BLOB"],
       [name |-> <<"medium", "text">>, type |-> "MEDIUM_BLOB"],
       [name |-> <<"medium", "blob">>, type |-> "MEDIUM_BLOB"],
       [name |-> <<"tiny", "text">>,  type |-> "TINY_BLOB"],
       [name |-> <<"tiny", "blob">>,  type |-> "TINY_BLOB"],
       [name |-> <<"date", "time">>,  type |-> "DATETIME"],
       [name |-> <<"date">>,          type |-> "DATE"],
       [name |-> <<"time">>,          type |-> "TIME"],
       [name |-> <<"time", "stamp">>, type |-> "TIMESTAMP"],
       [name |-> <<"tiny", "int">>,   type |-> "TINY"],
       [name |-> <<"medium", "int">>, type |-> "INT24"],
       [name |-> <<"float">>,         type |-> "FLOAT"],
       [name |-> <<"bit">>,           type |-> "BIT"],
       [name |-> <<"year">>,          type |-> "YEAR"],
       [name |-> <<"json">>,          type |-> "JSON"],
       [name |-> <<"enum">>,          type |-> "STRING"],
       [name |-> <<"set">>,           type |-> "STRING"] >>

\* The names that the two ways take for different types: TIMESTAMP is a Time for the
\* prefix "time" and unsupported as a field, ENUM and SET are unsupported by their
\* names and Fixed as fields.
DifferingNames == {<<"time", "stamp">>, <<"enum">>, <<"set">>}

\* fields[i].length, in bytes.
bytesOf(column) ==
    column.length * (IF column.name = <<"binary">> THEN 1 ELSE IF column.utf8mb4 THEN 4 ELSE 3)

\* The size is that of a Fixed column; the other sizes follow from the type.
col(type, bytes) == [type |-> type, size |-> IF type = "Fixed" THEN bytes ELSE 0]

fieldTypes ==
    [LONG |-> "Int32", LONGLONG |-> "Int64", DOUBLE |-> "Double", STRING |-> "Fixed",
     VAR_STRING |-> "Variable", LONG_BLOB |-> "Variable", MEDIUM_BLOB |-> "Variable",
     BLOB |-> "Variable", TINY_BLOB |-> "Variable",
     DATETIME |-> "DateTime", DATE |-> "Date", TIME |-> "Time"]

FieldsToRowSchema(columns) ==
    LET field(column) == protocolType[SelectInSeq(protocolType,
                                                  LAMBDA p : p.name = column.name)].type
        typeOf(column) == IF field(column) \in DOMAIN fieldTypes THEN fieldTypes[field(column)]
                          ELSE "Unsupported"
    IN  [i \in DOMAIN columns |-> col(typeOf(columns[i]), bytesOf(columns[i]))]

\* The comparisons of ShowColumnsToRowSchemaHelper, in their order.
prefixes ==
    << [name |-> <<"big", "int">>,    type |-> "Int64"],
       [name |-> <<"int">>,           type |-> "Int32"],
       [name |-> <<"double">>,        type |-> "Double"],
       [name |-> <<"date", "time">>,  type |-> "DateTime"],
       [name |-> <<"date">>,          type |-> "Date"],
       [name |-> <<"time">>,          type |-> "Time"],
       [name |-> <<"binary">>,        type |-> "Fixed"],
       [name |-> <<"char">>,          type |-> "Fixed"],
       [name |-> <<"var", "char">>,   type |-> "Variable"],
       [name |-> <<"var", "binary">>, type |-> "Variable"],
       [name |-> <<"long", "text">>,  type |-> "Variable"],
       [name |-> <<"long", "blob">>,  type |-> "Variable"],
       [name |-> <<"medium", "blob">>, type |-> "Variable"],
       [name |-> <<"blob">>,          type |-> "Variable"],
       [name |-> <<"tiny", "blob">>,  type |-> "Variable"],
       [name |-> <<"medium", "text">>, type |-> "Variable"],
       [name |-> <<"text">>,          type |-> "Variable"],
       [name |-> <<"tiny", "text">>,  type |-> "Variable"] >>

\* Mutant: the last comparison that holds decides, so that every datetime is a date.
firstPrefixLast(column) == SelectLastInSeq(prefixes, LAMBDA p : IsPrefix(p.name, column.name))

\* 0 when none holds.
firstPrefix(column) == SelectInSeq(prefixes, LAMBDA p : IsPrefix(p.name, column.name))

ShowColumnsToRowSchemaHelper(column) ==
    LET type == IF firstPrefix(column) = 0 THEN "Unsupported" ELSE prefixes[firstPrefix(column)].type
        char_size == IF column.utf8mb4 THEN 4 ELSE 3
    IN  col(type, IF column.name = <<"binary">> THEN column.length
                          ELSE column.length * char_size)

\* One definition between two commas for each column.
ExplainToRowSchema(columns) ==
    [i \in DOMAIN columns |-> ShowColumnsToRowSchemaHelper(columns[i])]
=============================================================================
