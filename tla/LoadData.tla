------------------------------ MODULE LoadData ------------------------------
(***************************************************************************)
(* The way of values from a table of the database to CAS and back.  Rows   *)
(* are fetched (AdvanceBinary, AdvanceText), written into a chunk as the   *)
(* numbers and bytes of CAS (WriteRow), and loaded into a table of the     *)
(* same columns: as text by LoadDataWrite (WriteChunk, ChunkToTSV), or as  *)
(* Avro by LoadDataAvro (WriteAvro), in both cases through the callbacks   *)
(* of LOAD DATA LOCAL INFILE, which the client library calls for one       *)
(* buffer after another.                                                   *)
(*                                                                         *)
(* Where the bytes are in a chunk is the subject of SuperChunk; here a     *)
(* chunk is the sequence of its rows.  A value of the database is a        *)
(* sequence, empty for NULL.  Text is a sequence of characters, each one   *)
(* a pair; a formatted number or time, which holds no character that       *)
(* means anything to the parser, is one character of its own kind.         *)
(***************************************************************************)
EXTENDS CasTime, RowSchemas

CONSTANTS
    Tables,     \* the tables: sequences of columns
    Strings,    \* the strings in the columns of variable and fixed length
    Numbers,    \* the numbers in the columns of numbers
    DateTimes, Dates, Times,
    intNull,    \* int64Null and int32Null, the least number
    doubleNull, \* a NaN, which is not in a table
    MaxValues,  \* bound: values in the table
    BufLens     \* the sizes of the buffers of the client library

\* The columns are of the types of protocolType; a time other than zero may be
\* negative; the number of a time is in the range of its type, so not the null.
ASSUME LoadDataAssumption ==
    /\ Tables \subseteq Seq([name : {p.name : p \in Range(protocolType)}, length : Nat,
                             utf8mb4 : BOOLEAN]) \ {<<>>}
    /\ Strings \subseteq Seq({"char"} \X STRING)
    /\ Numbers \subseteq Int /\ intNull \in Int /\ doubleNull \in Int \ Numbers
    /\ DateTimes \subseteq [sec : Int, second_part : 0 .. (secToMicroSec - 1)]
    /\ Dates \subseteq Int
    /\ Times \subseteq [neg : BOOLEAN, hour : Nat, minute : 0 .. 59, second : 0 .. 59,
                        second_part : 0 .. (secToMicroSec - 1)]
    /\ \A t \in Times : t.neg => t.hour + t.minute + t.second + t.second_part > 0
    /\ \A t \in DateTimes : toDateTimeCAS(t) # <<intNull>>
    /\ \A t \in Dates : toDateCAS(t) # <<intNull>>
    /\ \A t \in Times : toTimeCAS(t) # intNull
    /\ MaxValues \in Nat
    /\ BufLens \subseteq Nat \ {0}

VARIABLES
    phase,      \* "idle", "table", "chunk", "load", "done" or "failed"
    path,       \* how the rows are read and how they are loaded
    columns,    \* the columns of both tables
    table,      \* the rows of the first one
    chunk,      \* the rows of the chunk
    source,     \* the text or the Avro buffer that is loaded
    m_current_pos,
    sent,       \* what the client library has read of it
    loaded,     \* the rows of the second table
    loadErr     \* the code of the exception, 0 if there is none

lvars == <<phase, path, columns, table, chunk, source, m_current_pos, sent, loaded, loadErr>>

UnsDataType == 2     \* S2C_ERROR_UNS_DATA_TYPE
InvalidDate == 1     \* S2C_ERROR_INV_ARG
BadConnection == 6   \* S2C_ERROR_BAD_CONNECTION
BadChunk == 8        \* S2C_ERROR_BAD_CHUNK
LoadFailed == 2000   \* the mysql_errno of the statement

\* ParallelReadGetQueue takes the schema from EXPLAIN and fetches by a prepared
\* statement; QueryGetQueue takes it from the result and has the choice.
Paths ==
    {p \in [parallel : BOOLEAN, usePreparedProtocol : BOOLEAN, format : {"TSV", "AVRO"},
            treatZeroLenAsNull : BOOLEAN] :
        (p.parallel => p.usePreparedProtocol) /\ (p.format = "TSV" => p.treatZeroLenAsNull)}

Char(c) == <<"char", c>>
Tab == Char("tab")
NewLine == Char("newline")
Quote == Char("quote")
Backslash == Char("backslash")
Blank == Char("blank")
Zero == Char("zero")

TimeTypes == {"DateTime", "Date", "Time"}

LInit ==
    /\ phase = "idle"
    /\ path = [parallel |-> TRUE, usePreparedProtocol |-> TRUE, format |-> "TSV",
               treatZeroLenAsNull |-> TRUE]
    /\ columns = <<>>
    /\ table = <<>>
    /\ chunk = <<>>
    /\ source = <<>>
    /\ m_current_pos = 0
    /\ sent = <<>>
    /\ loaded = <<>>
    /\ loadErr = 0

-----------------------------------------------------------------------------
(* The table that is read.                                                 *)

\* The values a column can hold: a CHAR, an ENUM and a SET have no trailing blank, a
\* BINARY has its full length; the values of an unsupported type are opaque.
values(column) ==
    LET type == FieldsToRowSchema(<<column>>)[1].type
        some(S) == {<<>>} \cup {<<v>> : v \in S}
    IN  CASE type = "DateTime" -> some(DateTimes)
          [] type = "Date"     -> some(Dates)
          [] type = "Time"     -> some(Times)
          [] type = "Variable" -> some(Strings)
          [] column.name \in {<<"char">>, <<"enum">>, <<"set">>} ->
                some({s \in Strings : Len(s) <= column.length /\ (s # <<>> => Last(s) # Blank)})
          [] column.name = <<"binary">> -> some({s \in Strings : Len(s) = column.length})
          [] OTHER -> some(Numbers)

ChooseTable ==
    /\ phase = "idle"
    /\ path' \in Paths
    /\ columns' \in Tables
    /\ phase' = "table"
    /\ UNCHANGED <<table, chunk, source, m_current_pos, sent, loaded, loadErr>>

\* A value of the row in the making, or the first one of a new row.
InsertValue ==
    /\ phase = "table"
    /\ chunk = <<>>
    /\ LET n == IF table = <<>> \/ Len(Last(table)) = Len(columns) THEN Len(table) + 1
                ELSE Len(table)
           row == IF n > Len(table) THEN <<>> ELSE table[n]
       IN  /\ (n - 1) * Len(columns) + Len(row) < MaxValues
           /\ \E v \in values(columns[Len(row) + 1]) :
                 table' = [i \in 1 .. n |-> IF i = n THEN Append(row, v) ELSE table[i]]
    /\ UNCHANGED <<phase, path, columns, chunk, source, m_current_pos, sent, loaded, loadErr>>

-----------------------------------------------------------------------------
(* From the database to CAS.                                               *)

m_row_schema ==
    IF path.parallel THEN ExplainToRowSchema(columns) ELSE FieldsToRowSchema(columns)

\* AdvanceText leaves times alone: their pointers stay null.
fetched(v, i) ==
    IF ~path.usePreparedProtocol /\ FieldsToRowSchema(columns)[i].type \in TimeTypes THEN <<>>
    ELSE v

padded(s, size, c) == s \o [k \in 1 .. (size - Len(s)) |-> c]

WriteFixed(v, size) == <<IF v = <<>> THEN padded(<<>>, size, Zero) ELSE padded(v[1], size, Blank)>>

\* The value in the chunk, in a sequence that is empty when the conversion throws.
written(column, v) ==
    LET null == v = <<>>
    IN  CASE column.type = "Unsupported" -> <<>>
          [] column.type = "Fixed"       -> WriteFixed(v, column.size)
          [] column.type = "Variable"    -> <<IF null THEN <<>> ELSE v[1]>>
          [] column.type = "Double"      -> <<IF null THEN doubleNull ELSE v[1]>>
          [] column.type \in {"Int64", "Int32"} -> <<IF null THEN intNull ELSE v[1]>>
          [] column.type = "DateTime"    -> IF null THEN <<intNull>> ELSE toDateTimeCAS(v[1])
          [] column.type = "Date"        -> IF null THEN <<intNull>> ELSE toDateCAS(v[1])
          [] column.type = "Time"        -> <<IF null THEN intNull ELSE toTimeCAS(v[1])>>

\* The rows that Execute fetches and Prefetch fetches over (the run text_first_row).
skipped == IF path.usePreparedProtocol THEN 0 ELSE 1

\* The next row is fetched and written.  A column whose two schemas differ is
\* followed only as far as them: what the fetch leaves for a TIMESTAMP that is
\* taken for a Time is not defined, nor is an ENUM or a SET a CHAR to the server.
WriteRow ==
    /\ phase = "table"
    /\ skipped + Len(chunk) < Len(table)
    /\ Len(Last(table)) = Len(columns)
    /\ \A i \in DOMAIN columns : columns[i].name \notin DifferingNames
    /\ LET row  == table[skipped + Len(chunk) + 1]
           cell == [i \in DOMAIN columns |-> written(m_row_schema[i], fetched(row[i], i))]
       IN  IF \A i \in DOMAIN columns : cell[i] # <<>>
           THEN /\ chunk' = Append(chunk, [i \in DOMAIN columns |-> cell[i][1]])
                /\ UNCHANGED <<phase, loadErr>>
           ELSE /\ loadErr' = IF \E i \in DOMAIN columns : m_row_schema[i].type = "Unsupported"
                              THEN UnsDataType ELSE InvalidDate
                /\ phase' = "failed"
                /\ UNCHANGED chunk
    /\ UNCHANGED <<path, columns, table, source, m_current_pos, sent, loaded>>

-----------------------------------------------------------------------------
(* LoadDataWrite: a chunk as text.                                         *)

IsNullBuffer(buff) == Range(buff) = {Blank} \/ Range(buff) = {Zero}

isNull(column, cell) ==
    CASE column.type = "Fixed"    -> column.size = 0 \/ IsNullBuffer(cell)
      [] column.type = "Variable" -> cell = <<>>
      [] column.type = "Double"   -> cell = doubleNull
      [] OTHER                    -> cell = intNull

\* std::quoted.
quoted(s) ==
    <<Quote>> \o FlattenSeq([k \in DOMAIN s |->
        IF s[k] \in {Quote, Backslash} THEN <<Backslash, s[k]>> ELSE <<s[k]>>]) \o <<Quote>>

field(column, cell) ==
    IF isNull(column, cell) THEN <<Backslash, Char("N")>>
    ELSE CASE column.type \in {"Fixed", "Variable"} -> quoted(cell)
           [] column.type = "DateTime" -> <<<<"DateTime", fromDateTimeCAS(cell)>>>>
           [] column.type = "Date"     -> <<<<"Date", fromDateCAS(cell)>>>>
           [] column.type = "Time"     -> <<<<"Time", fromTimeCAS(cell)>>>>
           [] OTHER                    -> <<<<"number", cell>>>>

joined(texts, separator) ==
    FlattenSeq([k \in DOMAIN texts |-> IF k = 1 THEN texts[k] ELSE <<separator>> \o texts[k]])

ChunkToTSV(schema) ==
    joined([n \in DOMAIN chunk |->
        joined([i \in DOMAIN schema |-> field(schema[i], chunk[n][i])], Tab)], NewLine)

-----------------------------------------------------------------------------
(* LoadDataAvro: the caller has written the values one by one              *)
(* (avro_table_writer.cpp), a null string as one of length 0.              *)

avro(schema) ==
    FlattenSeq([n \in DOMAIN chunk |-> [i \in DOMAIN schema |->
        CASE schema[i].type \in {"Fixed", "Variable"} ->
                <<"bytes", IF isNull(schema[i], chunk[n][i]) THEN <<>> ELSE chunk[n][i]>>
          [] OTHER -> <<"number", chunk[n][i]>>]])

\* LOCAL INFILE may be disabled; refusals are the other codes that are thrown
\* before the statement.
infile(text, refusals) ==
    /\ phase = "table"
    /\ chunk # <<>> /\ Len(chunk) = Len(table) - skipped
    /\ \/ /\ phase' = "load"
          /\ source' = text
          /\ UNCHANGED loadErr
       \/ /\ phase' = "failed"
          /\ loadErr' \in {BadConnection} \cup refusals
          /\ UNCHANGED source
    /\ UNCHANGED <<path, columns, table, chunk, m_current_pos, sent, loaded>>

\* The schema is that of GetTableRowSchema for the second table.  The chunk is the
\* caller's, and the reader may refuse it as malformed.
WriteChunk ==
    path.format = "TSV" /\ infile(ChunkToTSV(FieldsToRowSchema(columns)), {BadChunk})

WriteAvro == path.format = "AVRO" /\ infile(avro(FieldsToRowSchema(columns)), {})

\* Both writers copy what is left, at most a buffer of it.
ss_local_infile_read(buf_len) ==
    /\ phase = "load"
    /\ m_current_pos < Len(source)
    /\ LET n_bytes == IF buf_len <= Len(source) - m_current_pos THEN buf_len
                      ELSE Len(source) - m_current_pos
       IN  /\ sent' = sent \o SubSeq(source, m_current_pos + 1, m_current_pos + n_bytes)
           /\ m_current_pos' = m_current_pos + n_bytes
    /\ UNCHANGED <<phase, path, columns, table, chunk, source, loaded, loadErr>>

-----------------------------------------------------------------------------
(* What the server makes of it.                                            *)

NoText == [null |-> FALSE, text |-> <<>>]

\* One character of a text with FIELDS OPTIONALLY ENCLOSED BY '"'.
parse(p, c) ==
    LET add == [p EXCEPT !.field.text = Append(@, c),
                         !.mode = IF p.mode \in {"quoted", "escaped"} THEN "quoted" ELSE "plain"]
        endField == [p EXCEPT !.row = Append(@, p.field), !.field = NoText, !.mode = "start"]
        outside == p.mode \in {"start", "plain", "closed"}
    IN  CASE p.mode = "quoted" /\ c = Backslash -> [p EXCEPT !.mode = "escaped"]
          [] p.mode = "quoted" /\ c = Quote     -> [p EXCEPT !.mode = "closed"]
          [] p.mode = "null"                    -> [p EXCEPT !.field.null = TRUE, !.mode = "closed"]
          [] outside /\ c = Tab     -> endField
          [] outside /\ c = NewLine -> [endField EXCEPT !.rows = Append(@, endField.row), !.row = <<>>]
          [] p.mode = "start" /\ c = Quote      -> [p EXCEPT !.mode = "quoted"]
          [] p.mode = "start" /\ c = Backslash  -> [p EXCEPT !.mode = "null"]
          [] OTHER       -> add

parsed(text) ==
    LET run[k \in 0 .. Len(text)] ==
            IF k = 0 THEN [rows |-> <<>>, row |-> <<>>, field |-> NoText, mode |-> "start"]
            ELSE parse(run[k - 1], text[k])
        p == run[Len(text)]
    IN  Append(p.rows, Append(p.row, p.field))

stripped(s) ==
    SubSeq(s, 1, SelectLastInSeq(s, LAMBDA c : c # Blank))

stored(column, s) == IF column.name = <<"char">> THEN stripped(s) ELSE s

ofText(column, f) ==
    IF f.null THEN <<>>
    ELSE IF FieldsToRowSchema(<<column>>)[1].type \in {"Fixed", "Variable"}
    THEN <<stored(column, f.text)>> ELSE <<f.text[1][2]>>

\* The SET clause of MakeColumnsAvro.  ADDDATE of the null number is out of range,
\* and a NaN is no value of a table: the server makes a NULL of both.  A TIME is
\* the text of the sign, of SEC_TO_TIME and of the fraction.
MakeColumnsAvro(column, v) ==
    LET type == FieldsToRowSchema(<<column>>)[1].type
        null == CASE type \in {"Fixed", "Variable"} -> path.treatZeroLenAsNull /\ v = <<>>
                  [] type = "Double" -> v = doubleNull
                  [] OTHER           -> v = intNull
    IN  IF null THEN <<>>
        ELSE CASE type \in {"Fixed", "Variable"} -> <<stored(column, v)>>
               [] type = "DateTime" -> <<[sec |-> (v \div secToMicroSec) - CASshiftSec,
                                          second_part |-> v % secToMicroSec]>>
               [] type = "Date"     -> <<v - CASshiftSec \div dayToSec>>
               [] type = "Time"     -> <<fromTimeCAS(v)>>
               [] OTHER             -> <<v>>

ofAvro(tokens) ==
    [n \in 1 .. (Len(tokens) \div Len(columns)) |->
        [i \in DOMAIN columns |->
            MakeColumnsAvro(columns[i], tokens[(n - 1) * Len(columns) + i][2])]]

\* The callback returned 0 and the statement ends, or it fails.
EndLoad ==
    /\ phase = "load"
    /\ m_current_pos >= Len(source)
    /\ \/ /\ loaded' = IF path.format = "TSV"
                       THEN [n \in DOMAIN parsed(sent) |-> [i \in DOMAIN columns |->
                                ofText(columns[i], parsed(sent)[n][i])]]
                       ELSE ofAvro(sent)
          /\ phase' = "done"
          /\ UNCHANGED loadErr
       \/ /\ phase' = "failed"
          /\ loadErr' = LoadFailed
          /\ UNCHANGED loaded
    /\ UNCHANGED <<path, columns, table, chunk, source, m_current_pos, sent>>

LNext ==
    \/ ChooseTable
    \/ InsertValue
    \/ WriteRow
    \/ WriteChunk
    \/ WriteAvro
    \/ \E buf_len \in BufLens : ss_local_infile_read(buf_len)
    \/ EndLoad

-----------------------------------------------------------------------------
(* Properties.                                                             *)

\* The two ways to a schema agree on every name of protocolType but the three
\* DifferingNames, on which they do differ; a table without these can be read by
\* either way and written back.
SchemasAgree ==
    \A i \in DOMAIN columns :
        ExplainToRowSchema(columns)[i] = FieldsToRowSchema(columns)[i]
            <=> columns[i].name \notin DifferingNames

\* What comes back for a value: an empty string, a fixed string of blanks only, one
\* of zeros only that fills its field, and the least number are not told apart from
\* NULL.
returns(column, v) ==
    LET type   == FieldsToRowSchema(<<column>>)[1].type
        string == type \in {"Fixed", "Variable"}
        empty  == \/ v = <<>> \/ v[1] = <<>>
                  \/ type = "Fixed" /\ Range(v[1]) = {Blank}
                  \/ type = "Fixed" /\ Range(v[1]) = {Zero} /\ Len(v[1]) = bytesOf(column)
    IN  CASE string /\ empty -> IF path.treatZeroLenAsNull THEN <<>> ELSE <<<<>>>>
          [] type \in {"Int64", "Int32"} /\ v = <<intNull>> -> <<>>
          [] OTHER -> v

\* A chunk is refused only for a type that is not supported and for the second
\* before 1970-01-01.
refusedOnlyInvalid ==
    phase = "failed" /\ loadErr \in {UnsDataType, InvalidDate} =>
        \E i \in DOMAIN columns :
            \/ m_row_schema[i].type = "Unsupported"
            \/ /\ m_row_schema[i].type = "DateTime"
               /\ LET v == table[skipped + Len(chunk) + 1][i] IN v # <<>> /\ v[1].sec = -1

\* The columns of which the values are promised: all by the prepared protocol.  The
\* text protocol loses every date and time (AdvanceText), which is a defect and not
\* what a caller may expect, so nothing is said of them.
delivered(i) == path.usePreparedProtocol \/ FieldsToRowSchema(columns)[i].type \notin TimeTypes

\* The rows that are read and loaded again, in pieces of whatever size, are the rows
\* of the table in the same order (by the text protocol without the first, which is
\* the subject of AllRowsDelivered in RowStream), and their values come back, whatever
\* characters the strings have and on which side of 1960 the times are, up to what
\* is not told apart from NULL; and a chunk is refused only for what cannot be
\* written.
ValuesReturn ==
    /\ refusedOnlyInvalid
    /\ phase = "done" =>
          /\ Len(loaded) = Len(table) - skipped
          /\ \A n \in DOMAIN loaded : \A i \in {j \in DOMAIN columns : delivered(j)} :
                loaded[n][i] = returns(columns[i], table[skipped + n][i])
=============================================================================
