----------------------------- MODULE SuperChunk -----------------------------
(***************************************************************************)
(* The layout of a chunk: SuperChunkWriter (hdat/chunk_writer.cpp) and     *)
(* SuperChunkReader (hdat/chunk_reader.cpp) over the bytes of a Chunk      *)
(* (hdat/super_chunk.hpp).  The fixed part of the rows grows from the      *)
(* front, the bytes of variable values grow from the back, and a variable  *)
(* value is found through its distance from the END of the chunk.          *)
(*                                                                         *)
(* The memory of the chunk is the set of the cells written to it: where,   *)
(* how long, and what.  A value is abstracted to Null or its length in     *)
(* bytes and the row and column it is for.                                 *)
(*                                                                         *)
(* A chunk is written either by rows, as a reader thread does (WriteRow),  *)
(* or by values through the C API (WriteInt64, ... , WriteRowEnd); when it *)
(* is full it is read value by value, as ChunkToTSV does.                  *)
(***************************************************************************)
EXTENDS Integers, Sequences, FiniteSets, SequencesExt

CONSTANTS
    Schemas,     \* the schemas that occur: sequences of columns
    ChunkSizes,  \* the sizes of chunks
    Lengths      \* the lengths of variable values

Types == {"Int64", "Int32", "Double", "Fixed", "Variable"}

\* DateTime and Time have the layout of Int64, Date that of Int32; a table has a column.
ASSUME SuperChunkAssumption ==
    /\ Schemas \subseteq Seq([type : Types, size : Nat]) \ {<<>>}
    /\ ChunkSizes \subseteq Nat
    /\ Lengths \subseteq Nat

Null == -1  \* a null column_value; any other value is its length

\* What a cell of the memory holds.
ofValue(n, i) == <<"value", n, i>>   \* the bytes of column i of row n
ofNumber(n)   == <<"number", n, 0>>  \* an offset or a length
NullMark      == <<"null", 0, 0>>    \* int64Null, int32Null, doubleNull
Blank         == <<"blank", 0, 0>>   \* zeros or spaces only: IsNullBuffer
Garbage       == <<"garbage", 0, 0>> \* never written

VARIABLES
    schema,     \* m_row_schema
    byRow,      \* whether WriteRow is used
    ndebug,     \* whether NDEBUG compiles the assertions out, as RelWithDebInfo does
    c,          \* the Chunk: m_size, row_count, consumed_size, variable_offset
    cells,      \* the memory at m_ptr
    w,          \* the SuperChunkWriter, with the m_offset of its SuperChunk
    r,          \* the SuperChunkReader: m_offset, next column, values of the row
    row,        \* the values of the row being written
    written,    \* the rows that were ended
    got,        \* the rows that were read
    phase       \* "write", "full", "read", or how it ended: "aborted" by an assertion

vars == <<schema, byRow, ndebug, c, cells, w, r, row, written, got, phase>>

sizeofAligned8(len) == ((len + 7) \div 8) * 8

valuesOf(column) ==
    CASE column.type = "Variable" -> {Null} \cup Lengths
      [] column.type = "Fixed"    -> {Null} \cup 0..column.size
      [] OTHER                    -> {Null, 8}

\* The length mysql_stmt_fetch reports for a null value is 0.
lengthOf(value) == IF value = Null THEN 0 ELSE value

\* The bytes a value needs: the term of rowSize() for its column.
valueSize(column, value) ==
    CASE column.type = "Variable" -> lengthOf(value) + 16
      [] column.type = "Fixed"    -> sizeofAligned8(column.size)
      [] OTHER                    -> 8

rowSize(values) ==
    FoldLeftDomain(LAMBDA n, i : n + valueSize(schema[i], values[i]), 0, schema)

newWriter ==
    [m_offset |-> 0, m_row_fixed_size |-> 0, m_row_offset |-> 0,
     m_column_count |-> 0, m_row_column_count |-> 0]

newChunk(size) ==
    [m_size |-> size, row_count |-> 0, consumed_size |-> 0, variable_offset |-> 0]

Init ==
    /\ schema \in Schemas
    /\ byRow \in BOOLEAN
    /\ ndebug \in BOOLEAN
    /\ \E size \in ChunkSizes : c = newChunk(size)
    /\ cells = {}
    /\ w = newWriter
    /\ r = [m_offset |-> 0, values |-> <<>>]
    /\ row = <<>>
    /\ written = <<>>
    /\ got = <<>>
    /\ phase = "write"

-----------------------------------------------------------------------------
(* The writer.  Writing one value is an operator on the record s of the    *)
(* chunk, the writer and the memory, so that WriteRow can be the fold of   *)
(* the columns.                                                            *)

\* Mutant: a value may take one byte more than there is.
HasEnoughSpaceOff(size) == c.m_size - c.variable_offset - w.m_offset + 1 >= size

HasEnoughSpace(size) == c.m_size - c.variable_offset - w.m_offset >= size

cell(at, len, what) == [at |-> at, len |-> len, what |-> what]

\* Write, Write8, Write4 and Pad: the bytes at the front.
front(s, len, filled, what) ==
    [s EXCEPT !.cells = @ \cup (IF filled = 0 THEN {} ELSE {cell(s.w.m_offset, filled, what)}),
              !.w.m_offset = @ + len,
              !.c.consumed_size = @ + len]

\* Mutant: the distance is written before it is increased.
writeVariableOff(s, value, tag) ==
    LET len   == lengthOf(value)
        head  == front(front(s, 8, 8, ofNumber(s.c.variable_offset)), 8, 8, ofNumber(len))
        grown == [head EXCEPT !.c.variable_offset = @ + len]
    IN IF len = 0 THEN grown
       ELSE [grown EXCEPT
                !.cells = @ \cup {cell(s.c.m_size - grown.c.variable_offset, len, tag)},
                !.c.consumed_size = @ + len]

\* Mutant: the bytes at the back are not counted.
writeVariableUncounted(s, value, tag) ==
    LET len   == lengthOf(value)
        grown == [s EXCEPT !.c.variable_offset = @ + len]
        head  == front(front(grown, 8, 8, ofNumber(grown.c.variable_offset)), 8, 8, ofNumber(len))
    IN IF len = 0 THEN head
       ELSE [head EXCEPT
                !.cells = @ \cup {cell(s.c.m_size - grown.c.variable_offset, len, tag)}]

\* The distance from the end and the length go to the front, the bytes (if
\* any) to the back.
writeVariable(s, value, tag) ==
    LET len   == lengthOf(value)
        grown == [s EXCEPT !.c.variable_offset = @ + len]
        head  == front(front(grown, 8, 8, ofNumber(grown.c.variable_offset)), 8, 8, ofNumber(len))
    IN IF len = 0 THEN head
       ELSE [head EXCEPT
                !.cells = @ \cup {cell(s.c.m_size - grown.c.variable_offset, len, tag)},
                !.c.consumed_size = @ + len]

\* A null is a field of zero bytes; data shorter than the field is padded with
\* zeros or spaces.  (Data is taken to have a byte that is neither.)
writeFixed(s, column, value, tag) ==
    LET len == sizeofAligned8(column.size)
    IN front(s, len, len, IF lengthOf(value) = 0 THEN Blank ELSE tag)

writeInt32(s, what) == front(s, 8, 4, what)

write8(s, what) == front(s, 8, 8, what)

RecordColumn(s) ==
    [s EXCEPT !.w.m_column_count = IF s.w.m_row_fixed_size = 0 THEN @ + 1 ELSE @,
              !.w.m_row_column_count = @ + 1]

\* The cases of WriteRow, and the writing functions of the C API.
writeValue(s, i, value) ==
    LET column == schema[i]
        tag    == ofValue(Len(written) + 1, i)
        what   == IF value = Null THEN NullMark ELSE tag
        t      == RecordColumn(s)
    IN CASE column.type = "Variable" -> writeVariable(t, value, tag)
         [] column.type = "Fixed"    -> writeFixed(t, column, value, tag)
         [] column.type = "Int32"    -> writeInt32(t, what)
         [] OTHER                    -> write8(t, what)

state == [c |-> c, w |-> w, cells |-> cells]

\* The body of WriteRowEnd.
rowEnded(s) ==
    [s EXCEPT !.w.m_row_fixed_size = IF @ = 0 THEN s.w.m_offset ELSE @,
              !.w.m_row_offset = s.w.m_offset,
              !.w.m_row_column_count = 0,
              !.c.row_count = @ + 1]

become(s) ==
    /\ c' = s.c
    /\ w' = s.w
    /\ cells' = s.cells

Rows == {values \in [DOMAIN schema -> UNION {valuesOf(schema[i]) : i \in DOMAIN schema}] :
            \A i \in DOMAIN schema : values[i] \in valuesOf(schema[i])}

\* The loop of WriteRow over the columns.
writeColumns(s, values) == FoldLeftDomain(LAMBDA t, i : writeValue(t, i, values[i]), s, schema)

\* The row fits: all of its columns, then WriteRowEnd.
WriteRow ==
    /\ phase = "write" /\ byRow
    /\ \E values \in Rows :
          /\ HasEnoughSpace(rowSize(values))
          /\ become(rowEnded(writeColumns(state, values)))
          /\ written' = Append(written, values)
    /\ UNCHANGED <<schema, byRow, ndebug, r, row, got, phase>>

\* The row does not fit: WriteRow throws for the first row of a chunk and
\* returns false otherwise.
WriteRowFails ==
    /\ phase = "write" /\ byRow
    /\ \E values \in Rows : ~HasEnoughSpace(rowSize(values))
    /\ phase' = IF c.row_count = 0 THEN "threw" ELSE "full"
    /\ UNCHANGED <<schema, byRow, ndebug, c, cells, w, r, row, written, got>>

\* One value through the C API, with the space checked for that value alone.
WriteValue ==
    /\ phase = "write" /\ ~byRow /\ Len(row) < Len(schema)
    /\ LET i == Len(row) + 1
       IN \E value \in valuesOf(schema[i]) :
             \/ /\ HasEnoughSpace(valueSize(schema[i], value))
                /\ become(writeValue(state, i, value))
                /\ row' = Append(row, value)
                /\ UNCHANGED phase
             \/ /\ ~HasEnoughSpace(valueSize(schema[i], value))
                /\ phase' = "full"
                /\ UNCHANGED <<c, w, cells, row>>
    /\ UNCHANGED <<schema, byRow, ndebug, r, written, got>>

WriteRowEnd ==
    /\ phase = "write" /\ ~byRow /\ Len(row) = Len(schema)
    /\ become(rowEnded(state))
    /\ written' = Append(written, row)
    /\ row' = <<>>
    /\ UNCHANGED <<schema, byRow, ndebug, r, got, phase>>

-----------------------------------------------------------------------------
(* The reader.                                                             *)

\* SuperChunkReader::Reset over a chunk that was handed on, full or not.
ResetReader ==
    /\ phase = "full" \/ (phase = "write" /\ row = <<>>)
    /\ phase' = "read"
    /\ UNCHANGED <<schema, byRow, ndebug, c, cells, w, r, row, written, got>>

CanRead(at, len) == at + len <= c.m_size

\* What the memory at an address holds.
contents(address) ==
    LET here == {x \in cells : x.at = address}
    IN IF here = {} THEN Garbage ELSE (CHOOSE x \in here : TRUE).what

number(address) == contents(address)[2]

\* What a read returns: a value or null, where the next one begins, whether
\* the bytes were there; ReadInt32 pads, which counts the bytes again.
answer(value, next, ok, recounted) ==
    [value |-> value, next |-> next, ok |-> ok, recounted |-> recounted]

ReadVariable ==
    LET address == c.m_size - number(r.m_offset)
        len     == number(r.m_offset + 8)
    IN IF ~CanRead(r.m_offset, 16) THEN answer(Garbage, r.m_offset, FALSE, 0)
       ELSE IF len = 0 THEN answer(NullMark, r.m_offset + 16, TRUE, 0)
       ELSE answer(contents(address), r.m_offset + 16, CanRead(address, len), 0)

ReadFixed(column) ==
    LET len == sizeofAligned8(column.size)
    IN IF column.size = 0 THEN answer(NullMark, r.m_offset, TRUE, 0)
       ELSE IF c.m_size - r.m_offset < len THEN answer(Garbage, r.m_offset, FALSE, 0)
       ELSE answer(IF contents(r.m_offset) = Blank THEN NullMark ELSE contents(r.m_offset),
                   r.m_offset + len, TRUE, 0)

\* ReadInt64 and ReadFloat, and ReadInt32.
ReadNumber(column) ==
    IF ~CanRead(r.m_offset, 8) THEN answer(Garbage, r.m_offset, FALSE, 0)
    ELSE answer(contents(r.m_offset), r.m_offset + 8, TRUE,
                IF column.type = "Int32" THEN 4 ELSE 0)

ReadColumn(column) ==
    CASE column.type = "Variable" -> ReadVariable
      [] column.type = "Fixed"    -> ReadFixed(column)
      [] OTHER                    -> ReadNumber(column)

\* assert(offset) of ReadVariable, once the two numbers can be read.  The distance is
\* 0 for a null or an empty value with no byte of another one behind it.
assertFails ==
    /\ ~ndebug
    /\ schema[Len(r.values) + 1].type = "Variable"
    /\ CanRead(r.m_offset, 16)
    /\ number(r.m_offset) = 0

Abort ==
    /\ phase = "read" /\ Len(got) < c.row_count
    /\ assertFails
    /\ phase' = "aborted"
    /\ UNCHANGED <<schema, byRow, ndebug, c, cells, w, r, row, written, got>>

\* One step of the loops of ChunkToTSV; a read that fails ends them.
ReadValue ==
    /\ phase = "read" /\ Len(got) < c.row_count
    /\ ~assertFails
    /\ LET i       == Len(r.values) + 1
           a       == ReadColumn(schema[i])
           values  == Append(r.values, a.value)
           whole   == i = Len(schema)
       IN /\ phase' = IF a.ok THEN "read" ELSE "bad chunk"
          /\ r' = [m_offset |-> a.next, values |-> IF whole THEN <<>> ELSE values]
          /\ got' = IF whole THEN Append(got, values) ELSE got
          /\ c' = [c EXCEPT !.consumed_size = @ + a.recounted]
    /\ UNCHANGED <<schema, byRow, ndebug, cells, w, row, written>>

Next ==
    \/ WriteRow \/ WriteRowFails \/ WriteValue \/ WriteRowEnd
    \/ ResetReader \/ ReadValue \/ Abort

Spec == Init /\ [][Next]_vars

\* Nothing is written outside the chunk and no byte is written twice: the
\* rows growing from the front and the values growing from the back never
\* meet, for rows checked as a whole and for values checked one by one.
CellsApart ==
    /\ \A x \in cells : x.at >= 0 /\ x.at + x.len <= c.m_size
    /\ \A x, y \in cells : x = y \/ x.at + x.len <= y.at \/ y.at + y.len <= x.at

\* The books of the writer: the assertion of HasEnoughSpace; consumed_size is
\* the sum of the two parts for as long as nobody reads the chunk; all rows have
\* the same length at the front, with nulls and without, so that a reader that
\* only knows the schema finds each of them.  (WriteRowEnd asserts it for the
\* first row.)
SpaceAccounted ==
    /\ w.m_row_offset = c.row_count * w.m_row_fixed_size
    /\ w.m_offset + c.variable_offset <= c.m_size
    /\ phase \in {"write", "full", "threw"} => c.consumed_size = w.m_offset + c.variable_offset

asRead(n) ==
    [i \in DOMAIN schema |->
        IF lengthOf(written[n][i]) = 0 THEN NullMark ELSE ofValue(n, i)]

\* The reader gets back every row that was ended, value by value (an empty
\* value as null, which the format cannot tell from it), and no row
\* that was not: a row whose last values did not fit is not seen, although
\* its first values are in the chunk.  A build with assertions does not get as
\* far with every chunk: it aborts at a null or empty variable value and nowhere
\* else; a build without them never does.
ReadsBack ==
    /\ phase # "bad chunk"
    /\ got = [n \in 1..Len(got) |-> asRead(n)]
    /\ Len(got) <= Len(written)
    /\ phase = "aborted" =>
          /\ ~ndebug
          /\ schema[Len(r.values) + 1].type = "Variable"
          /\ lengthOf(written[Len(got) + 1][Len(r.values) + 1]) = 0
==============================================================================
