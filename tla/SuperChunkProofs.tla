-------------------------- MODULE SuperChunkProofs --------------------------
(***************************************************************************)
(* Proofs about SuperChunk for any schemas, sizes of chunks and lengths of *)
(* values: the rows and the values never meet, the books of the writer are *)
(* right, and the reader gets back exactly the rows that were ended.       *)
(***************************************************************************)
EXTENDS SuperChunk, WellFoundedInduction, TLAPS

-----------------------------------------------------------------------------
(* The inductive invariant.                                                *)

Column == [type : Types, size : Nat]
What == {"value", "number", "null", "blank"} \X Int \X Int
Memory == [at : Int, len : Nat \ {0}, what : What]
Chunk == [m_size : Nat, row_count : Nat, consumed_size : Nat, variable_offset : Nat]
Writer == [m_offset : Nat, m_row_fixed_size : Nat, m_row_offset : Nat,
           m_column_count : Nat, m_row_column_count : Nat]
State == [c : Chunk, w : Writer, cells : SUBSET Memory]

\* The bytes that a column takes at the front, whatever its value.
width(column) ==
    CASE column.type = "Variable" -> 16
      [] column.type = "Fixed"    -> sizeofAligned8(column.size)
      [] OTHER                    -> 8

\* Where the columns of a row begin, and its length at the end.
isLayout(f, s) ==
    /\ f \in [0 .. Len(s) -> Nat]
    /\ f[0] = 0
    /\ \A k \in 1 .. Len(s) : f[k] = f[k - 1] + width(s[k])

offset == CHOOSE f : isLayout(f, schema)
rowWidth == offset[Len(schema)]

\* The memory has the value v of column i at the address.
holds(s, at, n, i, v) ==
    CASE schema[i].type = "Variable" ->
            \E d \in Nat :
                /\ cell(at, 8, ofNumber(d)) \in s.cells
                /\ cell(at + 8, 8, ofNumber(lengthOf(v))) \in s.cells
                /\ lengthOf(v) # 0 =>
                      cell(s.c.m_size - d, lengthOf(v), ofValue(n, i)) \in s.cells
      [] schema[i].type = "Fixed" ->
            schema[i].size # 0 =>
                cell(at, sizeofAligned8(schema[i].size),
                     IF lengthOf(v) = 0 THEN Blank ELSE ofValue(n, i)) \in s.cells
      [] OTHER ->
            cell(at, IF schema[i].type = "Int32" THEN 4 ELSE 8,
                 IF v = Null THEN NullMark ELSE ofValue(n, i)) \in s.cells

place(n, i) == (n - 1) * rowWidth + offset[i - 1]

\* Every cell is in one of the two parts, and no two of them overlap.
Apart(s) ==
    /\ \A x \in s.cells :
          \/ x.at >= 0 /\ x.at + x.len <= s.w.m_offset
          \/ x.at >= s.c.m_size - s.c.variable_offset /\ x.at + x.len <= s.c.m_size
    /\ \A x, y \in s.cells : x = y \/ x.at + x.len <= y.at \/ y.at + y.len <= x.at

\* The memory has the rows that were ended and the first k values of the next.
Stored(s, k, values) ==
    /\ \A n \in 1 .. Len(written) : \A i \in 1 .. Len(schema) :
          holds(s, place(n, i), n, i, written[n][i])
    /\ \A i \in 1 .. k : holds(s, place(Len(written) + 1, i), Len(written) + 1, i, values[i])

\* The state of a writer that has come to column k of a row.
Good(s, k, values) ==
    /\ s \in State
    /\ s.w.m_offset = Len(written) * rowWidth + offset[k]
    /\ s.w.m_offset + s.c.variable_offset <= s.c.m_size
    /\ s.c.row_count = Len(written)
    /\ s.w.m_row_offset = Len(written) * rowWidth
    /\ s.w.m_row_fixed_size = IF Len(written) = 0 THEN 0 ELSE rowWidth
    /\ Apart(s)
    /\ Stored(s, k, values)

Accounted(s) == s.c.consumed_size = s.w.m_offset + s.c.variable_offset

isRow(values) ==
    /\ values \in Seq(Int)
    /\ Len(values) = Len(schema)
    /\ \A i \in 1 .. Len(schema) : values[i] \in valuesOf(schema[i])

Typed ==
    /\ schema \in Schemas
    /\ byRow \in BOOLEAN
    /\ phase \in {"write", "full", "threw", "read", "aborted"}
    /\ row \in Seq(Int) /\ Len(row) <= Len(schema)
    /\ \A i \in 1 .. Len(row) : row[i] \in valuesOf(schema[i])
    /\ byRow => row = <<>>
    /\ written \in Seq(Seq(Int))
    /\ \A n \in 1 .. Len(written) : isRow(written[n])

\* The reader is at the first value that it has not read.
Reading ==
    /\ r \in [m_offset : Nat, values : Seq(What)]
    /\ got \in Seq(Seq(What))
    /\ Len(got) <= Len(written)
    /\ Len(r.values) < Len(schema)
    /\ r.m_offset = Len(got) * rowWidth + offset[Len(r.values)]
    /\ \A n \in 1 .. Len(got) : got[n] = asRead(n)
    /\ r.values # <<>> => Len(got) < Len(written)
    /\ \A i \in 1 .. Len(r.values) : r.values[i] = asRead(Len(got) + 1)[i]

\* The assertion has met a null or empty variable value.
Aborted ==
    /\ ~ndebug
    /\ schema[Len(r.values) + 1].type = "Variable"
    /\ lengthOf(written[Len(got) + 1][Len(r.values) + 1]) = 0

IInv ==
    /\ Typed
    /\ Good(state, Len(row), row)
    /\ phase \notin {"read", "aborted"} => Accounted(state)
    /\ Reading
    /\ phase = "aborted" => Aborted

-----------------------------------------------------------------------------
(* Induction, for sets of numbers.                                         *)

less == {ss \in Nat \X Nat : ss[1] < ss[2]}

\* A set of natural numbers that is not empty has a least element.
LEMMA Least ==
    ASSUME NEW S \in SUBSET Nat, S # {}
    PROVE  \E m \in S : \A k \in S : m <= k
<1>1. IsWellFoundedOn(less, Nat)
  BY NatLessThanWellFounded DEF OpToRel, less
<1>2. PICK m \in S : \A k \in S : ~(<<k, m>> \in less)
  BY <1>1, WFMin
<1>3. ASSUME NEW k \in S PROVE m <= k
  <2>1. m \in Nat /\ k \in Nat /\ ~(<<k, m>> \in less)
    BY <1>2
  <2> QED BY <2>1 DEF less
<1> QED BY <1>3

\* A set that has 0 and with every number the next one has them all.
LEMMA Induction ==
    ASSUME NEW S \in SUBSET Nat, 0 \in S, \A n \in S : n + 1 \in S
    PROVE  S = Nat
<1> SUFFICES ASSUME S # Nat PROVE FALSE
  OBVIOUS
<1>1. Nat \ S \in SUBSET Nat /\ Nat \ S # {}
  OBVIOUS
<1>2. PICK m \in Nat \ S : \A k \in Nat \ S : m <= k
  BY <1>1, Least
<1>3. m - 1 \in Nat /\ m - 1 < m
  BY <1>2
<1>4. m - 1 \in S
  BY <1>2, <1>3
<1> QED BY <1>2, <1>4

\* A set of numbers with an upper bound has a greatest element, which is Max.
LEMMA MaxOf ==
    ASSUME NEW k \in Nat, NEW s \in SUBSET (1 .. k), s # {}
    PROVE  Max(s) \in s /\ \A y \in s : y <= Max(s)
<1> DEFINE U == {n \in Nat : \A y \in s : y <= n}
<1>1. U \in SUBSET Nat /\ k \in U
  OBVIOUS
<1>2. PICK m \in U : \A n \in U : m <= n
  BY <1>1, Least
<1>3. m \in s
  <2> SUFFICES ASSUME m \notin s PROVE FALSE
    OBVIOUS
  <2>1. m \in Nat /\ \A y \in s : y \in Nat /\ y <= m /\ y # m /\ y >= 1
    BY <1>2
  <2>2. PICK y \in s : TRUE
    OBVIOUS
  <2>3. m - 1 \in Nat /\ \A x \in s : x <= m - 1
    BY <2>1, <2>2
  <2>4. m - 1 \in U
    BY <2>3
  <2> QED BY <1>2, <2>1, <2>4
<1>4. m \in s /\ \A y \in s : m >= y
  BY <1>2, <1>3
<1> HIDE DEF U
<1>5. Max(s) \in s /\ \A y \in s : Max(s) >= y
  BY <1>4 DEF Max
<1> QED BY <1>5

-----------------------------------------------------------------------------
(* The layout of a row.                                                    *)

\* What a field is rounded up to.
LEMMA Aligned ==
    ASSUME NEW n \in Nat
    PROVE  /\ sizeofAligned8(n) \in Nat
           /\ sizeofAligned8(n) >= n
           /\ n = 0 => sizeofAligned8(n) = 0
<1> DEFINE q == (n + 7) \div 8
           m == (n + 7) % 8
<1>1. q \in Nat /\ m \in 0 .. 7 /\ n + 7 = 8 * q + m
  OBVIOUS
<1>2. sizeofAligned8(n) = 8 * q
  BY <1>1 DEF sizeofAligned8
<1> HIDE DEF q, m
<1>3. 8 * q \in Nat /\ 8 * q >= n
  BY <1>1
<1>4. n = 0 => q = 0
  BY <1>1
<1> QED BY <1>2, <1>3, <1>4

\* A width is a number.
LEMMA Width ==
    ASSUME NEW column \in Column
    PROVE  width(column) \in Nat
<1>1. column.size \in Nat
  BY DEF Column
<1>2. sizeofAligned8(column.size) \in Nat
  BY <1>1, Aligned
<1> QED BY <1>2 DEF width

\* Every schema has a layout.
LEMMA LayoutExists ==
    ASSUME NEW s \in Seq(Column)
    PROVE  \E f : isLayout(f, s)
<1> DEFINE P(k, f) == /\ f \in [0 .. k -> Nat]
                      /\ f[0] = 0
                      /\ \A j \in 1 .. k : f[j] = f[j - 1] + width(s[j])
           S == {k \in Nat : k <= Len(s) => \E f : P(k, f)}
<1>1. 0 \in S
  <2> DEFINE f == [j \in 0 .. 0 |-> 0]
  <2>1. P(0, f)
    OBVIOUS
  <2> HIDE DEF f
  <2> QED BY <2>1
<1>2. ASSUME NEW k \in S PROVE k + 1 \in S
  <2> HIDE DEF P
  <2> SUFFICES ASSUME k + 1 <= Len(s) PROVE \E f : P(k + 1, f)
    OBVIOUS
  <2>1. PICK f : P(k, f)
    OBVIOUS
  <2> USE DEF P
  <2>2. s[k + 1] \in Column
    OBVIOUS
  <2>3. width(s[k + 1]) \in Nat
    BY <2>2, Width
  <2> DEFINE g == [j \in 0 .. (k + 1) |-> IF j = k + 1 THEN f[k] + width(s[k + 1]) ELSE f[j]]
  <2>4. f[k] \in Nat /\ k \in Nat
    BY <2>1
  <2>5. \A j \in 0 .. k : g[j] = f[j]
    OBVIOUS
  <2>6. g[k + 1] = f[k] + width(s[k + 1])
    OBVIOUS
  <2>7. g \in [0 .. (k + 1) -> Nat]
    <3> HIDE DEF P
    <3>1. \A j \in 0 .. k : f[j] \in Nat
      BY <2>1 DEF P
    <3> QED BY <2>3, <2>4, <3>1
  <2> HIDE DEF g
  <2>8. ASSUME NEW j \in 1 .. (k + 1) PROVE g[j] = g[j - 1] + width(s[j])
    <3>1. CASE j = k + 1
      BY <2>4, <2>5, <2>6, <3>1
    <3>2. CASE j # k + 1
      <4>1. j \in 1 .. k /\ j \in 0 .. k /\ j - 1 \in 0 .. k
        BY <2>4, <3>2
      <4> QED BY <2>1, <2>5, <4>1
    <3> QED BY <3>1, <3>2
  <2>9. P(k + 1, g)
    BY <2>1, <2>4, <2>5, <2>7, <2>8
  <2> QED BY <2>9
<1>3. S = Nat
  <2> HIDE DEF S
  <2>1. S \in SUBSET Nat
    BY DEF S
  <2> QED BY <1>1, <1>2, <2>1, Induction
<1>4. PICK f : P(Len(s), f)
  BY <1>3
<1> QED BY <1>4 DEF isLayout

\* The layout of the schema.
LEMMA Layout ==
    ASSUME schema \in Schemas
    PROVE  /\ schema \in Seq(Column) /\ Len(schema) \in Nat \ {0}
           /\ offset \in [0 .. Len(schema) -> Nat] /\ offset[0] = 0 /\ rowWidth \in Nat
           /\ \A k \in 1 .. Len(schema) : offset[k] = offset[k - 1] + width(schema[k])
<1>1. schema \in Seq(Column) /\ schema # <<>>
  BY SuperChunkAssumption DEF Column
<1>2. Len(schema) \in Nat \ {0}
  BY <1>1
<1>3. isLayout(offset, schema)
  <2>1. \E f : isLayout(f, schema)
    BY <1>1, LayoutExists
  <2> QED BY <2>1 DEF offset
<1>4. rowWidth \in Nat
  BY <1>2, <1>3 DEF isLayout, rowWidth
<1> QED BY <1>1, <1>2, <1>3, <1>4 DEF isLayout

-----------------------------------------------------------------------------
(* What writing a value does.                                              *)

\* From s to t len bytes were written at the front and tail bytes at the back.
wrote(t, s, len, tail, new) ==
    /\ t \in State
    /\ t.c.m_size = s.c.m_size /\ t.c.row_count = s.c.row_count
    /\ t.w.m_row_fixed_size = s.w.m_row_fixed_size /\ t.w.m_row_offset = s.w.m_row_offset
    /\ t.w.m_offset = s.w.m_offset + len
    /\ t.c.variable_offset = s.c.variable_offset + tail
    /\ t.c.consumed_size = s.c.consumed_size + len + tail
    /\ t.cells = s.cells \cup new

\* What a cell holds is of one kind.
LEMMA Tags ==
    /\ \A n \in Nat : ofNumber(n) \in What
    /\ \A n, i \in Nat : ofValue(n, i) \in What
    /\ NullMark \in What /\ Blank \in What
<1>1. \A k \in {"number", "value", "null", "blank"} : \A n, i \in Int : <<k, n, i>> \in What
  BY DEF What
<1> QED BY <1>1 DEF ofNumber, ofValue, NullMark, Blank

\* The bytes at the front.
LEMMA FrontWritten ==
    ASSUME NEW s \in State, NEW len \in Nat, NEW filled \in Nat, NEW what \in What
    PROVE  wrote(front(s, len, filled, what), s, len, 0,
                 IF filled = 0 THEN {} ELSE {cell(s.w.m_offset, filled, what)})
<1> DEFINE new == IF filled = 0 THEN {} ELSE {cell(s.w.m_offset, filled, what)}
<1>1. new \in SUBSET Memory
  BY DEF Memory, cell, State, Chunk, Writer
<1>2. PICK t : t = front(s, len, filled, what)
  OBVIOUS
<1>3. t = [s EXCEPT !.cells = @ \cup new, !.w.m_offset = @ + len, !.c.consumed_size = @ + len]
  BY <1>2 DEF front
<1> HIDE DEF new
<1>4. t = [c |-> [s.c EXCEPT !.consumed_size = @ + len], w |-> [s.w EXCEPT !.m_offset = @ + len],
           cells |-> s.cells \cup new]
  BY <1>3 DEF State, Chunk, Writer
<1>5. t \in State
  BY <1>1, <1>4 DEF State, Chunk, Writer
<1>6. wrote(t, s, len, 0, new)
  BY <1>4, <1>5 DEF State, Chunk, Writer, wrote
<1> QED BY <1>2, <1>6 DEF new

\* The same when there are bytes.
LEMMA FrontFilled ==
    ASSUME NEW s \in State, NEW len \in Nat, NEW filled \in Nat, filled # 0, NEW what \in What
    PROVE  wrote(front(s, len, filled, what), s, len, 0, {cell(s.w.m_offset, filled, what)})
BY FrontWritten

\* RecordColumn only counts.
LEMMA Recorded ==
    ASSUME NEW s \in State
    PROVE  wrote(RecordColumn(s), s, 0, 0, {})
<1>1. PICK t : t = RecordColumn(s)
  OBVIOUS
<1>2. PICK m \in Nat : m = IF s.w.m_row_fixed_size = 0 THEN s.w.m_column_count + 1
                           ELSE s.w.m_column_count
  BY DEF State, Chunk, Writer
<1>3. t = [c |-> s.c, cells |-> s.cells,
           w |-> [s.w EXCEPT !.m_column_count = m, !.m_row_column_count = @ + 1]]
  BY <1>1, <1>2 DEF RecordColumn, State, Chunk, Writer
<1>4. t \in State
  <2>1. PICK v : v = [s.w EXCEPT !.m_column_count = m, !.m_row_column_count = @ + 1]
    OBVIOUS
  <2>2. s.w \in Writer
    BY DEF State
  <2>3. s.w.m_row_column_count + 1 \in Nat
    BY <2>2 DEF Writer
  <2>4. v \in Writer
    BY <1>2, <2>1, <2>2, <2>3 DEF Writer
  <2> QED BY <1>3, <2>1, <2>4 DEF State
<1>5. /\ t.w.m_offset = s.w.m_offset /\ t.w.m_row_fixed_size = s.w.m_row_fixed_size
      /\ t.w.m_row_offset = s.w.m_row_offset /\ t.c = s.c /\ t.cells = s.cells
  BY <1>3 DEF State, Chunk, Writer
<1>6. s.w.m_offset \in Nat /\ s.c.variable_offset \in Nat /\ s.c.consumed_size \in Nat
  BY DEF State, Chunk, Writer
<1> QED BY <1>1, <1>4, <1>5, <1>6 DEF wrote

\* One write after another.
LEMMA WroteTwice ==
    ASSUME NEW s \in State, NEW t, NEW u, NEW a \in Nat, NEW b \in Nat, NEW k \in Nat, NEW l \in Nat,
           NEW X, NEW Y, wrote(t, s, a, k, X), wrote(u, t, b, l, Y)
    PROVE  wrote(u, s, a + b, k + l, X \cup Y)
<1>1. s.w.m_offset \in Nat /\ s.c.variable_offset \in Nat /\ s.c.consumed_size \in Nat
  BY DEF State, Chunk, Writer
<1> QED BY <1>1 DEF wrote

\* The cells of a value at the places that s has come to.
newCells(s, i, value) ==
    LET at == s.w.m_offset
        n  == Len(written) + 1
    IN CASE schema[i].type = "Variable" ->
               {cell(at, 8, ofNumber(s.c.variable_offset + lengthOf(value))),
                cell(at + 8, 8, ofNumber(lengthOf(value)))}
               \cup (IF lengthOf(value) = 0 THEN {}
                     ELSE {cell(s.c.m_size - (s.c.variable_offset + lengthOf(value)),
                                lengthOf(value), ofValue(n, i))})
         [] schema[i].type = "Fixed" ->
               IF sizeofAligned8(schema[i].size) = 0 THEN {}
               ELSE {cell(at, sizeofAligned8(schema[i].size),
                          IF lengthOf(value) = 0 THEN Blank ELSE ofValue(n, i))}
         [] OTHER ->
               {cell(at, IF schema[i].type = "Int32" THEN 4 ELSE 8,
                     IF value = Null THEN NullMark ELSE ofValue(n, i))}

tailOf(column, value) == IF column.type = "Variable" THEN lengthOf(value) ELSE 0

\* A value of variable length.
LEMMA WroteVariable ==
    ASSUME NEW s \in State, NEW value, lengthOf(value) \in Nat, NEW tag \in What
    PROVE  wrote(writeVariable(s, value, tag), s, 16, lengthOf(value),
                 {cell(s.w.m_offset, 8, ofNumber(s.c.variable_offset + lengthOf(value))),
                  cell(s.w.m_offset + 8, 8, ofNumber(lengthOf(value)))}
                 \cup (IF lengthOf(value) = 0 THEN {}
                       ELSE {cell(s.c.m_size - (s.c.variable_offset + lengthOf(value)),
                                  lengthOf(value), tag)}))
<1>1. PICK len \in Nat : len = lengthOf(value)
  OBVIOUS
<1>2. PICK vo \in Nat : vo = s.c.variable_offset + len
  BY DEF State, Chunk, Writer
<1>3. PICK g : g = [s EXCEPT !.c.variable_offset = @ + len]
  OBVIOUS
<1>4. /\ g \in State /\ g.c.m_size = s.c.m_size /\ g.c.row_count = s.c.row_count
      /\ g.w = s.w /\ g.cells = s.cells /\ g.c.variable_offset = vo
      /\ g.c.consumed_size = s.c.consumed_size
  <2>1. g = [c |-> [s.c EXCEPT !.variable_offset = vo], w |-> s.w, cells |-> s.cells]
    BY <1>2, <1>3 DEF State, Chunk, Writer
  <2> QED BY <2>1 DEF State, Chunk, Writer
<1> DEFINE a == {cell(s.w.m_offset, 8, ofNumber(vo))}
           b == {cell(s.w.m_offset + 8, 8, ofNumber(len))}
           at == s.c.m_size - vo
           z == {cell(at, len, tag)}
<1>5. ofNumber(vo) \in What /\ ofNumber(len) \in What
  BY Tags
<1>6. PICK h : h = front(g, 8, 8, ofNumber(vo))
  OBVIOUS
<1>7. PICK k : k = front(h, 8, 8, ofNumber(len))
  OBVIOUS
<1>8. wrote(h, g, 8, 0, a)
  <2>1. wrote(h, g, 8, 0, {cell(g.w.m_offset, 8, ofNumber(vo))})
    BY <1>4, <1>5, <1>6, FrontFilled
  <2> QED BY <1>4, <2>1
<1>9. h \in State /\ h.w.m_offset = s.w.m_offset + 8
  BY <1>4, <1>8 DEF wrote
<1>10. wrote(k, h, 8, 0, b)
  <2>1. wrote(k, h, 8, 0, {cell(h.w.m_offset, 8, ofNumber(len))})
    BY <1>5, <1>7, <1>9, FrontFilled
  <2> QED BY <1>9, <2>1
<1> HIDE DEF a, b
<1>11. wrote(k, g, 16, 0, a \cup b)
  BY <1>4, <1>8, <1>10, WroteTwice
<1>12. CASE len = 0
  <2>1. writeVariable(s, value, tag) = k
    BY <1>1, <1>2, <1>3, <1>4, <1>6, <1>7, <1>12 DEF writeVariable
  <2>2. wrote(k, s, 16, 0, a \cup b)
    BY <1>2, <1>4, <1>11, <1>12 DEF wrote, State, Chunk, Writer
  <2> QED BY <1>1, <1>2, <1>12, <2>1, <2>2 DEF a, b
<1>13. CASE len # 0
  <2>1. PICK t : t = [k EXCEPT !.cells = @ \cup z, !.c.consumed_size = @ + len]
    OBVIOUS
  <2>2. writeVariable(s, value, tag) = t
    BY <1>1, <1>2, <1>3, <1>4, <1>6, <1>7, <1>13, <2>1 DEF writeVariable
  <2>3. z \in SUBSET Memory
    BY <1>13 DEF Memory, cell, State, Chunk, Writer
  <2> HIDE DEF z
  <2>4. k \in State
    BY <1>11 DEF wrote
  <2>5. t = [c |-> [k.c EXCEPT !.consumed_size = @ + len], w |-> k.w, cells |-> k.cells \cup z]
    BY <2>1, <2>4 DEF State, Chunk, Writer
  <2>6. t \in State
    BY <2>3, <2>4, <2>5 DEF State, Chunk, Writer
  <2>7. wrote(t, s, 16, len, (a \cup b) \cup z)
    BY <1>2, <1>4, <1>11, <2>4, <2>5, <2>6 DEF wrote, State, Chunk, Writer
  <2> QED BY <1>1, <1>2, <1>13, <2>2, <2>7 DEF a, b, z
<1> QED BY <1>12, <1>13
\* The values of a column and their sizes.
LEMMA Values ==
    ASSUME schema \in Schemas, NEW i \in 1 .. Len(schema), NEW value \in valuesOf(schema[i])
    PROVE  /\ schema[i] \in Column /\ width(schema[i]) \in Nat
           /\ value \in Int /\ lengthOf(value) \in Nat /\ tailOf(schema[i], value) \in Nat
           /\ valueSize(schema[i], value) = width(schema[i]) + tailOf(schema[i], value)
<1>1. schema[i] \in Column
  BY Layout
<1>2. width(schema[i]) \in Nat
  BY <1>1, Width
<1>3. value = Null \/ value \in Nat
  BY <1>1, SuperChunkAssumption DEF valuesOf, Column
<1>4. value \in Int /\ lengthOf(value) \in Nat
  BY <1>3 DEF lengthOf, Null
<1>5. tailOf(schema[i], value) \in Nat
  BY <1>4 DEF tailOf
<1>6. valueSize(schema[i], value) = width(schema[i]) + tailOf(schema[i], value)
  <2>1. CASE schema[i].type = "Variable"
    BY <1>4, <2>1 DEF valueSize, width, tailOf
  <2>2. CASE schema[i].type # "Variable"
    <3>1. valueSize(schema[i], value) = width(schema[i]) /\ tailOf(schema[i], value) = 0
      BY <2>2 DEF valueSize, width, tailOf
    <3> QED BY <1>2, <3>1
  <2> QED BY <2>1, <2>2
<1> QED BY <1>1, <1>2, <1>4, <1>5, <1>6

\* A value is written as its width at the front and its bytes at the back.
LEMMA ValueWritten ==
    ASSUME schema \in Schemas, Len(written) \in Nat, NEW s \in State, NEW i \in 1 .. Len(schema),
           NEW value \in valuesOf(schema[i])
    PROVE  wrote(writeValue(s, i, value), s, width(schema[i]), tailOf(schema[i], value),
                 newCells(s, i, value))
<1> DEFINE n == Len(written) + 1
           X == newCells(s, i, value)
<1>1. PICK t : t = RecordColumn(s)
  OBVIOUS
<1>2. wrote(t, s, 0, 0, {})
  BY <1>1, Recorded
<1>3. t \in State /\ t.w.m_offset = s.w.m_offset /\ t.c.variable_offset = s.c.variable_offset
      /\ t.c.m_size = s.c.m_size
  BY <1>2 DEF wrote, State, Chunk, Writer
<1>4. schema[i] \in Column /\ lengthOf(value) \in Nat /\ value \in Int /\ i \in Nat
  BY Values, Layout
<1>5. PICK tag \in What : tag = ofValue(n, i)
  BY <1>4, Tags
<1>6. PICK what \in What : what = IF value = Null THEN NullMark ELSE tag
  BY <1>5, Tags
<1>7. PICK k : k = writeValue(s, i, value)
  OBVIOUS
<1>8. CASE schema[i].type = "Variable"
  <2>1. k = writeVariable(t, value, tag)
    BY <1>1, <1>5, <1>7, <1>8 DEF writeValue
  <2>2. X = {cell(t.w.m_offset, 8, ofNumber(t.c.variable_offset + lengthOf(value))),
             cell(t.w.m_offset + 8, 8, ofNumber(lengthOf(value)))}
            \cup (IF lengthOf(value) = 0 THEN {}
                  ELSE {cell(t.c.m_size - (t.c.variable_offset + lengthOf(value)),
                             lengthOf(value), tag)})
    BY <1>3, <1>5, <1>8 DEF newCells
  <2> HIDE DEF X
  <2>3. wrote(k, t, 16, lengthOf(value), X)
    BY <1>3, <1>4, <1>5, <2>1, <2>2, WroteVariable
  <2>4. wrote(k, s, 0 + 16, 0 + lengthOf(value), {} \cup X)
    BY <1>2, <1>4, <2>3, WroteTwice
  <2>5. 0 + 16 = width(schema[i]) /\ 0 + lengthOf(value) = tailOf(schema[i], value) /\ {} \cup X = X
    BY <1>4, <1>8 DEF width, tailOf
  <2> QED BY <1>7, <2>4, <2>5 DEF X
<1>9. CASE schema[i].type = "Fixed"
  <2>1. PICK len \in Nat : len = sizeofAligned8(schema[i].size)
    BY <1>4, Aligned DEF Column
  <2>2. PICK v \in What : v = IF lengthOf(value) = 0 THEN Blank ELSE tag
    BY <1>5, Tags
  <2>3. k = front(t, len, len, v)
    BY <1>1, <1>5, <1>7, <1>9, <2>1, <2>2 DEF writeValue, writeFixed
  <2>4. X = IF len = 0 THEN {} ELSE {cell(t.w.m_offset, len, v)}
    BY <1>3, <1>5, <1>9, <2>1, <2>2 DEF newCells
  <2> HIDE DEF X
  <2>5. wrote(k, t, len, 0, X)
    BY <1>3, <2>3, <2>4, FrontWritten
  <2>6. wrote(k, s, 0 + len, 0 + 0, {} \cup X)
    BY <1>2, <2>5, WroteTwice
  <2>7. 0 + len = width(schema[i]) /\ 0 + 0 = tailOf(schema[i], value) /\ {} \cup X = X
    BY <1>9, <2>1 DEF width, tailOf
  <2> QED BY <1>7, <2>6, <2>7 DEF X
<1>10. CASE schema[i].type \notin {"Variable", "Fixed"}
  <2>1. PICK m \in Nat \ {0} : m = IF schema[i].type = "Int32" THEN 4 ELSE 8
    OBVIOUS
  <2>2. k = front(t, 8, m, what)
    BY <1>1, <1>5, <1>6, <1>7, <1>10, <2>1 DEF writeValue, writeInt32, write8
  <2>3. X = {cell(t.w.m_offset, m, what)}
    BY <1>3, <1>5, <1>6, <1>10, <2>1 DEF newCells
  <2> HIDE DEF X
  <2>4. wrote(k, t, 8, 0, X)
    BY <1>3, <2>2, <2>3, FrontFilled
  <2>5. wrote(k, s, 0 + 8, 0 + 0, {} \cup X)
    BY <1>2, <2>4, WroteTwice
  <2>6. 0 + 8 = width(schema[i]) /\ 0 + 0 = tailOf(schema[i], value) /\ {} \cup X = X
    BY <1>10 DEF width, tailOf
  <2> QED BY <1>7, <2>5, <2>6 DEF X
<1> QED BY <1>8, <1>9, <1>10
-----------------------------------------------------------------------------
(* A value that fits keeps the writer in a good state.                     *)

\* The cells of a value are behind the rows or before the values, and apart.
LEMMA NewCellsPlaced ==
    ASSUME schema \in Schemas, Len(written) \in Nat, NEW s \in State, NEW i \in 1 .. Len(schema),
           NEW value \in valuesOf(schema[i]),
           s.w.m_offset + s.c.variable_offset + valueSize(schema[i], value) <= s.c.m_size
    PROVE  /\ \A x \in newCells(s, i, value) :
                 \/ /\ x.at >= s.w.m_offset
                    /\ x.at + x.len <= s.w.m_offset + width(schema[i])
                 \/ /\ x.at >= s.c.m_size - (s.c.variable_offset + tailOf(schema[i], value))
                    /\ x.at + x.len <= s.c.m_size - s.c.variable_offset
           /\ \A x, y \in newCells(s, i, value) :
                 x = y \/ x.at + x.len <= y.at \/ y.at + y.len <= x.at
<1> DEFINE X == newCells(s, i, value)
<1>1. PICK o \in Nat, vo \in Nat, m \in Nat :
         o = s.w.m_offset /\ vo = s.c.variable_offset /\ m = s.c.m_size
  BY DEF State, Chunk, Writer
<1>2. schema[i] \in Column /\ lengthOf(value) \in Nat
      /\ valueSize(schema[i], value) = width(schema[i]) + tailOf(schema[i], value)
  BY Values
<1>3. PICK len \in Nat : len = lengthOf(value)
  BY <1>2
<1>4. CASE schema[i].type = "Variable"
  <2>1. width(schema[i]) = 16 /\ tailOf(schema[i], value) = len
    BY <1>3, <1>4 DEF width, tailOf
  <2>2. o + vo + 16 + len <= m
    <3>1. valueSize(schema[i], value) = 16 + len
      BY <1>2, <2>1
    <3>2. (o + vo) + (16 + len) <= m
      BY <1>1, <3>1
    <3> QED BY <3>2
  <2>3. PICK a, b, z : /\ a = cell(o, 8, ofNumber(vo + len))
                       /\ b = cell(o + 8, 8, ofNumber(len))
                       /\ z = cell(m - (vo + len), len, ofValue(Len(written) + 1, i))
    OBVIOUS
  <2>4. X = {a, b} \cup (IF len = 0 THEN {} ELSE {z})
    BY <1>1, <1>3, <1>4, <2>3 DEF newCells
  <2>5. /\ a.at = o /\ a.len = 8 /\ b.at = o + 8 /\ b.len = 8
        /\ z.at = m - (vo + len) /\ z.len = len
    BY <2>3 DEF cell
  <2>6. \A x \in X : x = a \/ x = b \/ x = z
    BY <2>4
  <2>7. \A x \in X : \/ x.at >= o /\ x.at + x.len <= o + 16
                     \/ x.at >= m - (vo + len) /\ x.at + x.len <= m - vo
    <3> HIDE DEF X
    <3> QED BY <2>5, <2>6
  <2>8. \A x, y \in X : x = y \/ x.at + x.len <= y.at \/ y.at + y.len <= x.at
    <3> HIDE DEF X
    <3>1. a.at + a.len <= b.at /\ a.at + a.len <= z.at /\ b.at + b.len <= z.at
      BY <2>2, <2>5
    <3> QED BY <2>6, <3>1
  <2> QED BY <1>1, <2>1, <2>7, <2>8
<1>5. CASE schema[i].type # "Variable"
  <2>1. PICK l, what : l \in Nat /\ \A x \in X : x = cell(o, l, what) /\ l <= width(schema[i])
    <3>1. CASE schema[i].type = "Fixed"
      <4>1. sizeofAligned8(schema[i].size) \in Nat
        BY <1>2, Aligned DEF Column
      <4>2. PICK l \in Nat : l = sizeofAligned8(schema[i].size) /\ l = width(schema[i])
        BY <3>1, <4>1 DEF width
      <4>3. PICK what : what = IF lengthOf(value) = 0 THEN Blank ELSE ofValue(Len(written) + 1, i)
        OBVIOUS
      <4>4. \A x \in X : x = cell(o, l, what)
        BY <1>1, <1>5, <3>1, <4>2, <4>3 DEF newCells
      <4> HIDE DEF X
      <4> QED BY <4>2, <4>4
    <3>2. CASE schema[i].type # "Fixed"
      <4>1. PICK l \in {4, 8} : l = IF schema[i].type = "Int32" THEN 4 ELSE 8
        OBVIOUS
      <4>2. PICK what : what = IF value = Null THEN NullMark ELSE ofValue(Len(written) + 1, i)
        OBVIOUS
      <4>3. X = {cell(o, l, what)}
        BY <1>1, <1>5, <3>2, <4>1, <4>2 DEF newCells
      <4>4. width(schema[i]) = 8
        BY <1>5, <3>2 DEF width
      <4>5. l \in Nat /\ l <= width(schema[i])
        BY <4>1, <4>4
      <4> QED BY <4>3, <4>5
    <3> QED BY <3>1, <3>2
  <2>2. width(schema[i]) \in Nat
    BY <1>2, Width
  <2> HIDE DEF X
  <2>3. \A x \in X : x.at = o /\ x.len = l
    BY <2>1 DEF cell
  <2>4. \A x, y \in X : x = y
    BY <2>1
  <2>5. \A x \in X : x.at >= o /\ x.at + x.len <= o + width(schema[i])
    BY <2>1, <2>2, <2>3
  <2> QED BY <1>1, <2>4, <2>5 DEF X
<1> QED BY <1>4, <1>5

\* So all cells stay apart.
LEMMA ApartStep ==
    ASSUME NEW s \in State, NEW t, NEW len \in Nat, NEW tail \in Nat, NEW X, Apart(s),
           wrote(t, s, len, tail, X),
           s.w.m_offset + s.c.variable_offset + (len + tail) <= s.c.m_size,
           \A x \in X : \/ x.at >= s.w.m_offset /\ x.at + x.len <= s.w.m_offset + len
                        \/ /\ x.at >= s.c.m_size - (s.c.variable_offset + tail)
                           /\ x.at + x.len <= s.c.m_size - s.c.variable_offset,
           \A x, y \in X : x = y \/ x.at + x.len <= y.at \/ y.at + y.len <= x.at
    PROVE  Apart(t)
<1>1. PICK o \in Nat, vo \in Nat, m \in Nat :
         o = s.w.m_offset /\ vo = s.c.variable_offset /\ m = s.c.m_size
  BY DEF State, Chunk, Writer
<1>2. /\ t.w.m_offset = o + len /\ t.c.variable_offset = vo + tail /\ t.c.m_size = m
      /\ t.cells = s.cells \cup X /\ t.cells \in SUBSET Memory
  BY <1>1 DEF wrote, State
<1>3. \A x \in t.cells : x.at \in Int /\ x.len \in Nat /\ x.len # 0
  BY <1>2 DEF Memory
<1>4. \A x \in s.cells : \/ x.at >= 0 /\ x.at + x.len <= o
                         \/ x.at >= m - vo /\ x.at + x.len <= m
  BY <1>1 DEF Apart
<1>5. \A x \in X : \/ x.at >= o /\ x.at + x.len <= o + len
                   \/ x.at >= m - (vo + tail) /\ x.at + x.len <= m - vo
  BY <1>1
<1>6. o + vo + (len + tail) <= m
  BY <1>1
<1>7. ASSUME NEW x \in t.cells
      PROVE  \/ x.at >= 0 /\ x.at + x.len <= o + len
             \/ x.at >= m - (vo + tail) /\ x.at + x.len <= m
  <2>1. CASE x \in s.cells
    BY <1>3, <1>4, <2>1
  <2>2. CASE x \in X
    BY <1>3, <1>5, <2>2
  <2> QED BY <1>2, <2>1, <2>2
<1>8. ASSUME NEW x \in s.cells, NEW y \in X
      PROVE  x.at + x.len <= y.at \/ y.at + y.len <= x.at
  <2>1. x \in t.cells /\ y \in t.cells
    BY <1>2
  <2>2. x.at \in Int /\ x.len \in Nat /\ y.at \in Int /\ y.len \in Nat
    BY <1>3, <2>1
  <2>3. \/ x.at >= 0 /\ x.at + x.len <= o
        \/ x.at >= m - vo /\ x.at + x.len <= m
    BY <1>4
  <2>4. \/ y.at >= o /\ y.at + y.len <= o + len
        \/ y.at >= m - (vo + tail) /\ y.at + y.len <= m - vo
    BY <1>5
  <2> QED BY <1>6, <2>2, <2>3, <2>4
<1>9. ASSUME NEW x \in t.cells, NEW y \in t.cells
      PROVE  x = y \/ x.at + x.len <= y.at \/ y.at + y.len <= x.at
  <2>1. x \in s.cells \/ x \in X
    BY <1>2
  <2>2. y \in s.cells \/ y \in X
    BY <1>2
  <2>3. CASE x \in s.cells /\ y \in s.cells
    BY <2>3 DEF Apart
  <2>4. CASE x \in X /\ y \in X
    BY <2>4
  <2>5. CASE x \in s.cells /\ y \in X
    BY <1>8, <2>5
  <2>6. CASE x \in X /\ y \in s.cells
    BY <1>8, <2>6
  <2> QED BY <2>1, <2>2, <2>3, <2>4, <2>5, <2>6
<1> QED BY <1>2, <1>7, <1>9 DEF Apart

\* What the memory has it keeps.
LEMMA HoldsKept ==
    ASSUME NEW s, NEW t, s.cells \subseteq t.cells, t.c.m_size = s.c.m_size,
           NEW at, NEW n, NEW i, NEW v, holds(s, at, n, i, v)
    PROVE  holds(t, at, n, i, v)
<1>1. CASE schema[i].type = "Variable"
  BY <1>1 DEF holds
<1>2. CASE schema[i].type = "Fixed"
  BY <1>2 DEF holds
<1>3. CASE schema[i].type \notin {"Variable", "Fixed"}
  BY <1>3 DEF holds
<1> QED BY <1>1, <1>2, <1>3

\* The cells of a value are what the memory has to have of it.
LEMMA NewCellsHold ==
    ASSUME schema \in Schemas, Len(written) \in Nat, NEW s \in State, NEW i \in 1 .. Len(schema),
           NEW value \in valuesOf(schema[i]), NEW t, newCells(s, i, value) \subseteq t.cells,
           t.c.m_size = s.c.m_size
    PROVE  holds(t, s.w.m_offset, Len(written) + 1, i, value)
<1>1. schema[i] \in Column /\ lengthOf(value) \in Nat
  BY Values
<1>2. CASE schema[i].type = "Variable"
  <2>1. PICK d \in Nat : d = s.c.variable_offset + lengthOf(value)
    BY <1>1 DEF State, Chunk
  <2>2. /\ cell(s.w.m_offset, 8, ofNumber(d)) \in t.cells
        /\ cell(s.w.m_offset + 8, 8, ofNumber(lengthOf(value))) \in t.cells
        /\ lengthOf(value) # 0 =>
              cell(t.c.m_size - d, lengthOf(value), ofValue(Len(written) + 1, i)) \in t.cells
    BY <1>2, <2>1 DEF newCells
  <2> QED BY <1>2, <2>2 DEF holds
<1>3. CASE schema[i].type = "Fixed"
  <2>1. schema[i].size \in Nat
    BY <1>1 DEF Column
  <2>2. schema[i].size # 0 => sizeofAligned8(schema[i].size) # 0
    <3>1. PICK n \in Nat : n = schema[i].size
      BY <2>1
    <3>2. sizeofAligned8(n) \in Nat /\ sizeofAligned8(n) >= n
      BY Aligned
    <3> QED BY <3>1, <3>2
  <2> QED BY <1>3, <2>2 DEF holds, newCells
<1>4. CASE schema[i].type \notin {"Variable", "Fixed"}
  BY <1>4 DEF holds, newCells
<1> QED BY <1>2, <1>3, <1>4
\* The next value of a row, when there is space for it.
LEMMA GoodStep ==
    ASSUME schema \in Schemas, written \in Seq(Seq(Int)), NEW s, NEW values,
           NEW k \in 0 .. (Len(schema) - 1), Good(s, k, values),
           values[k + 1] \in valuesOf(schema[k + 1]),
           s.w.m_offset + s.c.variable_offset + valueSize(schema[k + 1], values[k + 1]) <= s.c.m_size,
           NEW t, t = writeValue(s, k + 1, values[k + 1])
    PROVE  /\ Good(t, k + 1, values)
           /\ Accounted(s) => Accounted(t)
           /\ t.c.m_size = s.c.m_size
           /\ t.w.m_offset + t.c.variable_offset =
                 s.w.m_offset + s.c.variable_offset + valueSize(schema[k + 1], values[k + 1])
<1> DEFINE i == k + 1
           v == values[i]
           X == newCells(s, i, v)
<1>1. Len(written) \in Nat /\ k \in Nat /\ i \in Nat /\ i \in 1 .. Len(schema) /\ i - 1 = k
  <2>1. Len(schema) \in Nat
    BY Layout
  <2>2. Len(written) \in Nat
    OBVIOUS
  <2> QED BY <2>1, <2>2
<1>2. s \in State /\ v \in valuesOf(schema[i])
  BY DEF Good
<1>3. PICK len \in Nat, tail \in Nat : len = width(schema[i]) /\ tail = tailOf(schema[i], v)
  BY <1>1, <1>2, Values
<1>4. valueSize(schema[i], v) = len + tail
  BY <1>1, <1>2, <1>3, Values
<1>5. wrote(t, s, len, tail, X)
  BY <1>1, <1>2, <1>3, ValueWritten
<1>6. PICK o \in Nat, vo \in Nat, m \in Nat, cs \in Nat :
         o = s.w.m_offset /\ vo = s.c.variable_offset /\ m = s.c.m_size /\ cs = s.c.consumed_size
  BY <1>2 DEF State, Chunk, Writer
<1>7. o + vo + (len + tail) <= m
  BY <1>4, <1>6
<1>8. /\ t \in State /\ t.w.m_offset = o + len /\ t.c.variable_offset = vo + tail
      /\ t.c.m_size = m /\ t.c.consumed_size = cs + len + tail /\ t.cells = s.cells \cup X
      /\ t.c.row_count = s.c.row_count /\ t.w.m_row_offset = s.w.m_row_offset
      /\ t.w.m_row_fixed_size = s.w.m_row_fixed_size
  BY <1>5, <1>6 DEF wrote
<1>9. Apart(t)
  <2>1. s.w.m_offset + s.c.variable_offset + valueSize(schema[i], v) <= s.c.m_size
    OBVIOUS
  <2>2. /\ \A x \in X : \/ x.at >= s.w.m_offset /\ x.at + x.len <= s.w.m_offset + len
                        \/ /\ x.at >= s.c.m_size - (s.c.variable_offset + tail)
                           /\ x.at + x.len <= s.c.m_size - s.c.variable_offset
        /\ \A x, y \in X : x = y \/ x.at + x.len <= y.at \/ y.at + y.len <= x.at
    BY <1>1, <1>2, <1>3, <2>1, NewCellsPlaced
  <2>3. Apart(s) /\ s.w.m_offset + s.c.variable_offset + (len + tail) <= s.c.m_size
    BY <1>6, <1>7 DEF Good
  <2> HIDE DEF X
  <2> QED BY <1>2, <1>5, <2>2, <2>3, ApartStep
<1>10. o = Len(written) * rowWidth + offset[k]
  BY <1>6 DEF Good
<1>11. offset[i] = offset[k] + len /\ offset[k] \in Nat /\ rowWidth \in Nat
  <2>1. PICK n \in Nat \ {0} : n = Len(schema)
    BY Layout
  <2>2. /\ offset \in [0 .. n -> Nat] /\ rowWidth \in Nat
        /\ \A j \in 1 .. n : offset[j] = offset[j - 1] + width(schema[j])
    BY <2>1, Layout
  <2>3. k \in 0 .. n /\ i \in 1 .. n /\ i - 1 = k
    BY <1>1, <2>1
  <2> QED BY <1>3, <2>2, <2>3
<1>12. place(Len(written) + 1, i) = o
  <2>1. (Len(written) + 1) - 1 = Len(written)
    BY <1>1
  <2> QED BY <1>1, <1>10, <2>1 DEF place
<1>13. Stored(t, i, values)
  <2>1. s.cells \subseteq t.cells /\ X \subseteq t.cells /\ t.c.m_size = s.c.m_size
    BY <1>6, <1>8
  <2>2. ASSUME NEW n \in 1 .. Len(written), NEW j \in 1 .. Len(schema)
        PROVE  holds(t, place(n, j), n, j, written[n][j])
    <3>1. holds(s, place(n, j), n, j, written[n][j])
      BY DEF Good, Stored
    <3> QED BY <2>1, <3>1, HoldsKept
  <2>3. ASSUME NEW j \in 1 .. i
        PROVE  holds(t, place(Len(written) + 1, j), Len(written) + 1, j, values[j])
    <3>1. CASE j = i
      BY <1>1, <1>2, <1>6, <1>12, <2>1, <3>1, NewCellsHold
    <3>2. CASE j # i
      <4>1. j \in 1 .. k
        BY <1>1, <3>2
      <4>2. holds(s, place(Len(written) + 1, j), Len(written) + 1, j, values[j])
        BY <4>1 DEF Good, Stored
      <4> QED BY <2>1, <4>2, HoldsKept
    <3> QED BY <3>1, <3>2
  <2> QED BY <2>2, <2>3 DEF Stored
<1>14. PICK q \in Nat : q = Len(written) * rowWidth
  BY <1>1, <1>11
<1>15. t.w.m_offset = Len(written) * rowWidth + offset[i]
  BY <1>8, <1>10, <1>11, <1>14
<1>16. t.w.m_offset + t.c.variable_offset <= t.c.m_size
  BY <1>7, <1>8
<1>17. Good(t, i, values)
  BY <1>8, <1>9, <1>13, <1>15, <1>16 DEF Good
<1>18. Accounted(s) => Accounted(t)
  <2>1. cs = o + vo => cs + len + tail = (o + len) + (vo + tail)
    OBVIOUS
  <2> QED BY <1>6, <1>8, <2>1 DEF Accounted
<1>19. t.w.m_offset + t.c.variable_offset = o + vo + (len + tail)
  BY <1>8
<1> QED BY <1>4, <1>6, <1>8, <1>17, <1>18, <1>19

-----------------------------------------------------------------------------
(* The folds over the columns.                                             *)

\* The last of the first numbers.
LEMMA MaxOfFirst ==
    ASSUME NEW j \in Nat
    PROVE  Max(1 .. (j + 1)) = j + 1 /\ (1 .. (j + 1)) \ {j + 1} = 1 .. j
<1> DEFINE s == 1 .. (j + 1)
<1>1. s # {} /\ s \in SUBSET (1 .. (j + 1)) /\ j + 1 \in s /\ j + 1 \in Nat
  OBVIOUS
<1>2. \A y \in s : y \in Nat /\ y <= j + 1
  OBVIOUS
<1>3. s \ {j + 1} = 1 .. j
  OBVIOUS
<1> HIDE DEF s
<1>4. Max(s) \in s /\ \A y \in s : y <= Max(s)
  BY <1>1, MaxOf
<1>5. Max(s) \in Nat /\ Max(s) <= j + 1 /\ j + 1 <= Max(s)
  BY <1>1, <1>2, <1>4
<1> QED BY <1>3, <1>5 DEF s

isFold(f, D, b, F, n) ==
    /\ f \in [SUBSET (1 .. n) -> D]
    /\ \A s \in SUBSET (1 .. n) :
          f[s] = IF s = {} THEN b ELSE F[<<f[s \ {Max(s)}], Max(s)>>]

\* A function can be folded over the sets of the first n numbers.
LEMMA FoldExists ==
    ASSUME NEW D, NEW b \in D, NEW n \in Nat, NEW F \in [D \X (1 .. n) -> D]
    PROVE  \E f : isFold(f, D, b, F, n)
<1> DEFINE S == {k \in Nat : k <= n => \E f : isFold(f, D, b, F, k)}
<1>1. 0 \in S
  <2> DEFINE f == [s \in SUBSET (1 .. 0) |-> b]
  <2>1. \A s \in SUBSET (1 .. 0) : s = {}
    OBVIOUS
  <2>2. isFold(f, D, b, F, 0)
    BY <2>1 DEF isFold
  <2> HIDE DEF f
  <2> QED BY <2>2
<1>2. ASSUME NEW k \in S PROVE k + 1 \in S
  <2> SUFFICES ASSUME k + 1 <= n PROVE \E f : isFold(f, D, b, F, k + 1)
    OBVIOUS
  <2>1. PICK f : isFold(f, D, b, F, k)
    OBVIOUS
  <2> DEFINE v(s) == IF s = {} THEN b ELSE F[<<f[s \ {Max(s)}], Max(s)>>]
             g == [s \in SUBSET (1 .. (k + 1)) |-> IF s \in SUBSET (1 .. k) THEN f[s] ELSE v(s)]
  <2>2. \A s \in SUBSET (1 .. k) : g[s] = f[s] /\ f[s] = v(s) /\ f[s] \in D
    <3>1. \A s \in SUBSET (1 .. k) : f[s] = v(s) /\ f[s] \in D
      BY <2>1 DEF isFold
    <3>2. \A s \in SUBSET (1 .. k) : s \in SUBSET (1 .. (k + 1))
      OBVIOUS
    <3> HIDE DEF v
    <3> QED BY <3>1, <3>2
  <2>3. ASSUME NEW s \in SUBSET (1 .. (k + 1)), s # {}
        PROVE  s \ {Max(s)} \in SUBSET (1 .. k) /\ Max(s) \in 1 .. n
    <3>1. k + 1 \in Nat
      OBVIOUS
    <3>2. Max(s) \in s /\ \A y \in s : y <= Max(s)
      BY <2>3, <3>1, MaxOf
    <3>3. ASSUME NEW y \in s, y # Max(s) PROVE y \in 1 .. k
      <4>1. y \in 1 .. (k + 1) /\ Max(s) \in 1 .. (k + 1) /\ y <= Max(s)
        BY <3>2
      <4> QED BY <3>3, <4>1
    <3>4. Max(s) \in 1 .. n
      <4>1. Max(s) \in 1 .. (k + 1)
        BY <3>2
      <4> QED BY <4>1
    <3> QED BY <3>3, <3>4
  <2>4. \A s \in SUBSET (1 .. (k + 1)) : s # {} => g[s \ {Max(s)}] = f[s \ {Max(s)}]
    BY <2>2, <2>3
  <2>5. ASSUME NEW s \in SUBSET (1 .. (k + 1))
        PROVE  g[s] = v(s) /\ g[s] \in D
    <3>1. g[s] = v(s)
      BY <2>2
    <3>2. v(s) \in D
      <4>1. CASE s = {}
        BY <4>1
      <4>2. CASE s # {}
        <5>1. f[s \ {Max(s)}] \in D /\ Max(s) \in 1 .. n
          BY <2>2, <2>3, <4>2
        <5> QED BY <4>2, <5>1
      <4> QED BY <4>1, <4>2
    <3> HIDE DEF v, g
    <3> QED BY <3>1, <3>2
  <2>6. g \in [SUBSET (1 .. (k + 1)) -> D]
    BY <2>5
  <2> HIDE DEF g
  <2>7. isFold(g, D, b, F, k + 1)
    BY <2>4, <2>5, <2>6 DEF isFold
  <2> QED BY <2>7
<1>3. S = Nat
  <2> HIDE DEF S
  <2>1. S \in SUBSET Nat
    BY DEF S
  <2> QED BY <1>1, <1>2, <2>1, Induction
<1> QED BY <1>3

\* The fold by which rowSize adds up the columns one by one.
LEMMA SizeSteps ==
    ASSUME schema \in Schemas, NEW values, isRow(values)
    PROVE  \E g \in [0 .. Len(schema) -> Nat] :
              /\ g[0] = 0
              /\ \A k \in 0 .. (Len(schema) - 1) :
                    g[k + 1] = g[k] + valueSize(schema[k + 1], values[k + 1])
              /\ rowSize(values) = g[Len(schema)]
<1> DEFINE n == Len(schema)
           size(i) == valueSize(schema[i], values[i])
           F == [x \in Nat \X (1 .. n) |-> x[1] + size(x[2])]
           I == [i \in DOMAIN schema |-> i]
           is(f) == f = [s \in SUBSET DOMAIN I |->
                            IF s = {} THEN 0 ELSE f[s \ {Max(s)}] + size(I[Max(s)])]
<1>1. n \in Nat /\ DOMAIN I = 1 .. n /\ \A i \in 1 .. n : I[i] = i
  BY Layout
<1>2. ASSUME NEW i \in 1 .. n PROVE size(i) \in Nat
  <2>1. values[i] \in valuesOf(schema[i])
    BY DEF isRow
  <2>2. /\ width(schema[i]) \in Nat /\ tailOf(schema[i], values[i]) \in Nat
        /\ valueSize(schema[i], values[i]) = width(schema[i]) + tailOf(schema[i], values[i])
    BY <2>1, Values
  <2> QED BY <2>2
<1> HIDE DEF size
<1>3. F \in [Nat \X (1 .. n) -> Nat]
  BY <1>2
<1>4. PICK f : isFold(f, Nat, 0, F, n)
  <2> HIDE DEF F, n
  <2> QED BY <1>1, <1>3, FoldExists
<1>5. ASSUME NEW s \in SUBSET (1 .. n), s # {}
      PROVE  Max(s) \in 1 .. n /\ s \ {Max(s)} \in SUBSET (1 .. n)
  <2> HIDE DEF n
  <2>1. Max(s) \in s
    BY <1>1, <1>5, MaxOf
  <2> QED BY <2>1
<1>6. is(f)
  <2>1. ASSUME NEW s \in SUBSET (1 .. n)
        PROVE  f[s] = IF s = {} THEN 0 ELSE f[s \ {Max(s)}] + size(I[Max(s)])
    <3>1. CASE s = {}
      BY <1>4, <3>1 DEF isFold
    <3>2. CASE s # {}
      <4>1. f[s] = F[<<f[s \ {Max(s)}], Max(s)>>] /\ f[s \ {Max(s)}] \in Nat
        BY <1>4, <1>5, <3>2 DEF isFold
      <4>2. Max(s) \in 1 .. n /\ I[Max(s)] = Max(s)
        BY <1>1, <1>5, <3>2
      <4> QED BY <3>2, <4>1, <4>2
    <3> QED BY <3>1, <3>2
  <2>2. f \in [SUBSET (1 .. n) -> Nat]
    BY <1>4 DEF isFold
  <2> HIDE DEF I
  <2> QED BY <1>1, <2>1, <2>2
<1>7. PICK h : h = CHOOSE g : is(g)
  OBVIOUS
<1>8. is(h)
  <2> HIDE DEF is
  <2> QED BY <1>6, <1>7
<1>9. rowSize(values) = h[1 .. n]
  <2>1. rowSize(values) = (CHOOSE g : is(g))[DOMAIN I]
    BY DEF size, rowSize, FoldLeftDomain, FoldLeft, MapThenFoldSet
  <2> HIDE DEF is
  <2> QED BY <1>1, <1>7, <2>1
<1> DEFINE g == [k \in 0 .. n |-> h[1 .. k]]
<1>10. h[{}] = 0
  BY <1>8
<1>11. ASSUME NEW k \in 0 .. (n - 1)
       PROVE  h[1 .. (k + 1)] = h[1 .. k] + size(k + 1)
  <2>1. k \in Nat /\ 1 .. (k + 1) \in SUBSET (1 .. n) /\ 1 .. (k + 1) # {} /\ k + 1 \in 1 .. n
    <3>1. n \in Nat
      BY <1>1
    <3> HIDE DEF n
    <3>2. k \in Nat /\ k + 1 <= n /\ k + 1 \in 1 .. n /\ 1 \in 1 .. (k + 1)
      BY <3>1
    <3>3. \A y \in 1 .. (k + 1) : y \in 1 .. n
      BY <3>1, <3>2
    <3> QED BY <3>2, <3>3
  <2>2. PICK s \in SUBSET (1 .. n) : s = 1 .. (k + 1)
    BY <2>1
  <2>3. Max(s) = k + 1 /\ s \ {k + 1} = 1 .. k /\ s # {}
    BY <2>1, <2>2, MaxOfFirst
  <2>4. h[s] = h[s \ {Max(s)}] + size(I[Max(s)])
    <3> HIDE DEF I
    <3> QED BY <1>1, <1>8, <2>3
  <2> QED BY <1>1, <2>1, <2>2, <2>3, <2>4
<1>12. \A k \in 0 .. n : h[1 .. k] \in Nat
  <2> DEFINE S == {k \in Nat : k <= n => h[1 .. k] \in Nat}
  <2>1. 0 \in S
    <3>1. 1 .. 0 = {}
      OBVIOUS
    <3> QED BY <1>10, <3>1
  <2>2. ASSUME NEW k \in S PROVE k + 1 \in S
    <3> SUFFICES ASSUME k + 1 <= n PROVE h[1 .. (k + 1)] \in Nat
      OBVIOUS
    <3>1. k \in 0 .. (n - 1) /\ k + 1 \in 1 .. n /\ h[1 .. k] \in Nat
      BY <1>1
    <3> QED BY <1>2, <1>11, <3>1
  <2>3. S = Nat
    <3> HIDE DEF S
    <3>1. S \in SUBSET Nat
      BY DEF S
    <3> QED BY <2>1, <2>2, <3>1, Induction
  <2> QED BY <1>1, <2>3
<1> HIDE DEF n, is
<1>13. g \in [0 .. n -> Nat] /\ g[0] = 0 /\ rowSize(values) = g[n]
  <2>1. 1 .. 0 = {} /\ 0 \in 0 .. n /\ n \in 0 .. n
    BY <1>1
  <2> QED BY <1>9, <1>10, <1>12, <2>1
<1>14. ASSUME NEW k \in 0 .. (n - 1) PROVE g[k + 1] = g[k] + size(k + 1)
  <2>1. k \in 0 .. n /\ k + 1 \in 0 .. n
    BY <1>1
  <2> QED BY <1>11, <2>1
<1> HIDE DEF g
<1> QED BY <1>13, <1>14 DEF n, size

\* The fold by which WriteRow writes the columns one by one.
LEMMA WriteSteps ==
    ASSUME schema \in Schemas, Len(written) \in Nat, NEW values, isRow(values), NEW b \in State
    PROVE  \E g :
              /\ g[0] = b
              /\ \A k \in 0 .. (Len(schema) - 1) :
                    g[k + 1] = writeValue(g[k], k + 1, values[k + 1])
              /\ writeColumns(b, values) = g[Len(schema)]
<1> DEFINE n == Len(schema)
           wr(s, i) == writeValue(s, i, values[i])
           F == [x \in State \X (1 .. n) |-> wr(x[1], x[2])]
           I == [i \in DOMAIN schema |-> i]
           is(f) == f = [s \in SUBSET DOMAIN I |->
                            IF s = {} THEN b ELSE wr(f[s \ {Max(s)}], I[Max(s)])]
<1>1. n \in Nat /\ DOMAIN I = 1 .. n /\ \A i \in 1 .. n : I[i] = i
  BY Layout
<1>2. ASSUME NEW s \in State, NEW i \in 1 .. n PROVE wr(s, i) \in State
  <2>1. values[i] \in valuesOf(schema[i])
    BY DEF isRow
  <2>2. wrote(writeValue(s, i, values[i]), s, width(schema[i]), tailOf(schema[i], values[i]),
              newCells(s, i, values[i]))
    BY <2>1, ValueWritten
  <2> QED BY <2>2 DEF wrote
<1> HIDE DEF wr
<1>3. F \in [State \X (1 .. n) -> State]
  BY <1>2
<1>4. PICK f : isFold(f, State, b, F, n)
  <2> HIDE DEF F, n
  <2> QED BY <1>1, <1>3, FoldExists
<1>5. ASSUME NEW s \in SUBSET (1 .. n), s # {}
      PROVE  Max(s) \in 1 .. n /\ s \ {Max(s)} \in SUBSET (1 .. n)
  <2> HIDE DEF n
  <2>1. Max(s) \in s
    BY <1>1, <1>5, MaxOf
  <2> QED BY <2>1
<1>6. is(f)
  <2>1. ASSUME NEW s \in SUBSET (1 .. n)
        PROVE  f[s] = IF s = {} THEN b ELSE wr(f[s \ {Max(s)}], I[Max(s)])
    <3>1. CASE s = {}
      BY <1>4, <3>1 DEF isFold
    <3>2. CASE s # {}
      <4>1. f[s] = F[<<f[s \ {Max(s)}], Max(s)>>] /\ f[s \ {Max(s)}] \in State
        BY <1>4, <1>5, <3>2 DEF isFold
      <4>2. Max(s) \in 1 .. n /\ I[Max(s)] = Max(s)
        BY <1>1, <1>5, <3>2
      <4> QED BY <3>2, <4>1, <4>2
    <3> QED BY <3>1, <3>2
  <2>2. f \in [SUBSET (1 .. n) -> State]
    BY <1>4 DEF isFold
  <2> HIDE DEF I
  <2> QED BY <1>1, <2>1, <2>2
<1>7. PICK h : h = CHOOSE g : is(g)
  OBVIOUS
<1>8. is(h)
  <2> HIDE DEF is
  <2> QED BY <1>6, <1>7
<1>9. writeColumns(b, values) = h[1 .. n]
  <2>1. writeColumns(b, values) = (CHOOSE g : is(g))[DOMAIN I]
    BY DEF wr, writeColumns, FoldLeftDomain, FoldLeft, MapThenFoldSet
  <2> HIDE DEF is
  <2> QED BY <1>1, <1>7, <2>1
<1> DEFINE g == [k \in 0 .. n |-> h[1 .. k]]
<1>10. h[{}] = b
  BY <1>8
<1>11. ASSUME NEW k \in 0 .. (n - 1)
       PROVE  h[1 .. (k + 1)] = wr(h[1 .. k], k + 1)
  <2>1. k \in Nat /\ 1 .. (k + 1) \in SUBSET (1 .. n) /\ 1 .. (k + 1) # {} /\ k + 1 \in 1 .. n
    <3>1. n \in Nat
      BY <1>1
    <3> HIDE DEF n
    <3>2. k \in Nat /\ k + 1 <= n /\ k + 1 \in 1 .. n /\ 1 \in 1 .. (k + 1)
      BY <3>1
    <3>3. \A y \in 1 .. (k + 1) : y \in 1 .. n
      BY <3>1, <3>2
    <3> QED BY <3>2, <3>3
  <2>2. PICK s \in SUBSET (1 .. n) : s = 1 .. (k + 1)
    BY <2>1
  <2>3. Max(s) = k + 1 /\ s \ {k + 1} = 1 .. k /\ s # {}
    BY <2>1, <2>2, MaxOfFirst
  <2>4. h[s] = wr(h[s \ {Max(s)}], I[Max(s)])
    <3> HIDE DEF I
    <3> QED BY <1>1, <1>8, <2>3
  <2> QED BY <1>1, <2>1, <2>2, <2>3, <2>4
<1> HIDE DEF n, is
<1>12. g[0] = b /\ g[n] = h[1 .. n]
  <2>1. 1 .. 0 = {} /\ 0 \in 0 .. n /\ n \in 0 .. n
    BY <1>1
  <2> QED BY <1>10, <2>1
<1>13. ASSUME NEW k \in 0 .. (n - 1) PROVE g[k + 1] = wr(g[k], k + 1)
  <2>1. k \in 0 .. n /\ k + 1 \in 0 .. n
    BY <1>1
  <2> QED BY <1>11, <2>1
<1> HIDE DEF g
<1> QED BY <1>9, <1>12, <1>13 DEF n, wr

\* Sums of sizes grow.
LEMMA SumsGrow ==
    ASSUME NEW n \in Nat, NEW g \in [0 .. n -> Nat],
           \A k \in 0 .. (n - 1) : g[k] <= g[k + 1], NEW k \in 0 .. n
    PROVE  g[k] <= g[n]
<1> DEFINE S == {j \in Nat : j <= n => g[n - j] <= g[n]}
<1>1. 0 \in S
  <2>1. n - 0 = n /\ g[n] \in Nat
    OBVIOUS
  <2> QED BY <2>1
<1>2. ASSUME NEW j \in S PROVE j + 1 \in S
  <2> SUFFICES ASSUME j + 1 <= n PROVE g[n - (j + 1)] <= g[n]
    OBVIOUS
  <2>1. PICK l \in 0 .. (n - 1) : l = n - (j + 1)
    OBVIOUS
  <2>2. l + 1 = n - j /\ l + 1 \in 0 .. n /\ l \in 0 .. n /\ n \in 0 .. n
    BY <2>1
  <2>3. g[l] <= g[l + 1] /\ g[l + 1] <= g[n]
    BY <2>2
  <2>4. g[l] \in Nat /\ g[l + 1] \in Nat /\ g[n] \in Nat
    BY <2>2
  <2>5. g[l] <= g[n]
    BY <2>3, <2>4
  <2> QED BY <2>1, <2>5
<1>3. S = Nat
  <2> HIDE DEF S
  <2>1. S \in SUBSET Nat
    BY DEF S
  <2> QED BY <1>1, <1>2, <2>1, Induction
<1>4. n - k \in Nat /\ n - k <= n /\ n - (n - k) = k
  OBVIOUS
<1>5. n - k \in S
  BY <1>3, <1>4
<1> QED BY <1>4, <1>5

\* A row that fits as a whole is written in good states.
LEMMA RowWritten ==
    ASSUME schema \in Schemas, written \in Seq(Seq(Int)), NEW values, isRow(values), NEW s,
           Good(s, 0, values), Accounted(s),
           s.w.m_offset + s.c.variable_offset + rowSize(values) <= s.c.m_size
    PROVE  /\ Good(writeColumns(s, values), Len(schema), values)
           /\ Accounted(writeColumns(s, values))
<1> DEFINE n == Len(schema)
           size(i) == valueSize(schema[i], values[i])
<1>1. n \in Nat /\ s \in State /\ Len(written) \in Nat
  BY Layout DEF Good
<1>2. PICK g \in [0 .. n -> Nat] :
         /\ g[0] = 0
         /\ \A k \in 0 .. (n - 1) : g[k + 1] = g[k] + size(k + 1)
         /\ rowSize(values) = g[n]
  BY SizeSteps
<1>3. PICK h : /\ h[0] = s
               /\ \A k \in 0 .. (n - 1) : h[k + 1] = writeValue(h[k], k + 1, values[k + 1])
               /\ writeColumns(s, values) = h[n]
  BY <1>1, WriteSteps
<1>4. ASSUME NEW i \in 1 .. n PROVE size(i) \in Nat /\ values[i] \in valuesOf(schema[i])
  <2>1. values[i] \in valuesOf(schema[i])
    BY DEF isRow
  <2>2. /\ width(schema[i]) \in Nat /\ tailOf(schema[i], values[i]) \in Nat
        /\ valueSize(schema[i], values[i]) = width(schema[i]) + tailOf(schema[i], values[i])
    BY <2>1, Values
  <2> QED BY <2>1, <2>2
<1> HIDE DEF size
<1>5. ASSUME NEW k \in 0 .. n PROVE g[k] <= g[n]
  <2>1. ASSUME NEW j \in 0 .. (n - 1) PROVE g[j] <= g[j + 1]
    <3>1. j \in 0 .. n /\ j + 1 \in 1 .. n
      BY <1>1
    <3>2. g[j] \in Nat /\ size(j + 1) \in Nat
      BY <1>4, <3>1
    <3> QED BY <1>2, <3>2
  <2> HIDE DEF n
  <2> QED BY <1>1, <2>1, SumsGrow
<1>6. PICK o \in Nat, vo \in Nat, m \in Nat :
         o = s.w.m_offset /\ vo = s.c.variable_offset /\ m = s.c.m_size
  BY <1>1 DEF State, Chunk, Writer
<1> DEFINE P(k) == /\ Good(h[k], k, values) /\ Accounted(h[k])
                   /\ h[k].c.m_size = m
                   /\ h[k].w.m_offset + h[k].c.variable_offset = o + vo + g[k]
           S == {k \in Nat : k <= n => P(k)}
<1>7. 0 \in S
  <2>1. o + vo + g[0] = o + vo
    BY <1>2
  <2>2. P(0)
    BY <1>3, <1>6, <2>1
  <2> QED BY <2>2
<1>8. ASSUME NEW k \in S PROVE k + 1 \in S
  <2> SUFFICES ASSUME k + 1 <= n PROVE P(k + 1)
    OBVIOUS
  <2>1. P(k) /\ k \in 0 .. (n - 1) /\ k \in 0 .. n /\ k + 1 \in 0 .. n /\ k + 1 \in 1 .. n
    BY <1>1
  <2>2. g[k + 1] = g[k] + size(k + 1) /\ g[k + 1] <= g[n]
    BY <1>2, <1>5, <2>1
  <2>3. h[k + 1] = writeValue(h[k], k + 1, values[k + 1])
    BY <1>3, <2>1
  <2>4. g[k] \in Nat /\ size(k + 1) \in Nat /\ g[k + 1] \in Nat /\ g[n] \in Nat
    <3>1. n \in 0 .. n
      BY <1>1
    <3> HIDE DEF n
    <3> QED BY <1>2, <1>4, <2>1, <3>1
  <2>5. o + vo + g[n] <= m
    BY <1>2, <1>6
  <2>6. o + vo + g[k] + size(k + 1) <= m
    BY <2>2, <2>4, <2>5
  <2>7. h[k].w.m_offset + h[k].c.variable_offset + valueSize(schema[k + 1], values[k + 1])
            <= h[k].c.m_size
    BY <2>1, <2>6 DEF size
  <2>8. values[k + 1] \in valuesOf(schema[k + 1])
    BY <1>4, <2>1
  <2>9. /\ Good(h[k + 1], k + 1, values)
        /\ Accounted(h[k]) => Accounted(h[k + 1])
        /\ h[k + 1].c.m_size = h[k].c.m_size
        /\ h[k + 1].w.m_offset + h[k + 1].c.variable_offset =
              h[k].w.m_offset + h[k].c.variable_offset + valueSize(schema[k + 1], values[k + 1])
    BY <2>1, <2>3, <2>7, <2>8, GoodStep
  <2>10. h[k + 1].w.m_offset + h[k + 1].c.variable_offset = o + vo + g[k] + size(k + 1)
    BY <2>1, <2>9 DEF size
  <2>11. o + vo + g[k] + size(k + 1) = o + vo + g[k + 1]
    BY <2>2, <2>4
  <2> QED BY <2>1, <2>9, <2>10, <2>11
<1>9. S = Nat
  <2> HIDE DEF S
  <2>1. S \in SUBSET Nat
    BY DEF S
  <2> QED BY <1>7, <1>8, <2>1, Induction
<1>10. P(n)
  BY <1>1, <1>9
<1> QED BY <1>3, <1>10

-----------------------------------------------------------------------------
(* The steps of the writer.                                                *)

\* The layout does not change with the schema's name.
LEMMA SameLayout ==
    ASSUME schema' = schema
    PROVE  /\ offset' = offset /\ rowWidth' = rowWidth
           /\ \A n, i : place(n, i)' = place(n, i)
           /\ \A s, at, n, i, v : holds(s, at, n, i, v)' <=> holds(s, at, n, i, v)
<1>1. offset' = offset
  BY DEF offset
<1>2. rowWidth' = rowWidth
  BY <1>1 DEF rowWidth
<1>3. \A n, i : place(n, i)' = place(n, i)
  BY <1>1, <1>2 DEF place
<1>4. \A s, at, n, i, v : holds(s, at, n, i, v)' <=> holds(s, at, n, i, v)
  BY DEF holds
<1> QED BY <1>1, <1>2, <1>3, <1>4

\* A good state is good in the next state when no row was ended.
LEMMA GoodNext ==
    ASSUME schema' = schema, written' = written, NEW s, NEW k, NEW values, Good(s, k, values)
    PROVE  Good(s, k, values)'
<1>1. /\ offset' = offset /\ rowWidth' = rowWidth
      /\ \A n, i : place(n, i)' = place(n, i)
      /\ \A u, at, n, i, v : holds(u, at, n, i, v)' <=> holds(u, at, n, i, v)
  BY SameLayout
<1>2. Stored(s, k, values)'
  BY <1>1 DEF Stored, Good
<1>3. Apart(s)'
  BY DEF Apart, Good
<1> QED BY <1>1, <1>2, <1>3 DEF Good

\* Only the first k values matter.
LEMMA GoodValues ==
    ASSUME NEW s, NEW k, NEW values, NEW other, Good(s, k, values),
           \A i \in 1 .. k : other[i] = values[i]
    PROVE  Good(s, k, other)
<1>1. Stored(s, k, other)
  BY DEF Good, Stored
<1> QED BY <1>1 DEF Good

\* Where the next row begins.
LEMMA NextRow ==
    ASSUME NEW l \in Nat, NEW v \in Nat
    PROVE  (l + 1) * v = l * v + v /\ l * v \in Nat
<1>1. PICK p \in Nat : p = l * v
  OBVIOUS
<1>2. (l + 1) * v = l * v + v
  OBVIOUS
<1> QED BY <1>1, <1>2

\* The end of a row.
LEMMA GoodEnded ==
    ASSUME schema \in Schemas, schema' = schema, written \in Seq(Seq(Int)), NEW values,
           isRow(values), written' = Append(written, values), NEW s,
           Good(s, Len(schema), values), Accounted(s), NEW t, t = rowEnded(s), NEW other
    PROVE  Good(t, 0, other)' /\ Accounted(t)
<1> DEFINE l == Len(written)
           n == Len(schema)
<1>1. l \in Nat /\ n \in Nat /\ n # 0 /\ s \in State /\ rowWidth \in Nat /\ offset[0] = 0
      /\ rowWidth = offset[n]
  BY Layout DEF Good, rowWidth
<1>2. PICK o \in Nat : o = s.w.m_offset
  BY <1>1 DEF State, Writer
<1>3. o = l * rowWidth + rowWidth
  BY <1>1, <1>2 DEF Good
<1>4. (l + 1) * rowWidth = l * rowWidth + rowWidth
  BY <1>1, NextRow
<1>5. PICK f : f = IF s.w.m_row_fixed_size = 0 THEN o ELSE s.w.m_row_fixed_size
  OBVIOUS
<1>6. f = rowWidth
  <2>1. CASE l = 0
    <3>1. s.w.m_row_fixed_size = 0
      BY <2>1 DEF Good
    <3>2. o = rowWidth
      BY <1>1, <1>3, <2>1
    <3> QED BY <1>5, <3>1, <3>2
  <2>2. CASE l # 0
    <3>1. s.w.m_row_fixed_size = rowWidth
      BY <2>2 DEF Good
    <3>2. rowWidth = 0 => o = 0
      BY <1>1, <1>3
    <3> QED BY <1>5, <3>1, <3>2
  <2> QED BY <2>1, <2>2
<1>7. PICK w2 : w2 = [s.w EXCEPT !.m_row_fixed_size = f, !.m_row_offset = o, !.m_row_column_count = 0]
  OBVIOUS
<1>8. s.w \in Writer /\ s.c \in Chunk /\ s.cells \in SUBSET Memory
  BY <1>1 DEF State
<1>9. /\ w2 \in Writer /\ w2.m_offset = o /\ w2.m_row_offset = o /\ w2.m_row_fixed_size = f
  BY <1>1, <1>2, <1>6, <1>7, <1>8 DEF Writer
<1>10. PICK c2 : c2 = [s.c EXCEPT !.row_count = @ + 1]
  OBVIOUS
<1>11. /\ c2 \in Chunk /\ c2.row_count = s.c.row_count + 1 /\ c2.m_size = s.c.m_size
       /\ c2.variable_offset = s.c.variable_offset /\ c2.consumed_size = s.c.consumed_size
  <2>1. PICK q \in Nat : q = s.c.row_count + 1
    BY <1>8 DEF Chunk
  <2>2. c2 = [s.c EXCEPT !.row_count = q]
    BY <1>10, <2>1
  <2>3. c2 \in Chunk
    BY <1>8, <2>2 DEF Chunk
  <2>4. /\ c2.row_count = q /\ c2.m_size = s.c.m_size
        /\ c2.variable_offset = s.c.variable_offset /\ c2.consumed_size = s.c.consumed_size
    BY <1>8, <2>2 DEF Chunk
  <2> QED BY <2>1, <2>3, <2>4
<1>12. t = [c |-> c2, w |-> w2, cells |-> s.cells]
  <2>1. t = [s EXCEPT !.w.m_row_fixed_size = f, !.w.m_row_offset = o,
                      !.w.m_row_column_count = 0, !.c.row_count = @ + 1]
    BY <1>2, <1>5 DEF rowEnded
  <2> QED BY <1>1, <1>7, <1>10, <2>1 DEF State
<1>13. t \in State /\ t.c = c2 /\ t.w = w2 /\ t.cells = s.cells
  BY <1>8, <1>9, <1>11, <1>12 DEF State
<1>14. Len(written') = l + 1 /\ written'[l + 1] = values /\ \A j \in 1 .. l : written'[j] = written[j]
  <2>1. values \in Seq(Int)
    BY DEF isRow
  <2> QED BY <2>1
<1>15. /\ offset' = offset /\ rowWidth' = rowWidth
       /\ \A j, i : place(j, i)' = place(j, i)
       /\ \A u, at, j, i, v : holds(u, at, j, i, v)' <=> holds(u, at, j, i, v)
  BY SameLayout
<1>16. Stored(t, 0, other)'
  <2>1. ASSUME NEW j \in 1 .. (l + 1), NEW i \in 1 .. n
        PROVE  holds(t, place(j, i), j, i, written'[j][i])
    <3>1. s.cells \subseteq t.cells /\ t.c.m_size = s.c.m_size
      BY <1>11, <1>13
    <3>2. CASE j = l + 1
      <4>1. holds(s, place(j, i), j, i, values[i])
        BY <3>2 DEF Good, Stored
      <4>2. holds(t, place(j, i), j, i, values[i])
        BY <3>1, <4>1, HoldsKept
      <4> QED BY <1>14, <3>2, <4>2
    <3>3. CASE j # l + 1
      <4>1. j \in 1 .. l
        BY <1>1, <3>3
      <4>2. holds(s, place(j, i), j, i, written[j][i])
        BY <4>1 DEF Good, Stored
      <4>3. holds(t, place(j, i), j, i, written[j][i])
        BY <3>1, <4>2, HoldsKept
      <4> QED BY <1>14, <4>1, <4>3
    <3> QED BY <3>2, <3>3
  <2>2. 1 .. 0 = {}
    OBVIOUS
  <2> QED BY <1>14, <1>15, <2>1, <2>2 DEF Stored
<1>17. Apart(t)'
  BY <1>2, <1>9, <1>11, <1>13 DEF Good, Apart
<1>18. t.w.m_offset = (l + 1) * rowWidth + offset[0]
  BY <1>1, <1>3, <1>4, <1>9, <1>13
<1>19. t.w.m_offset + t.c.variable_offset <= t.c.m_size
  BY <1>2, <1>9, <1>11, <1>13 DEF Good
<1>20. t.c.row_count = l + 1
  BY <1>11, <1>13 DEF Good
<1>21. t.w.m_row_offset = (l + 1) * rowWidth /\ t.w.m_row_fixed_size = rowWidth /\ l + 1 # 0
  BY <1>1, <1>3, <1>4, <1>6, <1>9, <1>13
<1>22. Good(t, 0, other)'
  BY <1>13, <1>14, <1>15, <1>16, <1>17, <1>18, <1>19, <1>20, <1>21 DEF Good
<1>23. Accounted(t)
  BY <1>2, <1>9, <1>11, <1>13 DEF Accounted
<1> QED BY <1>22, <1>23
-----------------------------------------------------------------------------
(* What the reader gets.                                                   *)

\* A cell is found at its address, and lies in the chunk.
LEMMA Contents ==
    ASSUME state \in State, Apart(state), NEW x \in cells,
           w.m_offset + c.variable_offset <= c.m_size
    PROVE  contents(x.at) = x.what /\ x.at + x.len <= c.m_size
<1>1. state.cells = cells /\ cells \in SUBSET Memory /\ state.w = w /\ state.c = c
      /\ w.m_offset \in Nat /\ c.variable_offset \in Nat /\ c.m_size \in Nat
  BY DEF State, Chunk, Writer, state
<1>2. ASSUME NEW y \in cells, y.at = x.at PROVE y = x
  <2>1. x = y \/ x.at + x.len <= y.at \/ y.at + y.len <= x.at
    BY <1>1 DEF Apart
  <2>2. x.at \in Int /\ x.len \in Nat \ {0} /\ y.len \in Nat \ {0}
    BY <1>1 DEF Memory
  <2> QED BY <1>2, <2>1, <2>2
<1>3. {y \in cells : y.at = x.at} = {x}
  BY <1>2
<1>4. contents(x.at) = (CHOOSE y \in {x} : TRUE).what
  BY <1>3 DEF contents
<1>5. (CHOOSE y \in {x} : TRUE) = x
  OBVIOUS
<1>6. x.at + x.len <= c.m_size
  <2>1. \/ x.at >= 0 /\ x.at + x.len <= w.m_offset
        \/ x.at >= c.m_size - c.variable_offset /\ x.at + x.len <= c.m_size
    BY <1>1 DEF Apart
  <2>2. x.at \in Int /\ x.len \in Nat \ {0}
    BY <1>1 DEF Memory
  <2> QED BY <1>1, <2>1, <2>2
<1> QED BY <1>4, <1>5, <1>6

\* The same for a cell that is given by its parts.
LEMMA CellContents ==
    ASSUME state \in State, Apart(state), w.m_offset + c.variable_offset <= c.m_size,
           NEW at, NEW len, NEW what, cell(at, len, what) \in cells
    PROVE  contents(at) = what /\ at + len <= c.m_size
<1>1. PICK x \in cells : x = cell(at, len, what)
  OBVIOUS
<1>2. x.at = at /\ x.len = len /\ x.what = what
  BY <1>1 DEF cell
<1>3. contents(x.at) = x.what /\ x.at + x.len <= c.m_size
  BY Contents
<1> QED BY <1>2, <1>3

\* What a reader returns for a value.
readAs(n, i, v) == IF lengthOf(v) = 0 THEN NullMark ELSE ofValue(n, i)

\* A read of a column where the memory has its value returns that value.
LEMMA ColumnRead ==
    ASSUME schema \in Schemas, state \in State, Apart(state),
           w.m_offset + c.variable_offset <= c.m_size,
           NEW i \in 1 .. Len(schema), NEW n \in Nat, NEW v \in valuesOf(schema[i]),
           r.m_offset \in Nat, r.m_offset + width(schema[i]) <= w.m_offset,
           holds(state, r.m_offset, n, i, v), NEW a, a = ReadColumn(schema[i])
    PROVE  /\ a.value = readAs(n, i, v)
           /\ a.next = r.m_offset + width(schema[i])
           /\ a.ok = TRUE
           /\ a.recounted \in Nat
<1>1. /\ schema[i] \in Column /\ width(schema[i]) \in Nat /\ v \in Int /\ lengthOf(v) \in Nat
  BY Values
<1>2. PICK at \in Nat, m \in Nat, len \in Nat : at = r.m_offset /\ m = c.m_size /\ len = lengthOf(v)
  BY <1>1 DEF State, Chunk, Writer, state
<1>3. at + width(schema[i]) <= m
  <2>1. w.m_offset \in Nat /\ c.variable_offset \in Nat
    BY DEF State, Chunk, Writer, state
  <2>2. PICK o \in Nat, vo \in Nat, l \in Nat :
           o = w.m_offset /\ vo = c.variable_offset /\ l = width(schema[i])
    BY <1>1, <2>1
  <2>3. o + vo <= m /\ at + l <= o
    BY <1>2, <2>2
  <2>4. at + l <= m
    BY <2>3
  <2> QED BY <2>2, <2>4
<1>4. state.cells = cells /\ state.c.m_size = m
  BY <1>2 DEF state
<1>5. CASE schema[i].type = "Variable"
  <2>1. PICK d \in Nat : /\ cell(at, 8, ofNumber(d)) \in cells
                         /\ cell(at + 8, 8, ofNumber(len)) \in cells
                         /\ len # 0 => cell(m - d, len, ofValue(n, i)) \in cells
    BY <1>2, <1>4, <1>5 DEF holds
  <2>2. contents(at) = ofNumber(d) /\ contents(at + 8) = ofNumber(len)
    BY <2>1, CellContents
  <2>3. number(at) = d /\ number(at + 8) = len
    BY <2>2 DEF number, ofNumber
  <2>4. width(schema[i]) = 16
    BY <1>5 DEF width
  <2>5. CanRead(at, 16)
    BY <1>2, <1>3, <2>4 DEF CanRead
  <2>6. a = ReadVariable
    BY <1>5 DEF ReadColumn
  <2>7. CASE len = 0
    <3>1. a = answer(NullMark, at + 16, TRUE, 0)
      BY <1>2, <2>3, <2>5, <2>6, <2>7 DEF ReadVariable
    <3> QED BY <1>2, <2>4, <2>7, <3>1 DEF answer, readAs
  <2>8. CASE len # 0
    <3>1. contents(m - d) = ofValue(n, i) /\ CanRead(m - d, len)
      BY <1>2, <2>1, <2>8, CellContents DEF CanRead
    <3>2. a = answer(ofValue(n, i), at + 16, CanRead(m - d, len), 0)
      BY <1>2, <2>3, <2>5, <2>6, <2>8, <3>1 DEF ReadVariable
    <3>3. CanRead(m - d, len) = TRUE
      BY <3>1 DEF CanRead
    <3> QED BY <1>2, <2>4, <2>8, <3>2, <3>3 DEF answer, readAs
  <2> QED BY <2>7, <2>8
<1>6. CASE schema[i].type = "Fixed"
  <2>1. a = ReadFixed(schema[i])
    BY <1>6 DEF ReadColumn
  <2>2. PICK size \in Nat : size = schema[i].size
    BY <1>1 DEF Column
  <2>3. PICK l \in Nat : l = sizeofAligned8(size) /\ l = width(schema[i]) /\ (size = 0 => l = 0)
    BY <1>6, <2>2, Aligned DEF width
  <2>4. CASE size = 0
    <3>1. a = answer(NullMark, at, TRUE, 0)
      BY <1>2, <2>1, <2>2, <2>4 DEF ReadFixed
    <3>2. len = 0
      <4>1. v = Null \/ v = 0
        BY <1>6, <2>2, <2>4 DEF valuesOf
      <4> QED BY <1>2, <4>1 DEF lengthOf
    <3>3. at + width(schema[i]) = at
      BY <2>3, <2>4
    <3> QED BY <1>2, <3>1, <3>2, <3>3 DEF answer, readAs
  <2>5. CASE size # 0
    <3>1. PICK what : what = IF len = 0 THEN Blank ELSE ofValue(n, i)
      OBVIOUS
    <3>2. cell(at, l, what) \in cells
      BY <1>2, <1>4, <1>6, <2>2, <2>3, <2>5, <3>1 DEF holds
    <3>3. contents(at) = what
      BY <3>2, CellContents
    <3>4. ~(m - at < l)
      BY <1>3, <2>3
    <3>5. a = answer(IF what = Blank THEN NullMark ELSE what, at + l, TRUE, 0)
      BY <1>2, <2>1, <2>2, <2>3, <2>5, <3>3, <3>4 DEF ReadFixed
    <3>6. ofValue(n, i) # Blank
      BY DEF ofValue, Blank
    <3>7. (IF what = Blank THEN NullMark ELSE what) = readAs(n, i, v)
      BY <1>2, <3>1, <3>6 DEF readAs
    <3> QED BY <1>2, <2>3, <3>5, <3>7 DEF answer
  <2> QED BY <2>4, <2>5
<1>7. CASE schema[i].type \notin {"Variable", "Fixed"}
  <2>1. a = ReadNumber(schema[i])
    BY <1>7 DEF ReadColumn
  <2>2. width(schema[i]) = 8
    BY <1>7 DEF width
  <2>3. PICK what : what = IF v = Null THEN NullMark ELSE ofValue(n, i)
    OBVIOUS
  <2>4. PICK l \in {4, 8} : l = IF schema[i].type = "Int32" THEN 4 ELSE 8
    OBVIOUS
  <2>5. cell(at, l, what) \in cells
    BY <1>2, <1>4, <1>7, <2>3, <2>4 DEF holds
  <2>6. contents(at) = what
    BY <2>5, CellContents
  <2>7. what = readAs(n, i, v)
    <3>1. v = Null \/ v = 8
      BY <1>7 DEF valuesOf
    <3> QED BY <2>3, <3>1 DEF readAs, lengthOf, Null
  <2>8. CanRead(at, 8)
    BY <1>2, <1>3, <2>2 DEF CanRead
  <2>9. PICK q \in {0, 4} : q = IF schema[i].type = "Int32" THEN 4 ELSE 0
    OBVIOUS
  <2>10. a = answer(what, at + 8, TRUE, q)
    BY <1>2, <2>1, <2>6, <2>8, <2>9 DEF ReadNumber
  <2> QED BY <1>2, <2>2, <2>7, <2>9, <2>10 DEF answer
<1> QED BY <1>5, <1>6, <1>7

\* Whole rows grow with their number.
LEMMA RowsBefore ==
    ASSUME NEW k \in Nat, NEW l \in Nat, k < l, NEW v \in Nat
    PROVE  k * v + v <= l * v /\ k * v \in Nat
<1>1. PICK d \in Nat : l = (k + 1) + d
  <2>1. l - (k + 1) \in Nat /\ l = (k + 1) + (l - (k + 1))
    OBVIOUS
  <2> QED BY <2>1
<1>2. ((k + 1) + d) * v = (k + 1) * v + d * v
  OBVIOUS
<1>3. (k + 1) * v = k * v + v /\ k * v \in Nat
  BY NextRow
<1>4. d * v \in Nat
  BY NextRow
<1> QED BY <1>1, <1>2, <1>3, <1>4

\* A column of a row that was ended is in the part of the rows.
LEMMA PlaceInRows ==
    ASSUME schema \in Schemas, NEW l \in Nat, NEW k \in Nat, k < l, NEW j \in 0 .. (Len(schema) - 1)
    PROVE  /\ k * rowWidth + offset[j] + width(schema[j + 1]) <= l * rowWidth
           /\ k * rowWidth + offset[j] \in Nat
           /\ place(k + 1, j + 1) = k * rowWidth + offset[j]
<1>1. PICK n \in Nat \ {0} : n = Len(schema)
  BY Layout
<1>2. /\ offset \in [0 .. n -> Nat] /\ rowWidth \in Nat /\ rowWidth = offset[n]
      /\ \A i \in 1 .. n : offset[i] = offset[i - 1] + width(schema[i])
  BY <1>1, Layout DEF rowWidth
<1>3. ASSUME NEW i \in 0 .. (n - 1)
      PROVE  /\ offset[i + 1] = offset[i] + width(schema[i + 1])
             /\ width(schema[i + 1]) \in Nat /\ offset[i] \in Nat /\ offset[i] <= offset[i + 1]
  <2>1. i + 1 \in 1 .. n /\ (i + 1) - 1 = i /\ i \in 0 .. n
    OBVIOUS
  <2>2. schema[i + 1] \in Column
    BY <1>1, <2>1, Layout
  <2>3. width(schema[i + 1]) \in Nat
    BY <2>2, Width
  <2>4. offset[i + 1] = offset[i] + width(schema[i + 1]) /\ offset[i] \in Nat
    BY <1>2, <2>1
  <2> QED BY <2>3, <2>4
<1>4. j \in 0 .. (n - 1) /\ j + 1 \in 0 .. n
  BY <1>1
<1>5. offset[j + 1] <= offset[n]
  BY <1>2, <1>3, <1>4, SumsGrow
<1>6. k * rowWidth + rowWidth <= l * rowWidth /\ k * rowWidth \in Nat
  BY <1>2, RowsBefore
<1>7. PICK p \in Nat, q \in Int : p = k * rowWidth /\ q = l * rowWidth
  BY <1>2, <1>6
<1>8. offset[j] \in Nat /\ width(schema[j + 1]) \in Nat
      /\ offset[j] + width(schema[j + 1]) <= rowWidth
  BY <1>2, <1>3, <1>4, <1>5
<1>9. p + offset[j] + width(schema[j + 1]) <= q /\ p + offset[j] \in Nat
  <2>1. p + rowWidth <= q /\ rowWidth \in Nat
    BY <1>2, <1>6, <1>7
  <2>2. PICK o \in Nat, x \in Nat, v \in Nat :
           o = offset[j] /\ x = width(schema[j + 1]) /\ v = rowWidth
    BY <1>8, <2>1
  <2> QED BY <1>8, <2>1, <2>2
<1>10. place(k + 1, j + 1) = p + offset[j]
  <2>1. (k + 1) - 1 = k /\ (j + 1) - 1 = j
    BY <1>4
  <2> QED BY <1>7, <2>1 DEF place
<1> QED BY <1>7, <1>9, <1>10
-----------------------------------------------------------------------------
(* The invariant is kept.                                                  *)

\* The types when no row is ended.
LEMMA TypedSame ==
    ASSUME Typed, schema' = schema, byRow' = byRow, written' = written,
           phase' \in {"write", "full", "threw", "read", "aborted"},
           row' \in Seq(Int), Len(row') <= Len(schema),
           \A i \in 1 .. Len(row') : row'[i] \in valuesOf(schema[i]),
           byRow => row' = <<>>
    PROVE  Typed'
<1>1. \A x : isRow(x)' <=> isRow(x)
  BY DEF isRow
<1>2. \A n \in 1 .. Len(written) : isRow(written[n])
  BY DEF Typed
<1>3. (\A n \in 1 .. Len(written) : isRow(written[n]))'
  BY <1>1, <1>2
<1>4. (\A i \in 1 .. Len(row) : row[i] \in valuesOf(schema[i]))'
  OBVIOUS
<1> QED BY <1>3, <1>4 DEF Typed

\* The types when a row is ended.
LEMMA TypedEnded ==
    ASSUME Typed, schema' = schema, byRow' = byRow, phase' = phase, row' = <<>>,
           NEW values, isRow(values), written' = Append(written, values)
    PROVE  Typed'
<1>1. \A x : isRow(x)' <=> isRow(x)
  BY DEF isRow
<1>2. written \in Seq(Seq(Int)) /\ values \in Seq(Int)
  BY DEF Typed, isRow
<1>3. /\ written' \in Seq(Seq(Int)) /\ Len(written') = Len(written) + 1
      /\ written'[Len(written) + 1] = values
      /\ \A n \in 1 .. Len(written) : written'[n] = written[n]
  BY <1>2
<1>4. ASSUME NEW n \in 1 .. Len(written') PROVE isRow(written'[n])
  <2>1. CASE n = Len(written) + 1
    BY <1>3, <2>1
  <2>2. CASE n # Len(written) + 1
    <3>1. n \in 1 .. Len(written)
      BY <1>2, <1>3, <2>2
    <3> QED BY <1>3, <3>1 DEF Typed
  <2> QED BY <2>1, <2>2
<1>5. (\A n \in 1 .. Len(written) : isRow(written[n]))'
  BY <1>1, <1>4
<1>6. row' \in Seq(Int) /\ Len(row') = 0 /\ 1 .. 0 = {}
  OBVIOUS
<1>7. Len(schema) \in Nat
  BY Layout DEF Typed
<1>8. Len(row') <= Len(schema') /\ \A i \in 1 .. Len(row') : row'[i] \in valuesOf(schema'[i])
  BY <1>6, <1>7
<1> QED BY <1>3, <1>5, <1>6, <1>8 DEF Typed

\* What was read stays right while rows are added.
LEMMA ReadingKept ==
    ASSUME Reading, schema' = schema, r' = r, got' = got, Len(written) \in Nat, Len(written') \in Nat,
           Len(written) <= Len(written'), \A n \in 1 .. Len(written) : written'[n] = written[n]
    PROVE  Reading'
<1>1. offset' = offset /\ rowWidth' = rowWidth
  BY SameLayout
<1>2. \A n \in 1 .. Len(written) : asRead(n)' = asRead(n)
  BY DEF asRead
<1>3. Len(got) \in Nat /\ Len(got) <= Len(written) /\ Len(got') <= Len(written')
  BY DEF Reading
<1>4. (\A n \in 1 .. Len(got) : got[n] = asRead(n))'
  <2>1. ASSUME NEW n \in 1 .. Len(got) PROVE got[n] = asRead(n)'
    <3>1. n \in 1 .. Len(written)
      BY <1>3
    <3> QED BY <1>2, <3>1 DEF Reading
  <2> QED BY <2>1
<1>5. r.values # <<>> => Len(got') < Len(written')
  BY <1>3 DEF Reading
<1>6. (\A i \in 1 .. Len(r.values) : r.values[i] = asRead(Len(got) + 1)[i])'
  <2>1. CASE r.values = <<>>
    BY <2>1
  <2>2. CASE r.values # <<>>
    <3>1. PICK n \in 1 .. Len(written) : n = Len(got) + 1
      BY <1>3, <2>2 DEF Reading
    <3>2. asRead(n)' = asRead(n)
      BY <1>2
    <3>3. \A i \in 1 .. Len(r.values) : r.values[i] = asRead(n)[i]
      BY <3>1 DEF Reading
    <3> QED BY <3>1, <3>2, <3>3
  <2> QED BY <2>1, <2>2
<1> QED BY <1>1, <1>3, <1>4, <1>5, <1>6 DEF Reading

\* The states become a record of them.
LEMMA Became ==
    ASSUME NEW t \in State, become(t)
    PROVE  state' = t
<1>1. t = [c |-> t.c, w |-> t.w, cells |-> t.cells]
  BY DEF State
<1> QED BY <1>1 DEF become, state

\* The initial states.
LEMMA InitOk == Init => IInv
<1> SUFFICES ASSUME Init PROVE IInv
  OBVIOUS
<1>1. schema \in Schemas /\ row = <<>> /\ written = <<>> /\ got = <<>> /\ cells = {} /\ phase = "write"
      /\ r = [m_offset |-> 0, values |-> <<>>] /\ w = newWriter /\ byRow \in BOOLEAN
  BY DEF Init
<1>2. PICK size \in Nat : c = newChunk(size)
  BY SuperChunkAssumption DEF Init
<1>3. Len(schema) \in Nat \ {0} /\ offset[0] = 0 /\ rowWidth \in Nat
  BY <1>1, Layout
<1>4. Len(written) = 0 /\ Len(row) = 0 /\ Len(got) = 0 /\ Len(r.values) = 0 /\ 1 .. 0 = {}
      /\ r.m_offset = 0 /\ r.values = <<>>
  BY <1>1
<1>5. /\ c \in Chunk /\ c.m_size = size /\ c.row_count = 0 /\ c.consumed_size = 0
      /\ c.variable_offset = 0
  BY <1>2 DEF newChunk, Chunk
<1>6. /\ w \in Writer /\ w.m_offset = 0 /\ w.m_row_fixed_size = 0 /\ w.m_row_offset = 0
  BY <1>1 DEF newWriter, Writer
<1>7. state \in State /\ state.c = c /\ state.w = w /\ state.cells = {}
  BY <1>1, <1>5, <1>6 DEF state, State
<1>8. 0 * rowWidth = 0
  BY <1>3
<1>9. Typed
  BY <1>1, <1>3, <1>4 DEF Typed
<1>10. Stored(state, 0, row) /\ Apart(state)
  BY <1>4, <1>7 DEF Stored, Apart
<1>11. Good(state, 0, row)
  BY <1>3, <1>4, <1>5, <1>6, <1>7, <1>8, <1>10 DEF Good
<1>12. Accounted(state)
  BY <1>5, <1>6, <1>7 DEF Accounted
<1>13. Reading
  <2>1. r \in [m_offset : Nat, values : Seq(What)] /\ got \in Seq(Seq(What))
    BY <1>1
  <2> QED BY <1>3, <1>4, <1>8, <2>1 DEF Reading
<1> QED BY <1>1, <1>4, <1>9, <1>11, <1>12, <1>13 DEF IInv

\* The rows that WriteRow is given.
LEMMA RowsAre ==
    ASSUME schema \in Schemas, NEW values \in Rows
    PROVE  isRow(values)
<1>1. PICK n \in Nat : n = Len(schema) /\ DOMAIN schema = 1 .. n
  BY Layout
<1>2. \A i \in 1 .. n : values[i] \in valuesOf(schema[i])
  BY <1>1 DEF Rows
<1>3. ASSUME NEW i \in 1 .. n PROVE values[i] \in Int
  BY <1>1, <1>2, Values
<1>4. values \in [1 .. n -> Int]
  <2>1. values = [i \in 1 .. n |-> values[i]]
    BY <1>1 DEF Rows
  <2> QED BY <1>3, <2>1
<1>5. values \in Seq(Int) /\ Len(values) = n
  BY <1>4
<1> QED BY <1>1, <1>2, <1>5 DEF isRow

\* A row is ended, by WriteRow or WriteRowEnd.
LEMMA RowEndedOk ==
    ASSUME IInv, schema' = schema, byRow' = byRow, phase' = phase, phase = "write", row' = <<>>,
           r' = r, got' = got, NEW values, isRow(values), written' = Append(written, values), NEW s,
           Good(s, Len(schema), values), Accounted(s), become(rowEnded(s))
    PROVE  IInv'
<1>1. Typed /\ schema \in Schemas /\ written \in Seq(Seq(Int)) /\ values \in Seq(Int)
  BY DEF IInv, Typed, isRow
<1>2. Typed'
  BY <1>1, TypedEnded
<1>3. PICK t : t = rowEnded(s)
  OBVIOUS
<1>4. PICK other : other = row'
  OBVIOUS
<1>5. Good(t, 0, other)' /\ Accounted(t)
  BY <1>1, <1>3, GoodEnded
<1>6. t \in State
  BY <1>5 DEF Good
<1>7. state' = t
  BY <1>3, <1>6, Became
<1>8. Good(state, Len(row), row)'
  <2>1. Len(row') = 0
    OBVIOUS
  <2> QED BY <1>4, <1>5, <1>7, <2>1
<1>9. Accounted(state)'
  BY <1>5, <1>7 DEF Accounted
<1>10. Reading'
  <2>1. /\ Len(written) \in Nat /\ Len(written') = Len(written) + 1
        /\ \A n \in 1 .. Len(written) : written'[n] = written[n]
    BY <1>1
  <2>2. Len(written') \in Nat /\ Len(written) <= Len(written')
    BY <2>1
  <2>3. Reading
    BY DEF IInv
  <2> QED BY <2>1, <2>2, <2>3, ReadingKept
<1> QED BY <1>2, <1>8, <1>9, <1>10 DEF IInv
\* WriteRow.
LEMMA WriteRowOk ==
    ASSUME IInv, WriteRow
    PROVE  IInv'
<1>1. PICK values \in Rows : /\ HasEnoughSpace(rowSize(values))
                             /\ become(rowEnded(writeColumns(state, values)))
                             /\ written' = Append(written, values)
  BY DEF WriteRow
<1>2. /\ phase = "write" /\ byRow /\ schema' = schema /\ byRow' = byRow /\ r' = r /\ row' = row
      /\ got' = got /\ phase' = phase
  BY DEF WriteRow
<1>3. schema \in Schemas /\ written \in Seq(Seq(Int)) /\ row = <<>> /\ Len(row) = 0
  BY <1>2 DEF IInv, Typed
<1>4. isRow(values)
  BY <1>3, RowsAre
<1>5. Good(state, 0, row) /\ Accounted(state)
  BY <1>2, <1>3 DEF IInv
<1>6. Good(state, 0, values)
  <2>1. 1 .. 0 = {}
    OBVIOUS
  <2> QED BY <1>5, <2>1, GoodValues
<1>7. state.w.m_offset + state.c.variable_offset + rowSize(values) <= state.c.m_size
  <2>1. state.w = w /\ state.c = c
    BY DEF state
  <2>2. w.m_offset \in Nat /\ c.variable_offset \in Nat /\ c.m_size \in Nat
    BY <1>5, <2>1 DEF Good, State, Chunk, Writer
  <2>3. rowSize(values) \in Nat
    <3>1. PICK n \in Nat : n = Len(schema)
      BY <1>3, Layout
    <3>2. PICK g \in [0 .. n -> Nat] : rowSize(values) = g[n]
      BY <1>3, <1>4, <3>1, SizeSteps
    <3>3. n \in 0 .. n
      OBVIOUS
    <3> QED BY <3>2, <3>3
  <2>4. c.m_size - c.variable_offset - w.m_offset >= rowSize(values)
    BY <1>1 DEF HasEnoughSpace
  <2> QED BY <2>1, <2>2, <2>3, <2>4
<1>8. PICK s : s = writeColumns(state, values)
  OBVIOUS
<1>9. Good(s, Len(schema), values) /\ Accounted(s)
  <2>1. PICK b : b = state
    OBVIOUS
  <2>2. Good(writeColumns(b, values), Len(schema), values) /\ Accounted(writeColumns(b, values))
    BY <1>3, <1>4, <1>5, <1>6, <1>7, <2>1, RowWritten
  <2> QED BY <1>8, <2>1, <2>2
<1> QED BY <1>1, <1>2, <1>3, <1>4, <1>8, <1>9, RowEndedOk

\* WriteRowEnd.
LEMMA WriteRowEndOk ==
    ASSUME IInv, WriteRowEnd
    PROVE  IInv'
<1>1. /\ phase = "write" /\ Len(row) = Len(schema) /\ become(rowEnded(state))
      /\ written' = Append(written, row) /\ row' = <<>> /\ schema' = schema /\ byRow' = byRow
      /\ r' = r /\ got' = got /\ phase' = phase
  BY DEF WriteRowEnd
<1>2. Good(state, Len(schema), row) /\ Accounted(state)
  BY <1>1 DEF IInv
<1>3. isRow(row)
  BY <1>1 DEF IInv, Typed, isRow
<1>4. PICK s, values : s = state /\ values = row
  OBVIOUS
<1> QED BY <1>1, <1>2, <1>3, <1>4, RowEndedOk

\* A step that leaves the rows, the memory and the reader alone.
LEMMA PhaseOnly ==
    ASSUME IInv, schema' = schema, byRow' = byRow, c' = c, cells' = cells, w' = w, r' = r,
           row' = row, written' = written, got' = got,
           phase' \in {"write", "full", "threw", "read", "aborted"},
           phase' \notin {"read", "aborted"} => phase \notin {"read", "aborted"},
           phase' = "aborted" => Aborted'
    PROVE  IInv'
<1>1. /\ Typed /\ Reading /\ Good(state, Len(row), row)
      /\ phase \notin {"read", "aborted"} => Accounted(state)
  BY DEF IInv
<1>2. Typed'
  <2>1. /\ row' \in Seq(Int) /\ Len(row') <= Len(schema)
        /\ \A i \in 1 .. Len(row') : row'[i] \in valuesOf(schema[i])
        /\ byRow => row' = <<>>
    BY <1>1 DEF Typed
  <2> QED BY <1>1, <2>1, TypedSame
<1>3. PICK s, k, values : s = state /\ k = Len(row) /\ values = row
  OBVIOUS
<1>4. Good(s, k, values)'
  BY <1>1, <1>3, GoodNext
<1>5. state' = s /\ Len(row') = k /\ row' = values
  BY <1>3 DEF state
<1>6. Good(state, Len(row), row)'
  BY <1>4, <1>5
<1>7. (phase \notin {"read", "aborted"} => Accounted(state))'
  BY <1>1, <1>3, <1>5 DEF Accounted
<1>8. Reading'
  <2>1. Len(written) \in Nat /\ Len(written') \in Nat /\ Len(written) <= Len(written')
    BY <1>1 DEF Typed
  <2> QED BY <1>1, <2>1, ReadingKept
<1> QED BY <1>2, <1>6, <1>7, <1>8 DEF IInv

\* WriteRowFails.
LEMMA WriteRowFailsOk ==
    ASSUME IInv, WriteRowFails
    PROVE  IInv'
<1>1. /\ schema' = schema /\ byRow' = byRow /\ c' = c /\ cells' = cells /\ w' = w /\ r' = r
      /\ row' = row /\ written' = written /\ got' = got /\ phase = "write"
      /\ phase' \in {"full", "threw"}
  BY DEF WriteRowFails
<1> QED BY <1>1, PhaseOnly

\* ResetReader.
LEMMA ResetReaderOk ==
    ASSUME IInv, ResetReader
    PROVE  IInv'
<1>1. /\ schema' = schema /\ byRow' = byRow /\ c' = c /\ cells' = cells /\ w' = w /\ r' = r
      /\ row' = row /\ written' = written /\ got' = got /\ phase' = "read"
  BY DEF ResetReader
<1> QED BY <1>1, PhaseOnly

\* WriteValue.
LEMMA WriteValueOk ==
    ASSUME IInv, WriteValue
    PROVE  IInv'
<1> DEFINE i == Len(row) + 1
<1>1. /\ phase = "write" /\ ~byRow /\ Len(row) < Len(schema)
      /\ schema' = schema /\ byRow' = byRow /\ r' = r /\ written' = written /\ got' = got
  BY DEF WriteValue
<1>2. PICK value \in valuesOf(schema[i]) :
         \/ /\ HasEnoughSpace(valueSize(schema[i], value))
            /\ become(writeValue(state, i, value))
            /\ row' = Append(row, value)
            /\ UNCHANGED phase
         \/ /\ ~HasEnoughSpace(valueSize(schema[i], value))
            /\ phase' = "full"
            /\ UNCHANGED <<c, w, cells, row>>
  BY DEF WriteValue
<1>3. CASE phase' = "full" /\ UNCHANGED <<c, w, cells, row>>
  BY <1>1, <1>3, PhaseOnly
<1>4. CASE /\ HasEnoughSpace(valueSize(schema[i], value))
           /\ become(writeValue(state, i, value))
           /\ row' = Append(row, value)
           /\ UNCHANGED phase
  <2>1. /\ schema \in Schemas /\ written \in Seq(Seq(Int)) /\ row \in Seq(Int) /\ Typed /\ Reading
        /\ Good(state, Len(row), row) /\ Accounted(state)
        /\ \A j \in 1 .. Len(row) : row[j] \in valuesOf(schema[j])
    BY <1>1 DEF IInv, Typed
  <2>2. PICK n \in Nat : n = Len(schema)
    BY <2>1, Layout
  <2>3. PICK k \in Nat : k = Len(row)
    BY <2>1
  <2>4. k \in 0 .. (n - 1) /\ k + 1 \in 1 .. n /\ i = k + 1
    BY <1>1, <2>2, <2>3
  <2>5. value \in Int /\ valueSize(schema[i], value) \in Nat
    <3>1. /\ width(schema[i]) \in Nat /\ tailOf(schema[i], value) \in Nat /\ value \in Int
          /\ valueSize(schema[i], value) = width(schema[i]) + tailOf(schema[i], value)
      BY <2>1, <2>2, <2>4, Values
    <3> QED BY <3>1
  <2>6. PICK values : values = Append(row, value)
    OBVIOUS
  <2>7. /\ values \in Seq(Int) /\ Len(values) = k + 1 /\ values[k + 1] = value
        /\ \A j \in 1 .. k : values[j] = row[j]
    BY <2>1, <2>3, <2>5, <2>6
  <2>8. PICK s : s = state
    OBVIOUS
  <2>9. Good(s, k, values)
    BY <2>1, <2>3, <2>7, <2>8, GoodValues
  <2>10. s.w.m_offset + s.c.variable_offset + valueSize(schema[k + 1], value) <= s.c.m_size
    <3>1. s.w = w /\ s.c = c
      BY <2>8 DEF state
    <3>2. w.m_offset \in Nat /\ c.variable_offset \in Nat /\ c.m_size \in Nat
      BY <2>9, <3>1 DEF Good, State, Chunk, Writer
    <3>3. c.m_size - c.variable_offset - w.m_offset >= valueSize(schema[i], value)
      BY <1>4 DEF HasEnoughSpace
    <3> QED BY <2>4, <2>5, <3>1, <3>2, <3>3
  <2>11. PICK t : t = writeValue(s, k + 1, value)
    OBVIOUS
  <2>12. Good(t, k + 1, values) /\ Accounted(t)
    <3>1. values[k + 1] \in valuesOf(schema[k + 1])
      BY <2>4, <2>7
    <3>2. Accounted(s)
      BY <2>1, <2>8
    <3>3. k \in 0 .. (Len(schema) - 1)
      BY <2>2, <2>4
    <3>4. t = writeValue(s, k + 1, values[k + 1])
      BY <2>7, <2>11
    <3>5. s.w.m_offset + s.c.variable_offset + valueSize(schema[k + 1], values[k + 1]) <= s.c.m_size
      BY <2>7, <2>10
    <3> HIDE DEF i
    <3>6. Good(t, k + 1, values) /\ (Accounted(s) => Accounted(t))
      BY <2>1, <2>9, <3>1, <3>3, <3>4, <3>5, GoodStep
    <3> QED BY <3>2, <3>6
  <2>13. t \in State
    BY <2>12 DEF Good
  <2>14. state' = t
    BY <1>4, <2>4, <2>8, <2>11, <2>13, Became
  <2>15. Good(t, k + 1, values)'
    BY <1>1, <2>12, GoodNext
  <2>16. Len(row') = k + 1 /\ row' = values
    BY <1>4, <2>6, <2>7
  <2>17. Good(state, Len(row), row)'
    BY <2>14, <2>15, <2>16
  <2>18. Accounted(state)'
    BY <2>12, <2>14 DEF Accounted
  <2>19. Typed'
    <3>1. row' \in Seq(Int) /\ Len(row') <= Len(schema)
      BY <2>2, <2>4, <2>7, <2>16
    <3>2. ASSUME NEW j \in 1 .. Len(row') PROVE row'[j] \in valuesOf(schema[j])
      <4>1. CASE j = k + 1
        BY <2>4, <2>7, <2>16, <4>1
      <4>2. CASE j # k + 1
        <5>1. j \in 1 .. k
          BY <2>16, <4>2
        <5> QED BY <2>1, <2>3, <2>7, <2>16, <5>1
      <4> QED BY <4>1, <4>2
    <3>3. phase' = "write"
      BY <1>1, <1>4
    <3> QED BY <1>1, <2>1, <3>1, <3>2, <3>3, TypedSame
  <2>20. Reading'
    <3>1. Len(written) \in Nat /\ Len(written') \in Nat /\ Len(written) <= Len(written')
      BY <1>1, <2>1
    <3> QED BY <1>1, <2>1, <3>1, ReadingKept
  <2>21. phase' = "write"
    BY <1>1, <1>4
  <2> QED BY <2>17, <2>18, <2>19, <2>20, <2>21 DEF IInv
<1> QED BY <1>2, <1>3, <1>4

\* Reading changes only what the books say was consumed.
LEMMA GoodRecounted ==
    ASSUME NEW s, NEW k, NEW values, Good(s, k, values), NEW x \in Nat, NEW t,
           t = [c |-> [s.c EXCEPT !.consumed_size = x], w |-> s.w, cells |-> s.cells]
    PROVE  Good(t, k, values)
<1>1. s \in State /\ s.c \in Chunk /\ s.w \in Writer /\ s.cells \in SUBSET Memory
  BY DEF Good, State
<1>2. PICK d : d = [s.c EXCEPT !.consumed_size = x]
  OBVIOUS
<1>3. /\ d \in Chunk /\ d.m_size = s.c.m_size /\ d.row_count = s.c.row_count
      /\ d.variable_offset = s.c.variable_offset
  BY <1>1, <1>2 DEF Chunk
<1>4. t \in State /\ t.c = d /\ t.w = s.w /\ t.cells = s.cells
  BY <1>1, <1>2, <1>3 DEF State
<1>5. \A at, n, i, v : holds(s, at, n, i, v) => holds(t, at, n, i, v)
  BY <1>3, <1>4, HoldsKept
<1>6. Stored(t, k, values)
  BY <1>5 DEF Good, Stored
<1>7. Apart(t)
  BY <1>3, <1>4 DEF Good, Apart
<1> QED BY <1>3, <1>4, <1>6, <1>7 DEF Good
\* The memory has the value that is read next, where the reader is.
LEMMA NextValue ==
    ASSUME IInv, Len(got) < c.row_count
    PROVE  /\ schema \in Schemas /\ state \in State /\ Apart(state)
           /\ w.m_offset + c.variable_offset <= c.m_size
           /\ Len(got) + 1 \in 1 .. Len(written) /\ Len(r.values) + 1 \in 1 .. Len(schema)
           /\ r.m_offset \in Nat /\ r.m_offset + width(schema[Len(r.values) + 1]) <= w.m_offset
           /\ written[Len(got) + 1][Len(r.values) + 1] \in valuesOf(schema[Len(r.values) + 1])
           /\ holds(state, r.m_offset, Len(got) + 1, Len(r.values) + 1,
                    written[Len(got) + 1][Len(r.values) + 1])
<1>2. /\ Typed /\ Reading /\ Good(state, Len(row), row) /\ schema \in Schemas
      /\ written \in Seq(Seq(Int)) /\ \A n \in 1 .. Len(written) : isRow(written[n])
  BY DEF IInv, Typed
<1>3. state.c = c /\ state.w = w /\ state.cells = cells
  BY DEF state
<1>4. /\ state \in State /\ Apart(state) /\ w.m_offset + c.variable_offset <= c.m_size
      /\ c.row_count = Len(written) /\ w.m_offset = Len(written) * rowWidth + offset[Len(row)]
      /\ Stored(state, Len(row), row)
  BY <1>2, <1>3 DEF Good
<1>5. PICK L \in Nat, l \in Nat, j \in Nat, n \in Nat \ {0} :
         L = Len(written) /\ l = Len(got) /\ j = Len(r.values) /\ n = Len(schema)
  BY <1>2, Layout DEF Reading
<1>6. l < L /\ j < n /\ j \in 0 .. (n - 1) /\ l + 1 \in 1 .. L /\ j + 1 \in 1 .. n
  BY <1>2, <1>4, <1>5 DEF Reading
<1>7. /\ offset \in [0 .. n -> Nat] /\ offset[0] = 0 /\ rowWidth \in Nat /\ offset[n] = rowWidth
      /\ schema[j + 1] \in Column
      /\ \A k \in 1 .. n : offset[k] = offset[k - 1] + width(schema[k])
  BY <1>2, <1>5, <1>6, Layout DEF rowWidth
<1>8. width(schema[j + 1]) \in Nat /\ offset[j + 1] = offset[j] + width(schema[j + 1])
      /\ offset[j] \in Nat
  <2>1. (j + 1) - 1 = j /\ j \in 0 .. n
    BY <1>6
  <2> QED BY <1>6, <1>7, <2>1, Width
<1>9. r.m_offset = l * rowWidth + offset[j]
  BY <1>2, <1>5 DEF Reading
<1>10. /\ l * rowWidth + offset[j] + width(schema[j + 1]) <= L * rowWidth
       /\ l * rowWidth + offset[j] \in Nat
       /\ place(l + 1, j + 1) = l * rowWidth + offset[j]
  BY <1>2, <1>5, <1>6, PlaceInRows
<1>11. r.m_offset \in Nat /\ r.m_offset + width(schema[j + 1]) <= w.m_offset
  <2>1. Len(row) \in 0 .. n
    BY <1>2, <1>5 DEF Typed
  <2>2. offset[Len(row)] \in Nat
    BY <1>7, <2>1
  <2>3. L * rowWidth \in Nat
    BY <1>7, NextRow
  <2>4. w.m_offset = L * rowWidth + offset[Len(row)]
    BY <1>4, <1>5
  <2>5. PICK p \in Nat, q \in Nat, x \in Nat :
           p = l * rowWidth + offset[j] /\ q = L * rowWidth /\ x = offset[Len(row)]
    BY <1>10, <2>2, <2>3
  <2> QED BY <1>8, <1>9, <1>10, <2>4, <2>5
<1>12. PICK v : v = written[l + 1][j + 1]
  OBVIOUS
<1>13. v \in valuesOf(schema[j + 1]) /\ holds(state, r.m_offset, l + 1, j + 1, v)
  <2>1. isRow(written[l + 1])
    BY <1>2, <1>5, <1>6
  <2>2. holds(state, place(l + 1, j + 1), l + 1, j + 1, written[l + 1][j + 1])
    BY <1>4, <1>5, <1>6 DEF Stored
  <2> QED BY <1>5, <1>6, <1>9, <1>10, <1>12, <2>1, <2>2 DEF isRow
<1> QED BY <1>2, <1>4, <1>5, <1>6, <1>11, <1>12, <1>13

\* ReadValue.
LEMMA ReadValueOk ==
    ASSUME IInv, ReadValue
    PROVE  IInv'
<1>1. /\ phase = "read" /\ Len(got) < c.row_count /\ schema' = schema /\ byRow' = byRow
      /\ cells' = cells /\ w' = w /\ row' = row /\ written' = written
  BY DEF ReadValue
<1>2. /\ Typed /\ Reading /\ Good(state, Len(row), row) /\ schema \in Schemas
      /\ written \in Seq(Seq(Int)) /\ \A n \in 1 .. Len(written) : isRow(written[n])
  BY DEF IInv, Typed
<1>3. state.c = c /\ state.w = w /\ state.cells = cells
  BY DEF state
<1>4. /\ state \in State /\ Apart(state) /\ w.m_offset + c.variable_offset <= c.m_size
      /\ c.row_count = Len(written) /\ w.m_offset = Len(written) * rowWidth + offset[Len(row)]
      /\ Stored(state, Len(row), row)
  BY <1>2, <1>3 DEF Good
<1>5. PICK L \in Nat, l \in Nat, j \in Nat, n \in Nat \ {0} :
         L = Len(written) /\ l = Len(got) /\ j = Len(r.values) /\ n = Len(schema)
  BY <1>2, Layout DEF Reading
<1>6. l < L /\ j < n /\ j \in 0 .. (n - 1) /\ l + 1 \in 1 .. L /\ j + 1 \in 1 .. n
  BY <1>1, <1>2, <1>4, <1>5 DEF Reading
<1>7. /\ offset \in [0 .. n -> Nat] /\ offset[0] = 0 /\ rowWidth \in Nat /\ offset[n] = rowWidth
      /\ schema[j + 1] \in Column
      /\ \A k \in 1 .. n : offset[k] = offset[k - 1] + width(schema[k])
  BY <1>2, <1>5, <1>6, Layout DEF rowWidth
<1>8. width(schema[j + 1]) \in Nat /\ offset[j + 1] = offset[j] + width(schema[j + 1])
      /\ offset[j] \in Nat
  <2>1. (j + 1) - 1 = j /\ j \in 0 .. n
    BY <1>6
  <2> QED BY <1>6, <1>7, <2>1, Width
<1>9. r.m_offset = l * rowWidth + offset[j]
  BY <1>2, <1>5 DEF Reading
<1>10. /\ l * rowWidth + offset[j] + width(schema[j + 1]) <= L * rowWidth
       /\ l * rowWidth + offset[j] \in Nat
       /\ place(l + 1, j + 1) = l * rowWidth + offset[j]
  BY <1>2, <1>5, <1>6, PlaceInRows
<1>11. r.m_offset \in Nat /\ r.m_offset + width(schema[j + 1]) <= w.m_offset
  BY <1>1, <1>5, NextValue
<1>12. PICK v : v = written[l + 1][j + 1]
  OBVIOUS
<1>13. v \in valuesOf(schema[j + 1]) /\ holds(state, r.m_offset, l + 1, j + 1, v)
  BY <1>1, <1>5, <1>12, NextValue
<1>14. PICK a : a = ReadColumn(schema[j + 1])
  OBVIOUS
<1>15. /\ a.value = readAs(l + 1, j + 1, v)
       /\ a.next = r.m_offset + width(schema[j + 1])
       /\ a.ok = TRUE
       /\ a.recounted \in Nat
  <2>1. l + 1 \in Nat /\ j + 1 \in 1 .. Len(schema)
    BY <1>5, <1>6
  <2> QED BY <1>2, <1>4, <1>11, <1>13, <1>14, <2>1, ColumnRead
<1>16. PICK values : values = Append(r.values, a.value)
  OBVIOUS
<1>17. /\ phase' = IF a.ok THEN "read" ELSE "bad chunk"
       /\ r' = [m_offset |-> a.next, values |-> IF j + 1 = n THEN <<>> ELSE values]
       /\ got' = IF j + 1 = n THEN Append(got, values) ELSE got
       /\ c' = [c EXCEPT !.consumed_size = @ + a.recounted]
  BY <1>5, <1>14, <1>16 DEF ReadValue
<1>18. phase' = "read"
  BY <1>15, <1>17
<1>19. Typed'
  <2>1. /\ row' \in Seq(Int) /\ Len(row') <= Len(schema)
        /\ \A i \in 1 .. Len(row') : row'[i] \in valuesOf(schema[i])
        /\ byRow => row' = <<>>
    BY <1>1, <1>2 DEF Typed
  <2> QED BY <1>1, <1>2, <1>18, <2>1, TypedSame
<1>20. Good(state, Len(row), row)'
  <2>1. PICK x \in Nat : x = c.consumed_size + a.recounted
    BY <1>3, <1>4, <1>15 DEF State, Chunk
  <2>2. PICK s, k, o : s = state /\ k = Len(row) /\ o = row
    OBVIOUS
  <2>3. PICK t : t = [c |-> [s.c EXCEPT !.consumed_size = x], w |-> s.w, cells |-> s.cells]
    OBVIOUS
  <2>4. Good(t, k, o)
    BY <1>2, <2>2, <2>3, GoodRecounted
  <2>5. Good(t, k, o)'
    BY <1>1, <2>4, GoodNext
  <2>6. state' = t /\ Len(row') = k /\ row' = o
    BY <1>1, <1>17, <2>1, <2>2, <2>3 DEF state
  <2> QED BY <2>5, <2>6
<1>21. /\ r.values \in Seq(What) /\ got \in Seq(Seq(What))
       /\ \A k \in 1 .. l : got[k] = asRead(k)
       /\ \A i \in 1 .. j : r.values[i] = asRead(l + 1)[i]
  BY <1>2, <1>5 DEF Reading
<1>22. a.value \in What
  <2>1. l + 1 \in Nat /\ j + 1 \in Nat
    OBVIOUS
  <2> QED BY <1>15, <2>1, Tags DEF readAs
<1>23. /\ values \in Seq(What) /\ Len(values) = j + 1 /\ values[j + 1] = a.value
       /\ \A i \in 1 .. j : values[i] = r.values[i]
  BY <1>5, <1>16, <1>21, <1>22
<1>24. \A k \in Nat : asRead(k)' = asRead(k)
  BY <1>1 DEF asRead
<1>25. DOMAIN schema = 1 .. n /\ asRead(l + 1)[j + 1] = a.value
  <2>1. DOMAIN schema = 1 .. n
    BY <1>2, <1>5, Layout
  <2> QED BY <1>6, <1>12, <1>15, <2>1 DEF asRead, readAs
<1>26. \A i \in 1 .. (j + 1) : values[i] = asRead(l + 1)[i]
  <2>1. ASSUME NEW i \in 1 .. (j + 1) PROVE values[i] = asRead(l + 1)[i]
    <3>1. CASE i = j + 1
      BY <1>23, <1>25, <3>1
    <3>2. CASE i # j + 1
      <4>1. i \in 1 .. j
        BY <3>2
      <4> QED BY <1>21, <1>23, <4>1
    <3> QED BY <3>1, <3>2
  <2> QED BY <2>1
<1>27. offset' = offset /\ rowWidth' = rowWidth
  BY <1>1, SameLayout
<1>28. PICK p \in Nat : p = l * rowWidth
  BY <1>7, NextRow
<1>29. a.next = p + offset[j + 1] /\ a.next \in Nat
  BY <1>8, <1>9, <1>15, <1>28
<1>30. Reading'
  <2>1. CASE j + 1 = n
    <3>1. r' = [m_offset |-> a.next, values |-> <<>>] /\ got' = Append(got, values)
      BY <1>17, <2>1
    <3>2. r'.m_offset = a.next /\ r'.values = <<>> /\ Len(r'.values) = 0
      BY <3>1
    <3>3. r' \in [m_offset : Nat, values : Seq(What)]
      BY <1>29, <3>1
    <3>4. /\ got' \in Seq(Seq(What)) /\ Len(got') = l + 1 /\ got'[l + 1] = values
          /\ \A k \in 1 .. l : got'[k] = got[k]
      BY <1>5, <1>21, <1>23, <3>1
    <3>5. values = asRead(l + 1)
      <4>1. DOMAIN values = 1 .. n /\ values = [i \in 1 .. n |-> values[i]]
        BY <1>23, <2>1
      <4>2. asRead(l + 1) = [i \in 1 .. n |-> asRead(l + 1)[i]]
        BY <1>25 DEF asRead
      <4> QED BY <1>26, <2>1, <4>1, <4>2
    <3>6. ASSUME NEW k \in 1 .. Len(got') PROVE got'[k] = asRead(k)
      <4>1. CASE k = l + 1
        BY <3>4, <3>5, <4>1
      <4>2. CASE k # l + 1
        <5>1. k \in 1 .. l
          BY <3>4, <4>2
        <5> QED BY <1>21, <3>4, <5>1
      <4> QED BY <4>1, <4>2
    <3>7. (\A k \in 1 .. Len(got) : got[k] = asRead(k))'
      <4>1. \A k \in 1 .. Len(got') : k \in Nat
        BY <3>4
      <4> QED BY <1>24, <3>6, <4>1
    <3>8. r'.m_offset = Len(got') * rowWidth + offset[Len(r'.values)]
      <4>1. (l + 1) * rowWidth = p + rowWidth
        BY <1>7, <1>28, NextRow
      <4>2. Len(got') * rowWidth + offset[Len(r'.values)] = (p + rowWidth) + 0
        BY <1>7, <3>2, <3>4, <4>1
      <4>3. (p + rowWidth) + 0 = p + rowWidth
        BY <1>7
      <4>4. r'.m_offset = p + rowWidth
        BY <1>7, <1>29, <2>1, <3>2
      <4> QED BY <4>2, <4>3, <4>4
    <3>9. Len(got') <= Len(written') /\ Len(r'.values) < Len(schema')
      BY <1>1, <1>5, <1>6, <3>2, <3>4
    <3>10. 1 .. 0 = {}
      OBVIOUS
    <3> QED BY <1>27, <3>2, <3>3, <3>4, <3>7, <3>8, <3>9, <3>10 DEF Reading
  <2>2. CASE j + 1 # n
    <3>1. r' = [m_offset |-> a.next, values |-> values] /\ got' = got
      BY <1>17, <2>2
    <3>2. r'.m_offset = a.next /\ r'.values = values /\ Len(r'.values) = j + 1 /\ Len(got') = l
      BY <1>5, <1>23, <3>1
    <3>3. r' \in [m_offset : Nat, values : Seq(What)]
      BY <1>23, <1>29, <3>1
    <3>4. (\A k \in 1 .. Len(got) : got[k] = asRead(k))'
      <4>1. \A k \in 1 .. l : k \in Nat
        OBVIOUS
      <4> QED BY <1>21, <1>24, <3>1, <3>2, <4>1
    <3>5. Len(got') < Len(written') /\ Len(r'.values) < Len(schema')
      BY <1>1, <1>5, <1>6, <2>2, <3>2
    <3>6. r'.m_offset = Len(got') * rowWidth + offset[Len(r'.values)]
      BY <1>28, <1>29, <3>2
    <3>7. (\A i \in 1 .. Len(r.values) : r.values[i] = asRead(Len(got) + 1)[i])'
      <4>1. asRead(l + 1)' = asRead(l + 1)
        BY <1>24
      <4> QED BY <1>26, <3>2, <4>1
    <3>8. Len(got') <= Len(written') /\ got' \in Seq(Seq(What))
      BY <1>1, <1>5, <1>6, <1>21, <3>1, <3>2
    <3> QED BY <1>27, <3>3, <3>4, <3>5, <3>6, <3>7, <3>8 DEF Reading
  <2> QED BY <2>1, <2>2
<1> QED BY <1>18, <1>19, <1>20, <1>30 DEF IInv

\* Abort: a value with bytes has its distance, since its bytes are in the chunk.
LEMMA AbortOk ==
    ASSUME IInv, Abort
    PROVE  IInv'
<1>1. /\ schema' = schema /\ byRow' = byRow /\ ndebug' = ndebug /\ c' = c /\ cells' = cells
      /\ w' = w /\ r' = r /\ row' = row /\ written' = written /\ got' = got
      /\ phase = "read" /\ phase' = "aborted" /\ Len(got) < c.row_count
      /\ ~ndebug /\ schema[Len(r.values) + 1].type = "Variable" /\ number(r.m_offset) = 0
  BY DEF Abort, assertFails
<1>2. PICK n, i, v, at : /\ n = Len(got) + 1 /\ i = Len(r.values) + 1 /\ v = written[n][i]
                         /\ at = r.m_offset
  OBVIOUS
<1>3. /\ schema \in Schemas /\ state \in State /\ Apart(state)
      /\ w.m_offset + c.variable_offset <= c.m_size
      /\ n \in 1 .. Len(written) /\ i \in 1 .. Len(schema)
      /\ v \in valuesOf(schema[i]) /\ holds(state, at, n, i, v)
  BY <1>1, <1>2, NextValue
<1>4. state.c = c /\ state.w = w /\ state.cells = cells
  BY DEF state
<1>5. PICK d \in Nat : /\ cell(at, 8, ofNumber(d)) \in cells
                       /\ lengthOf(v) # 0 => cell(c.m_size - d, lengthOf(v), ofValue(n, i)) \in cells
  BY <1>1, <1>2, <1>3, <1>4 DEF holds
<1>6. d = 0
  <2>1. contents(at) = ofNumber(d)
    BY <1>3, <1>5, CellContents
  <2> QED BY <1>1, <1>2, <2>1 DEF number, ofNumber
<1>7. lengthOf(v) = 0
  <2> SUFFICES ASSUME lengthOf(v) # 0 PROVE FALSE
    OBVIOUS
  <2>1. PICK len \in Nat \ {0} : len = lengthOf(v)
    BY <1>3, Values
  <2>2. PICK m \in Nat, o \in Nat, p \in Nat : m = c.m_size /\ o = w.m_offset /\ p = c.variable_offset
    BY <1>3, <1>4 DEF State, Chunk, Writer
  <2>3. PICK x \in cells : x.at = m /\ x.len = len
    <3>1. m - d = m
      BY <1>6
    <3> QED BY <1>5, <2>1, <2>2, <3>1 DEF cell
  <2>4. x.at + x.len <= o \/ x.at + x.len <= m
    BY <1>3, <1>4, <2>2 DEF Apart
  <2> QED BY <1>3, <2>1, <2>2, <2>3, <2>4
<1>8. Aborted'
  BY <1>1, <1>2, <1>7 DEF Aborted, lengthOf
<1> QED BY <1>1, <1>8, PhaseOnly

-----------------------------------------------------------------------------
(* The theorems.                                                           *)

\* The inductive invariant: the chunk always holds the rows that were ended and
\* the first values of the next one, each at the place the schema gives it, and
\* the reader is at the first value it has not read.
THEOREM Invariance == Spec => []IInv
<1>1. Init => IInv
  BY InitOk
<1>2. IInv /\ [Next]_vars => IInv'
  <2> SUFFICES ASSUME IInv, [Next]_vars PROVE IInv'
    OBVIOUS
  <2>1. CASE WriteRow
    BY <2>1, WriteRowOk
  <2>2. CASE WriteRowFails
    BY <2>2, WriteRowFailsOk
  <2>3. CASE WriteValue
    BY <2>3, WriteValueOk
  <2>4. CASE WriteRowEnd
    BY <2>4, WriteRowEndOk
  <2>5. CASE ResetReader
    BY <2>5, ResetReaderOk
  <2>6. CASE ReadValue
    BY <2>6, ReadValueOk
  <2>7. CASE UNCHANGED vars
    <3>1. /\ phase \in {"write", "full", "threw", "read", "aborted"}
          /\ phase = "aborted" => Aborted
      BY DEF IInv, Typed
    <3>2. phase' = "aborted" => Aborted'
      BY <2>7, <3>1 DEF vars, Aborted
    <3> QED BY <2>7, <3>1, <3>2, PhaseOnly DEF vars
  <2>8. CASE Abort
    BY <2>8, AbortOk
  <2> QED BY <2>1, <2>2, <2>3, <2>4, <2>5, <2>6, <2>7, <2>8 DEF Next
<1> QED BY <1>1, <1>2, PTL DEF Spec

\* No write leaves the chunk and no byte is written twice, whether the space is
\* checked for a row (WriteRow) or for one value at a time (the C API).
THEOREM CellsApartHolds == Spec => []CellsApart
<1>1. IInv => CellsApart
  <2> SUFFICES ASSUME IInv PROVE CellsApart
    OBVIOUS
  <2>1. state.cells = cells /\ state.w = w /\ state.c = c
    BY DEF state
  <2>2. /\ state \in State /\ Apart(state) /\ w.m_offset + c.variable_offset <= c.m_size
    BY <2>1 DEF IInv, Good
  <2>3. w.m_offset \in Nat /\ c.variable_offset \in Nat /\ c.m_size \in Nat /\ cells \in SUBSET Memory
    BY <2>1, <2>2 DEF State, Chunk, Writer
  <2>4. ASSUME NEW x \in cells PROVE x.at >= 0 /\ x.at + x.len <= c.m_size
    <3>1. x.at \in Int /\ x.len \in Nat
      BY <2>3 DEF Memory
    <3>2. \/ x.at >= 0 /\ x.at + x.len <= w.m_offset
          \/ x.at >= c.m_size - c.variable_offset /\ x.at + x.len <= c.m_size
      BY <2>1, <2>2 DEF Apart
    <3> QED BY <2>2, <2>3, <3>1, <3>2
  <2>5. \A x, y \in cells : x = y \/ x.at + x.len <= y.at \/ y.at + y.len <= x.at
    BY <2>1, <2>2 DEF Apart
  <2> QED BY <2>4, <2>5 DEF CellsApart
<1> QED BY <1>1, Invariance, PTL

\* The assertion of HasEnoughSpace, the sum of the two parts in consumed_size,
\* and the equal length of all rows at the front.
THEOREM SpaceAccountedHolds == Spec => []SpaceAccounted
<1>1. IInv => SpaceAccounted
  <2> SUFFICES ASSUME IInv PROVE SpaceAccounted
    OBVIOUS
  <2>1. state.w = w /\ state.c = c
    BY DEF state
  <2>2. /\ w.m_offset + c.variable_offset <= c.m_size
        /\ c.row_count = Len(written) /\ w.m_row_offset = Len(written) * rowWidth
        /\ w.m_row_fixed_size = IF Len(written) = 0 THEN 0 ELSE rowWidth
        /\ written \in Seq(Seq(Int)) /\ schema \in Schemas
    BY <2>1 DEF IInv, Good, Typed
  <2>3. PICK l \in Nat, v \in Nat : l = Len(written) /\ v = rowWidth
    BY <2>2, Layout
  <2>4. w.m_row_offset = c.row_count * w.m_row_fixed_size
    <3>1. CASE l = 0
      <4>1. 0 * v = 0
        OBVIOUS
      <4> QED BY <2>2, <2>3, <3>1, <4>1
    <3>2. CASE l # 0
      BY <2>2, <2>3, <3>2
    <3> QED BY <3>1, <3>2
  <2>5. phase \notin {"read", "aborted"} => c.consumed_size = w.m_offset + c.variable_offset
    BY <2>1 DEF IInv, Accounted
  <2> QED BY <2>2, <2>4, <2>5 DEF SpaceAccounted
<1> QED BY <1>1, Invariance, PTL

\* The reader returns every value of every row that was ended, and only those, up to
\* where the assertion of ReadVariable stops a build that has it: at a null or empty
\* value only.
THEOREM ReadsBackHolds == Spec => []ReadsBack
<1>1. IInv => ReadsBack
  <2> SUFFICES ASSUME IInv PROVE ReadsBack
    OBVIOUS
  <2>1. /\ phase # "bad chunk" /\ got \in Seq(Seq(What)) /\ Len(got) <= Len(written)
        /\ \A n \in 1 .. Len(got) : got[n] = asRead(n)
        /\ phase = "aborted" => Aborted
    BY DEF IInv, Typed, Reading
  <2>2. got = [n \in 1 .. Len(got) |-> got[n]]
    <3>1. PICK S : got \in Seq(S)
      BY <2>1
    <3>2. DOMAIN got = 1 .. Len(got) /\ got = [n \in DOMAIN got |-> got[n]]
      BY <3>1
    <3> QED BY <3>2
  <2>3. got = [n \in 1 .. Len(got) |-> asRead(n)]
    BY <2>1, <2>2
  <2> QED BY <2>1, <2>3 DEF ReadsBack, Aborted
<1> QED BY <1>1, Invariance, PTL
=============================================================================
