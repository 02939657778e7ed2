----------------------------- MODULE RowStream ------------------------------
(***************************************************************************)
(* The way of the rows of one result set into chunks: the reader thread    *)
(* ResultTableReader::Read (result_table_reader.cpp) over its own          *)
(* S2Connection (module Connection) and a SuperChunkWriter, seen by the    *)
(* sizes of the rows.  A reader of a parallel read prepares its statement  *)
(* in its thread; the only reader of QueryGetQueue is prepared before the  *)
(* thread starts, by StreamingQueue::CreateChunkQueue, with the protocol   *)
(* its caller chose.                                                       *)
(*                                                                         *)
(* The queue the chunks are pushed to is the variable pushed; what happens *)
(* in it is the subject of the modules StreamingRead and MultiPassRead.    *)
(***************************************************************************)
EXTENDS Connection, SequencesExt

CONSTANTS
    MaxRows,     \* bound: rows of a result set
    RowSizes,    \* the values of rowSize() that occur
    ChunkSize,   \* m_chunk_size
    Protocols    \* the values of usePreparedProtocol

ASSUME RowStreamAssumption ==
    /\ MaxRows \in Nat
    /\ RowSizes \subseteq Nat \ {0}
    /\ ChunkSize \in Nat
    /\ Protocols \subseteq BOOLEAN

VARIABLES
    isParallel,      \* m_is_parallel
    usePrepared,     \* m_use_prepared_protocol
    rows,            \* the result set the server has for m_query
    conn,            \* m_conn
    m_error,         \* the code of m_error
    m_stop_reading,
    chunk,           \* the rows of the chunk being filled
    pushed,          \* the chunks given to the queue
    errno,           \* the code of the client's m_error: S2Errno
    pc               \* where the reader, or its creator, is

vars == <<isParallel, usePrepared, rows, conn, m_error, m_stop_reading,
          chunk, pushed, errno, pc>>

ResultSets ==
    UNION {{[i \in 1..n |-> [id |-> i, size |-> size[i]]] : size \in [1..n -> RowSizes]} :
              n \in 0..MaxRows}

Init ==
    /\ isParallel \in BOOLEAN
    /\ usePrepared \in IF isParallel THEN {TRUE} ELSE Protocols
    /\ rows \in ResultSets \cup (IF isParallel THEN {} ELSE {NoResultSet})
    /\ conn = newConnection
    /\ m_error = 0
    /\ m_stop_reading = FALSE
    /\ chunk = <<>>
    /\ pushed = <<>>
    /\ errno = 0
    /\ pc = "PrepareRead"

-----------------------------------------------------------------------------
(* PrepareRead.  The reader of a parallel read leaves when it failed; the  *)
(* creator of the other one reports the failure and returns nullptr.       *)

PrepareRead ==
    /\ pc = "PrepareRead"
    /\ \E o \in IF usePrepared THEN Prepare(conn, rows, isParallel)
                               ELSE Execute(conn, rows) :
          /\ conn' = o.conn
          /\ m_error' = o.code
          /\ \/ /\ isParallel
                /\ pc' = IF o.code # 0 THEN "done" ELSE "loop"
                /\ UNCHANGED errno
             \/ /\ ~isParallel
                /\ pc' = IF o.code # 0 THEN "nullptr" ELSE "UpdateRowSchema"
                /\ errno' = o.code
    /\ UNCHANGED <<isParallel, usePrepared, rows, m_stop_reading, chunk, pushed>>

\* GetRowSchema reads the columns of m_res without looking whether there is one.
UpdateRowSchema ==
    /\ pc = "UpdateRowSchema"
    /\ \/ /\ ~conn.m_use_binary_protocol /\ conn.m_res = "null"
          /\ pc' = "crashed"
          /\ UNCHANGED <<conn, errno>>
       \/ /\ conn.m_use_binary_protocol \/ conn.m_res # "null"
          /\ \E o \in GetRowSchema(conn) :
                /\ conn' = o.conn
                /\ errno' = o.code
                /\ pc' = IF o.threw THEN "nullptr" ELSE "Prefetch"
    /\ UNCHANGED <<isParallel, usePrepared, rows, m_error, m_stop_reading, chunk, pushed>>

\* Then the reading thread is started.
Prefetch ==
    /\ pc = "Prefetch"
    /\ \E o \in Advance(conn) :
          /\ conn' = o.conn
          /\ errno' = o.code
          /\ pc' = IF o.threw THEN "nullptr" ELSE "loop"
    /\ UNCHANGED <<isParallel, usePrepared, rows, m_error, m_stop_reading, chunk, pushed>>

-----------------------------------------------------------------------------
(* Read.                                                                   *)

\* Mutant: the caught error is forgotten.
failForgets(code) == pc' = "done" /\ UNCHANGED m_error

\* What is thrown in the loop ends it and is kept for GetError.
Fail(code) ==
    /\ m_error' = code
    /\ pc' = "done"

\* The condition of the loop.  The chunk is allocated; malloc may fail.
StartChunk ==
    /\ pc = "loop" /\ ~m_stop_reading /\ HasNextRow(conn)
    /\ chunk' = <<>>
    /\ \/ pc' = "NextChunk" /\ UNCHANGED m_error
       \/ Fail(ServerError)
    /\ UNCHANGED <<isParallel, usePrepared, rows, conn, m_stop_reading, pushed, errno>>

LeaveLoop ==
    /\ pc = "loop"
    /\ m_stop_reading \/ ~HasNextRow(conn)
    /\ pc' = "done"
    /\ UNCHANGED <<isParallel, usePrepared, rows, conn, m_error, m_stop_reading, chunk,
                   pushed, errno>>

used(c) == FoldLeft(LAMBDA n, row : n + row.size, 0, c)

\* Mutant: the last byte of the chunk is given away twice.
HasEnoughSpaceOff(c, size) == ChunkSize - used(c) + 1 >= size

HasEnoughSpace(c, size) == ChunkSize - used(c) >= size

\* WriteRow returned true: the row is in the chunk, the next one is fetched.
\* A fetch that fails leaves NextChunk with the chunk in hand.
WriteRow ==
    /\ pc = "NextChunk" /\ HasNextRow(conn)
    /\ HasEnoughSpace(chunk, conn.m_last_fetched_row[1].size)
    /\ chunk' = chunk \o conn.m_last_fetched_row
    /\ \E o \in Advance(conn) :
          /\ conn' = o.conn
          /\ \/ o.threw /\ Fail(o.code)
             \/ ~o.threw /\ UNCHANGED <<m_error, pc>>
    /\ UNCHANGED <<isParallel, usePrepared, rows, m_stop_reading, pushed, errno>>

\* WriteRow threw: the first row of a chunk does not fit into it, or a value
\* has no representation (an unsupported type, a date timegm refuses).
WriteRowThrows ==
    /\ pc = "NextChunk" /\ HasNextRow(conn)
    /\ Fail(ServerError)
    /\ UNCHANGED <<isParallel, usePrepared, rows, conn, m_stop_reading, chunk, pushed, errno>>

\* There is no row, or WriteRow returned false.
chunkFinished ==
    HasNextRow(conn) =>
        /\ chunk # <<>>
        /\ ~HasEnoughSpace(chunk, conn.m_last_fetched_row[1].size)

\* Mutant: the row that did not fit is passed over.
PushDropsRow ==
    /\ pc = "NextChunk" /\ chunkFinished
    /\ pushed' = Append(pushed, chunk)
    /\ chunk' = <<>>
    /\ pc' = "loop"
    /\ \E o \in IF HasNextRow(conn) THEN Advance(conn) ELSE {returned(conn)} :
          ~o.threw /\ conn' = o.conn
    /\ UNCHANGED <<isParallel, usePrepared, rows, m_error, m_stop_reading, errno>>

\* The last fetched row either is null or did not fit: it stays for the next
\* chunk.  The chunk is pushed.
Push ==
    /\ pc = "NextChunk" /\ chunkFinished
    /\ pushed' = Append(pushed, chunk)
    /\ chunk' = <<>>
    /\ pc' = "loop"
    /\ UNCHANGED <<isParallel, usePrepared, rows, conn, m_error, m_stop_reading, errno>>

\* The destructor of the queue, in another thread.
StopReading ==
    /\ pc \in {"loop", "NextChunk"} /\ ~m_stop_reading
    /\ m_stop_reading' = TRUE
    /\ UNCHANGED <<isParallel, usePrepared, rows, conn, m_error, chunk, pushed, errno, pc>>

Next ==
    \/ PrepareRead \/ UpdateRowSchema \/ Prefetch
    \/ StartChunk \/ LeaveLoop \/ WriteRow \/ WriteRowThrows \/ Push
    \/ StopReading

Spec == Init /\ [][Next]_vars

-----------------------------------------------------------------------------
delivered == FlattenSeq(pushed)

\* The rows Execute may have passed over: at most one, only in text.
skips == IF usePrepared THEN {0} ELSE {0, 1}

\* The rows reach the queue in the order of the result set, none twice and
\* none passed over, whatever the sizes of the rows, however many chunks they
\* take, and however the read ends.  (Through the text protocol the first one
\* may be missing: AllRowsDelivered.)
RowsInOrder ==
    \E skipped \in skips :
        delivered = SubSeq(rows, skipped + 1, skipped + Len(delivered))

\* A chunk that was pushed is not empty and fits, and it was closed only
\* because the next row of the result set would not have fitted.
ChunksFilled ==
    \A i \in DOMAIN pushed :
        /\ pushed[i] # <<>>
        /\ used(pushed[i]) <= ChunkSize
        /\ LET next == Last(pushed[i]).id + 1
           IN next \in DOMAIN rows => used(pushed[i]) + rows[next].size > ChunkSize

\* A reader that ends without an error and that nobody stopped has delivered
\* the result set to its last row: the end of the queue is the end of the data.
EndOrError ==
    pc = "done" /\ m_error = 0 /\ ~m_stop_reading =>
        \E skipped \in skips : delivered = SubSeq(rows, skipped + 1, Len(rows))

\* Whenever the row in memory is to be replaced by the next one there is a
\* statement or a result to fetch it from: the end of the data closes the
\* statement and frees the row together, and nothing advances after that.
StatementOpen ==
    \/ pc = "Prefetch"
    \/ pc \in {"loop", "NextChunk"} /\ HasNextRow(conn)
    => IF conn.m_use_binary_protocol THEN conn.m_stmt = "executed"
       ELSE conn.m_res = "open"

\* QueryGetQueue: "The results are fetched in the same manner as parallel read
\* results" (s2_client_extern.h) whichever protocol is used, so a read that
\* ends without an error delivers every row.
AllRowsDelivered ==
    pc = "done" /\ m_error = 0 /\ ~m_stop_reading => delivered = rows
==============================================================================
