--------------------------- MODULE MultiPassQueue ---------------------------
(***************************************************************************)
(* The two parts of a MultiPassQueue (queue/multi_pass_queue.cpp) around   *)
(* its passes: CreateChunkQueue with every early return, as                *)
(* ParallelReadGetQueue calls it, and the point reads GetSingleRow and     *)
(* GetMultipleRows, for which each consumer thread opens a connection of   *)
(* its own.  The passes between the two are the subject of MultiPassRead.  *)
(*                                                                         *)
(* The loops that deal out the partitions are those of PartitionLoops; the *)
(* connections are those of Connection.  A node is the number of an        *)
(* aggregator, or Master.                                                  *)
(***************************************************************************)
EXTENDS PartitionLoops, Connection, SequencesExt

CONSTANTS
    MaxAggregators,  \* bound: child aggregators of the cluster
    RowSizes,        \* rowSize() of the rows of a partition, in the order of its scan
    RowIdSets,       \* the sets of rows that GetMultipleRows is asked for: the places of
                     \* their keys in the order of the key, 0 for a key that is not there
    ChunkSizes,      \* the values of chunkSize that a point read passes
    MaxCalls,        \* bound: point reads
    MaxTotalRead,    \* bound: partitions of a table that is read by rows
    MaxFailures      \* bound: failures of connections, statements and malloc

ASSUME MultiPassQueueAssumption ==
    /\ MaxAggregators \in Nat
    /\ RowSizes \in Seq(Nat \ {0})
    /\ ChunkSizes \subseteq Nat
    /\ RowIdSets \subseteq SUBSET (0 .. Len(RowSizes))
    /\ MaxCalls \in Nat
    /\ MaxTotalRead \in Nat
    /\ MaxFailures \in Nat

VARIABLES
    m_read_type,
    pc,                      \* where the creation is; "open" when it has returned a queue
    m_aggregators,           \* their number
    m_readers,               \* the partition and the node of every reader
    started,                 \* the number of readers whose thread runs
    m_error_before_read,
    m_consumer_threads_num,
    m_consumers,             \* the connection of each consumer thread, and its node
    cb,                      \* what the callback of the creation was told
    errno,                   \* S2Errno of the client
    call,                    \* the point read that runs: "idle", or "filling" a chunk
    ret,                     \* the last point read and what came of it
    calls,                   \* the number of point reads
    failures                 \* the number of failures

created == <<m_read_type, m_aggregators, m_readers, started, m_error_before_read,
             m_consumer_threads_num, cb, errno>>
reads == <<m_consumers, call, ret, calls>>
qvars == <<vars, pc, created, reads, failures>>

Master == -1
InvArg == 1          \* S2C_ERROR_INV_ARG
NoMemory == 4        \* S2C_ERROR_MEMORY_ALLOCATION
Uninitialized == {0, 7}  \* what an int that was never set may hold
Threads == 0 .. MaxConsumers
ReadTypes == {"Unknown", "ResultTable", "ColumnStoreTable", "OriginalTable"}

NoConnection == [conn |-> <<>>, node |-> Master]
NoCall == [op |-> "none", thread |-> 0, partition |-> 0, ids |-> {}, size |-> 0, rows |-> <<>>, err |-> 0]

QInit ==
    /\ Init
    /\ m_read_type \in ReadTypes
    /\ pc = "loops"
    /\ m_aggregators = 0
    /\ m_readers = <<>>
    /\ started = 0
    /\ m_error_before_read = TRUE
    /\ m_consumer_threads_num = 0
    /\ m_consumers = <<>>
    /\ cb = {}
    /\ errno = 0
    /\ call = "idle"
    /\ ret = NoCall
    /\ calls = 0
    /\ failures = 0

\* n calls of the client library, or of malloc, fail.
fail(n) == failures + n <= MaxFailures /\ failures' = failures + n

-----------------------------------------------------------------------------
(* CreateChunkQueue.                                                       *)

Loops ==
    /\ pc = "loops"
    /\ Next
    /\ pc' = IF loop' = "done" THEN "schema" ELSE "loops"
    /\ UNCHANGED <<created, reads, failures>>

\* An S2ClientError of a statement: SetError tells the client and the callback,
\* and the queue made so far is destroyed.
CreateThrows ==
    /\ fail(1)
    /\ errno' = ServerError
    /\ cb' = cb \cup {[severity |-> "ERROR", partition |-> -1]}
    /\ pc' = "null"
    /\ UNCHANGED <<m_read_type, m_aggregators, m_readers, started, m_error_before_read,
                   m_consumer_threads_num>>

ExplainRowSchema ==
    /\ pc = "schema"
    /\ \/ pc' = "aggregators" /\ UNCHANGED <<created, failures>>
       \/ CreateThrows
    /\ UNCHANGED <<vars, reads>>

\* Mutant: the flag is cleared when there is nothing left that SetError reports.
GetAggregatorsClears ==
    /\ pc = "aggregators"
    /\ \/ /\ m_aggregators' \in 0 .. MaxAggregators
          /\ pc' = IF m_read_type = "OriginalTable" THEN "keys" ELSE "readers"
          /\ m_error_before_read' = FALSE
          /\ UNCHANGED <<m_read_type, m_readers, started, m_consumer_threads_num, cb, errno,
                         failures>>
       \/ CreateThrows
    /\ UNCHANGED <<vars, reads>>

GetAggregators ==
    /\ pc = "aggregators"
    /\ \/ /\ m_aggregators' \in 0 .. MaxAggregators
          /\ pc' = IF m_read_type = "OriginalTable" THEN "keys" ELSE "readers"
          /\ UNCHANGED <<m_read_type, m_readers, started, m_error_before_read,
                         m_consumer_threads_num, cb, errno, failures>>
       \/ CreateThrows
    /\ UNCHANGED <<vars, reads>>

\* Nothing in CreateChunkQueue catches what GetTableKeys throws;
\* ParallelReadGetQueue does, and reports it in the same way.
GetTableKeys ==
    /\ pc = "keys"
    /\ \/ pc' = "readers" /\ UNCHANGED <<created, failures>>
       \/ CreateThrows
    /\ UNCHANGED <<vars, reads>>

FillCredentials(partition) ==
    IF m_aggregators = 0 THEN Master ELSE partition % m_aggregators

told(severity, partition) == [severity |-> severity, partition |-> partition]

\* Mutant: the failure at the aggregator is not reported.
CreateReaderSilently(partition) ==
    /\ \/ /\ m_readers' = Append(m_readers, [partition |-> partition,
                                             node |-> FillCredentials(partition)])
          /\ UNCHANGED <<cb, pc, failures>>
       \/ /\ fail(1)
          /\ m_readers' = Append(m_readers, [partition |-> partition, node |-> Master])
          /\ UNCHANGED <<cb, pc>>
       \/ /\ fail(2)
          /\ cb' = cb \cup {told("ERROR", partition)}
          /\ pc' = "null"
          /\ UNCHANGED m_readers

\* The connection is tried at the partition's aggregator and then, after a
\* warning, with the credentials of the client.
CreateReader(partition) ==
    /\ \/ /\ m_readers' = Append(m_readers, [partition |-> partition,
                                             node |-> FillCredentials(partition)])
          /\ UNCHANGED <<cb, pc, failures>>
       \/ /\ fail(1)
          /\ m_readers' = Append(m_readers, [partition |-> partition, node |-> Master])
          /\ cb' = cb \cup {told("WARNING", partition)}
          /\ UNCHANGED pc
       \/ /\ fail(2)
          /\ cb' = cb \cup {told("WARNING", partition), told("ERROR", partition)}
          /\ pc' = "null"
          /\ UNCHANGED m_readers

\* One round of the loop over the partitions.  A read type that is none of the
\* three returns without a word; a partition without a consumer (nConsumers
\* is 0) is looked up at the index -1.
NextReader ==
    /\ pc = "readers"
    /\ Len(m_readers) < Len(partitions)
    /\ LET partition == partitions[Len(m_readers) + 1] IN
          \/ /\ m_read_type = "Unknown"
             /\ pc' = "null"
             /\ UNCHANGED <<m_readers, cb, failures>>
          \/ /\ m_read_type # "Unknown" /\ m_partition_consumer[partition] = -1
             /\ pc' = "undefined"
             /\ UNCHANGED <<m_readers, cb, failures>>
          \/ /\ m_read_type # "Unknown" /\ m_partition_consumer[partition] # -1
             /\ CreateReader(partition)
    /\ UNCHANGED <<vars, reads, m_read_type, m_aggregators, started, m_error_before_read,
                   m_consumer_threads_num, errno>>

\* The readers are started.  Without a reader the queue is returned as it is,
\* with an m_consumer_threads_num that nobody has set.
StartReaders ==
    /\ pc = "readers"
    /\ Len(m_readers) = Len(partitions)
    /\ m_error_before_read' = FALSE
    /\ started' = Len(m_readers)
    /\ IF m_readers = <<>>
       THEN m_consumer_threads_num' \in Uninitialized /\ UNCHANGED m_consumers
       ELSE /\ m_consumer_threads_num' = nConsumers
            /\ m_consumers' = [c \in 1 .. nConsumers |-> NoConnection]
    /\ pc' = "open"
    /\ UNCHANGED <<vars, m_read_type, m_aggregators, m_readers, cb, errno, call, ret, calls,
                   failures>>

-----------------------------------------------------------------------------
(* The statements of the point reads.  The rows of a partition are stored  *)
(* in the order of its sort key; their keys (the ids) run the other way.   *)

rowsOf(partition) ==
    [j \in DOMAIN RowSizes |->
        [id |-> partition * Len(RowSizes) + Len(RowSizes) - j + 1, size |-> RowSizes[j]]]

withIds(partition, rowIds) == {row \in Range(rowsOf(partition)) : row.id \in rowIds}

\* A row of a result table is named by its number, partition_row_id().
MakePointInTimeQuery(partition, rowId) ==
    IF m_read_type = "ResultTable"
    THEN IF rowId < Len(RowSizes) THEN <<rowsOf(partition)[rowId + 1]>> ELSE <<>>
    ELSE SetToSeq(withIds(partition, {rowId}))

\* Mutant: no ORDER BY.
unorderedRows(partition, rowIds) ==
    SelectSeq(rowsOf(partition), LAMBDA row : row.id \in rowIds)

\* ORDER BY the key.
MakeRowIdFilterQuery(partition, rowIds) ==
    LET asked == withIds(partition, rowIds)
    IN  CHOOSE rows \in [1 .. Cardinality(asked) -> asked] :
            /\ Range(rows) = asked
            /\ \A k, n \in DOMAIN rows : k < n => rows[k].id < rows[n].id

\* The server takes the statement unless its list is empty or it names a result
\* table, which is not found without "::".
accepted(rowIds) == rowIds # {} /\ m_read_type # "ResultTable"

PrepareRowIdFilter(c, partition, rowIds) ==
    LET o == Prepare(c, MakeRowIdFilterQuery(partition, rowIds), TRUE)
    IN  IF accepted(rowIds) THEN o ELSE {f \in o : f.threw /\ f.conn.m_stmt \in {"null", "init"}}

-----------------------------------------------------------------------------
(* GetSingleRow and GetMultipleRows, called by GetChunkRow and             *)
(* GetChunkMultipleRows.  A consumer thread uses only its own element of   *)
(* m_consumers and what the creation left, so that the calls of different  *)
(* threads are taken one after another.                                    *)

keyOf(partition, place) == IF place = 0 THEN 0 ELSE partition * Len(RowSizes) + place

rowIdsOf(partition) ==
    IF m_read_type = "ResultTable" THEN 0 .. Len(RowSizes)
    ELSE {keyOf(partition, place) : place \in 0 .. Len(RowSizes)}

answer(op, t, partition, ids, size, rows, err) ==
    [op |-> op, thread |-> t, partition |-> partition, ids |-> ids, size |-> size,
     rows |-> rows, err |-> err]

\* ConnectWithRetryMA, when the thread has no connection yet: the connections it
\* may have afterwards.  A failure leaves it without one.
connected(t, partition) ==
    IF m_consumers[t + 1].conn # <<>> THEN {m_consumers[t + 1]}
    ELSE {[conn |-> c, node |-> node] :
             c \in {<<>>, <<newConnection>>}, node \in {FillCredentials(partition), Master}}

\* How many calls failed for the connection c.
attempts(t, partition, c) ==
    IF m_consumers[t + 1].conn # <<>> \/ (c.conn # <<>> /\ c.node = FillCredentials(partition))
    THEN 0 ELSE IF c.conn = <<>> THEN 2 ELSE 1

Idle ==
    /\ pc = "open" /\ call = "idle"
    /\ totalPartitions <= MaxTotalRead
    /\ calls < MaxCalls
    /\ calls' = calls + 1

\* A thread number that is too large; with an m_consumer_threads_num that was
\* never set, one that only seems small enough.
BadThread(t) ==
    /\ Idle
    /\ t >= Len(m_consumers)
    /\ \/ /\ t >= m_consumer_threads_num
          /\ ret' = answer("row", t, 0, {}, 0, <<>>, InvArg)
          /\ UNCHANGED pc
       \/ /\ t < m_consumer_threads_num
          /\ pc' = "undefined"
          /\ UNCHANGED ret
    /\ UNCHANGED <<vars, created, m_consumers, call, failures>>

\* No connection could be made.
ConnectFails(t, partition) ==
    /\ Idle
    /\ t < Len(m_consumers)
    /\ \E c \in connected(t, partition) : c.conn = <<>> /\ fail(attempts(t, partition, c))
    /\ ret' = answer("row", t, partition, {}, 0, <<>>, ServerError)
    /\ UNCHANGED <<vars, pc, created, m_consumers, call>>

\* The statement gave a row.
found(o) == HasNextRow(o.conn)

\* A value that cannot be written and malloc are the failures after the fetch.
GetSingleRow(t, partition, rowId) ==
    /\ Idle
    /\ t < Len(m_consumers)
    /\ \E c \in {d \in connected(t, partition) : d.conn # <<>>} :
       \E o \in Prepare(c.conn[1], MakePointInTimeQuery(partition, rowId), TRUE) :
       \E err \in IF o.threw THEN {o.code}
                  ELSE IF ~found(o) THEN {InvArg}
                  ELSE {0, NoMemory, ServerError} :
          /\ fail(attempts(t, partition, c) + IF err \in {0, InvArg} THEN 0 ELSE 1)
          /\ ret' = answer("row", t, partition, {rowId}, 0,
                           IF err = 0 THEN o.conn.m_last_fetched_row ELSE <<>>, err)
          /\ m_consumers' = [m_consumers EXCEPT ![t + 1] =
                [c EXCEPT !.conn = <<IF err = 0 THEN CleanupStatement(o.conn) ELSE o.conn>>]]
    /\ UNCHANGED <<vars, pc, created, call>>

\* malloc of the chunk fails before anything is asked of the server.
GetMultipleRowsNoMemory(t, partition) ==
    /\ Idle
    /\ t < Len(m_consumers)
    /\ \E c \in {d \in connected(t, partition) : d.conn # <<>>} :
          /\ fail(attempts(t, partition, c) + 1)
          /\ m_consumers' = [m_consumers EXCEPT ![t + 1] = c]
    /\ ret' = answer("rows", t, partition, {}, 0, <<>>, NoMemory)
    /\ UNCHANGED <<vars, pc, created, call>>

\* Up to the first row; the rest is FillRow.
GetMultipleRows(t, partition, rowIds, size) ==
    /\ Idle
    /\ t < Len(m_consumers)
    /\ \E c \in {d \in connected(t, partition) : d.conn # <<>>} :
       \E o \in PrepareRowIdFilter(c.conn[1], partition, rowIds) :
          /\ fail(attempts(t, partition, c) + IF o.threw /\ accepted(rowIds) THEN 1 ELSE 0)
          /\ m_consumers' = [m_consumers EXCEPT ![t + 1] = [c EXCEPT !.conn = <<o.conn>>]]
          /\ ret' = answer("rows", t, partition, rowIds, size, <<>>,
                           IF o.threw THEN o.code ELSE IF found(o) THEN 0 ELSE InvArg)
          /\ call' = IF ~o.threw /\ found(o) THEN "filling" ELSE "idle"
    /\ UNCHANGED <<vars, pc, created>>

bytes(rows) == FoldLeft(LAMBDA n, row : n + row.size, 0, rows)

\* Mutant: a row that ends with the chunk is refused.
HasEnoughSpaceStrict(row) == bytes(ret.rows) + row.size < ret.size

HasEnoughSpace(row) == bytes(ret.rows) + row.size <= ret.size

connection == m_consumers[ret.thread + 1].conn[1]

fetchedRow == connection.m_last_fetched_row[1]

\* WriteRow returned true and the next row is fetched, or WriteRow or the fetch
\* threw an S2ClientError; the chunk is then lost.
FillRow ==
    /\ pc = "open" /\ call = "filling"
    /\ HasNextRow(connection)
    /\ HasEnoughSpace(fetchedRow)
    /\ \/ \E o \in Advance(connection) :
             /\ fail(IF o.threw THEN 1 ELSE 0)
             /\ m_consumers' = [m_consumers EXCEPT ![ret.thread + 1].conn = <<o.conn>>]
             /\ ret' = [ret EXCEPT !.rows = IF o.threw THEN <<>> ELSE Append(@, fetchedRow),
                                   !.err = o.code]
             /\ call' = IF o.threw THEN "idle" ELSE "filling"
       \/ /\ fail(1)
          /\ ret' = [ret EXCEPT !.rows = <<>>, !.err = ServerError]
          /\ call' = "idle"
          /\ UNCHANGED m_consumers
    /\ UNCHANGED <<vars, pc, created, calls>>

\* WriteRow throws std::invalid_argument when not even the first row fits;
\* nobody catches it.
FillTerminates ==
    /\ pc = "open" /\ call = "filling"
    /\ ret.rows = <<>>
    /\ ~HasEnoughSpace(fetchedRow)
    /\ pc' = "terminated"
    /\ UNCHANGED <<vars, created, reads, failures>>

\* There is no more row, or the next one does not fit.
FillReturns ==
    /\ pc = "open" /\ call = "filling"
    /\ ret.rows # <<>>
    /\ HasNextRow(connection) => ~HasEnoughSpace(fetchedRow)
    /\ call' = "idle"
    /\ UNCHANGED <<vars, pc, created, m_consumers, ret, calls, failures>>

Create == Loops \/ ExplainRowSchema \/ GetAggregators \/ GetTableKeys \/ NextReader \/ StartReaders

PointRead(t) ==
    \/ BadThread(t)
    \/ \E partition \in Range(partitions) :
         \/ ConnectFails(t, partition)
         \/ \E rowId \in rowIdsOf(partition) : GetSingleRow(t, partition, rowId)
         \/ GetMultipleRowsNoMemory(t, partition)
         \/ \E places \in RowIdSets, size \in ChunkSizes :
               GetMultipleRows(t, partition, {keyOf(partition, k) : k \in places}, size)

QNext ==
    \/ Create
    \/ \E t \in Threads : PointRead(t)
    \/ FillRow
    \/ FillTerminates
    \/ FillReturns

QSpec == QInit /\ [][QNext]_qvars

-----------------------------------------------------------------------------
(* Properties.                                                             *)

readersOf(c) == {n \in 1 .. started : m_partition_consumer[m_readers[n].partition] = c}

\* The destructor waits for the producers of a queue unless
\* m_error_before_read: whenever that flag is clear, every queue has as many
\* running readers as it expects producers, and a creation that failed has
\* started none.
DrainedQueuesHaveReaders ==
    /\ ~m_error_before_read =>
          \A c \in 0 .. (nConsumers - 1) : Cardinality(readersOf(c)) = producers[c + 1]
    /\ pc = "null" => started = 0 /\ m_error_before_read

\* A partition is read at another node than its aggregator only when the
\* callback was told so, and a creation that returned nullptr has reported an
\* error, unless the caller passed ReadTypeUnknown.
FallbackReported ==
    /\ \A n \in DOMAIN m_readers :
          \/ m_readers[n].node = FillCredentials(m_readers[n].partition)
          \/ m_readers[n].node = Master /\ told("WARNING", m_readers[n].partition) \in cb
    /\ pc = "null" => m_read_type = "Unknown" \/ \E k \in cb : k.severity = "ERROR"
    /\ pc = "open" => \A k \in cb : k.severity = "WARNING"

answered == ret.op # "none" /\ call = "idle" /\ pc = "open"

\* A point read returns rows or an error, never both and never neither.
rowsOrError == ret.err = 0 <=> ret.rows # <<>>

\* A point read gives an error or rows; the rows are those asked for and no others, also
\* when an earlier read of the thread failed halfway or left rows in its
\* statement: the one row, or the first rows in the order of the key, cut short only
\* where the next one did not fit.
PointReadExact ==
    /\ answered => rowsOrError
    /\ answered /\ ret.err = 0 =>
        LET asked == withIds(ret.partition, ret.ids)
            missing == asked \ Range(ret.rows)
        IN  \/ /\ ret.op = "row"
               /\ Len(ret.rows) = 1
               /\ IF m_read_type = "ResultTable"
                  THEN \E k \in ret.ids : ret.rows[1] = rowsOf(ret.partition)[k + 1]
                  ELSE {ret.rows[1]} = asked
            \/ /\ ret.op = "rows"
               /\ Range(ret.rows) \subseteq asked
               /\ \A k, n \in DOMAIN ret.rows : k < n => ret.rows[k].id < ret.rows[n].id
               /\ \A row \in missing :
                     /\ row.id > Last(ret.rows).id
                     /\ \E other \in missing :
                           other.id <= row.id /\ ~(bytes(ret.rows) + other.size <= ret.size)

askedRows == MakeRowIdFilterQuery(ret.partition, ret.ids)

\* The process is ended by an exception, or memory is read outside a vector,
\* only where the caller passed a chunk that is smaller than the first row
\* asked for, or no reader thread, or asks a queue without partitions.
NoTermination ==
    /\ pc = "terminated" => ret.size < askedRows[1].size
    /\ pc = "undefined" => nConsumers = 0 \/ partitions = <<>>
=============================================================================
